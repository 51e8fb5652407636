---------------------- MODULE OutOfBandBaselineProofs ----------------------
(***************************************************************************)
(* Proofs about the out-of-band baseline and its inventory, for every      *)
(* number of migrations, switches and addresses and every set of faults.   *)
(***************************************************************************)
EXTENDS OutOfBandBaseline, Integers, TLAPS

-----------------------------------------------------------------------------
(* The typing of the state                                                 *)

(* A run knows no switch while it looks for one, an address before it      *)
(* connects, and a switch before it writes DISCOVERED; it is at work on    *)
(* the switch only after that.                                             *)
Path(m) == /\ pc[m] = "resolve" => rec[m].status = "IN_PROGRESS"
           /\ rec[m].status = "IN_PROGRESS" => rec[m].serial = None
           /\ pc[m] = "connect" => rec[m].ip # None
           /\ pc[m] \in {"lock", "commit"} => rec[m].status = "DISCOVERED"
           /\ rec[m].status = "DISCOVERED" => rec[m].serial # None

TypeInv == TypeOK /\ \A m \in Migration : Path(m)

LEMMA Rows == /\ NoRow \in Row /\ NoRows \in [Migration -> Row] /\ Nothing \in Run
              /\ \A r \in Run : RowOf(r) \in Row
BY DEF NoRow, NoRows, Nothing, Run, Row, RowOf, Statuses

LEMMA WithStatus ==
    ASSUME NEW r \in Run, NEW s \in Statuses
    PROVE  /\ [r EXCEPT !.status = s] \in Run
           /\ [r EXCEPT !.status = s].status = s
           /\ [r EXCEPT !.status = s].ip = r.ip
           /\ [r EXCEPT !.status = s].serial = r.serial
BY DEF Run

(* What a run may go on with: a row to write, or a status that it failed   *)
LEMMA PutTyping ==
    ASSUME TypeInv, NEW m \in Migration, NEW row \in Run, Put(m, row),
           row.status = "DISCOVERED" => row.serial # None,
           row.status = "IN_PROGRESS" => row.serial = None
    PROVE  /\ rec' \in [Migration -> Run] /\ pc' \in [Migration -> Points]
           /\ \A n \in Migration : Path(n)'
BY DEF TypeInv, TypeOK, Path, Put, Goto, Points

LEMMA FailTyping ==
    ASSUME TypeInv, NEW m \in Migration, Fail(m)
    PROVE  /\ rec' \in [Migration -> Run] /\ pc' \in [Migration -> Points]
           /\ \A n \in Migration : Path(n)'
<1>1. rec[m] \in Run /\ Failed \in Statuses /\ Failed \notin {"IN_PROGRESS", "DISCOVERED"}
  BY DEF TypeInv, TypeOK, Statuses, Failed
<1>2. QED
  BY <1>1, WithStatus, PutTyping DEF Fail

LEMMA EndTyping ==
    ASSUME TypeInv, NEW m \in Migration, End(m)
    PROVE  /\ rec' \in [Migration -> Run] /\ pc' \in [Migration -> Points]
           /\ seen' \in [Migration -> [Migration -> Row]]
           /\ \A n \in Migration : Path(n)'
<1>1. rec' \in [Migration -> Run] /\ pc' \in [Migration -> Points]
      /\ seen' \in [Migration -> [Migration -> Row]]
  BY Rows DEF TypeInv, TypeOK, End, Goto, Points
<1>2. \A n \in Migration : Path(n)'
  BY DEF TypeInv, TypeOK, Path, End, Goto, Nothing
<1>3. QED
  BY <1>1, <1>2

(* Going on without another row *)
LEMMA GotoTyping ==
    ASSUME TypeInv, NEW m \in Migration, NEW point \in Points, Goto(m, point),
           UNCHANGED rec,
           point \notin {"resolve", "connect"}, point \in {"lock", "commit"} => rec[m].status = "DISCOVERED"
    PROVE  pc' \in [Migration -> Points] /\ \A n \in Migration : Path(n)'
BY DEF TypeInv, TypeOK, Path, Goto

LEMMA TypeStep == TypeInv /\ [Next]_vars => TypeInv'
<1> SUFFICES ASSUME TypeInv, [Next]_vars PROVE TypeInv'
  OBVIOUS
<1> USE DEF net, flow, history, Unmoved
<1>1. ASSUME NEW m \in Migration, Announce(m) PROVE TypeInv'
  <2>1. [Nothing EXCEPT !.status = "IN_PROGRESS"] \in Run
        /\ [Nothing EXCEPT !.status = "IN_PROGRESS"].status = "IN_PROGRESS"
        /\ [Nothing EXCEPT !.status = "IN_PROGRESS"].serial = None
    BY DEF Nothing, Run, Statuses
  <2>2. QED
    BY <1>1, <2>1, PutTyping DEF Announce, TypeInv, TypeOK
<1>2. ASSUME NEW m \in Migration, ReadRows(m) PROVE TypeInv'
  <2>1. Others(m) \in [Migration -> Row]
    BY Rows DEF TypeInv, TypeOK, Others
  <2>2. QED
    BY <1>2, <2>1, GotoTyping DEF ReadRows, TypeInv, TypeOK, Points
<1>3. ASSUME NEW m \in Migration, ReplaceRows(m) PROVE TypeInv'
  <2>1. inventory' \in [Migration -> Row] /\ seen' \in [Migration -> [Migration -> Row]]
    BY <1>3, Rows DEF ReplaceRows, TypeInv, TypeOK
  <2>2. rec' \in [Migration -> Run]
    BY <1>3, Rows DEF ReplaceRows, TypeInv, TypeOK
  <2>3. fresh' \in [Migration -> BOOLEAN]
    BY <1>3 DEF ReplaceRows, TypeInv, TypeOK
  <2>4. AfterWrite(rec[m].status) \in Points
    BY DEF AfterWrite, Points
  <2>5. pc' \in [Migration -> Points]
    BY <1>3, <2>4 DEF ReplaceRows, Goto, TypeInv, TypeOK
  <2>6. \A n \in Migration : Path(n)'
    BY <1>3 DEF ReplaceRows, Goto, AfterWrite, Path, Failed, Nothing, TypeInv, TypeOK
  <2>7. QED
    BY <1>3, <2>1, <2>2, <2>3, <2>5, <2>6 DEF ReplaceRows, TypeInv, TypeOK
<1>4. ASSUME NEW m \in Migration, WriteFails(m) PROVE TypeInv'
  <2>1. CASE rec[m].status = Failed
    <3>1. End(m) /\ died' = [died EXCEPT ![m] = TRUE]
      BY <1>4, <2>1 DEF WriteFails
    <3>2. QED
      BY <1>4, <3>1, EndTyping DEF WriteFails, TypeInv, TypeOK
  <2>2. CASE rec[m].status # Failed
    <3>1. Fail(m) /\ seen' = [seen EXCEPT ![m] = NoRows] /\ UNCHANGED died
      BY <1>4, <2>2 DEF WriteFails
    <3>2. QED
      BY <1>4, <3>1, FailTyping, Rows DEF WriteFails, TypeInv, TypeOK
  <2>3. QED
    BY <2>1, <2>2
<1>5. ASSUME NEW m \in Migration, Resolve(m) PROVE TypeInv'
  <2>1. CASE Fail(m)
    BY <1>5, <2>1, FailTyping DEF Resolve, TypeInv, TypeOK
  <2>2. CASE \E i \in Ip : rec' = [rec EXCEPT ![m].ip = i] /\ Goto(m, "connect")
    <3>1. PICK i \in Ip : rec' = [rec EXCEPT ![m].ip = i] /\ Goto(m, "connect")
      BY <2>2
    <3>2. rec' \in [Migration -> Run] /\ pc' \in [Migration -> Points]
      BY <3>1 DEF Goto, Run, Points, TypeInv, TypeOK
    <3>3. \A n \in Migration : Path(n)'
      BY <3>1, NoneAssumption DEF Goto, Run, Path, TypeInv, TypeOK
    <3>4. QED
      BY <1>5, <3>2, <3>3 DEF Resolve, TypeInv, TypeOK
  <2>3. QED
    BY <1>5, <2>1, <2>2 DEF Resolve
<1>6. ASSUME NEW m \in Migration, Connect(m) PROVE TypeInv'
  <2>1. CASE Fail(m)
    BY <1>6, <2>1, FailTyping DEF Connect, TypeInv, TypeOK
  <2>2. CASE ~Fail(m)
    <3> DEFINE row == [rec[m] EXCEPT !.serial = lease[rec[m].ip], !.status = "DISCOVERED"]
    <3>1. Put(m, row) /\ lease[rec[m].ip] # None
      BY <1>6, <2>2 DEF Connect
    <3>2. rec[m].ip \in Ip
      BY <1>6 DEF Connect, Path, Run, TypeInv, TypeOK
    <3>3. row \in Run /\ row.serial # None /\ row.status = "DISCOVERED"
      BY <3>1, <3>2 DEF Run, Statuses, TypeInv, TypeOK
    <3> HIDE DEF row
    <3>4. QED
      BY <1>6, <3>1, <3>3, PutTyping DEF Connect, TypeInv, TypeOK
  <2>3. QED
    BY <2>1, <2>2
<1>7. ASSUME NEW m \in Migration, Lock(m) PROVE TypeInv'
  <2>1. CASE Fail(m)
    BY <1>7, <2>1, FailTyping DEF Lock, TypeInv, TypeOK
  <2>2. CASE Goto(m, "commit") /\ UNCHANGED rec
    BY <1>7, <2>2, GotoTyping DEF Lock, Points, Path, TypeInv, TypeOK
  <2>3. QED
    BY <1>7, <2>1, <2>2 DEF Lock
<1>8. ASSUME NEW m \in Migration, CommitBaseline(m) PROVE TypeInv'
  <2>1. PICK status \in {"READY", Failed} : Put(m, [rec[m] EXCEPT !.status = status])
    BY <1>8 DEF CommitBaseline
  <2>2. [rec[m] EXCEPT !.status = status] \in Run
        /\ [rec[m] EXCEPT !.status = status].status \notin {"IN_PROGRESS", "DISCOVERED"}
    BY DEF Run, Statuses, Failed, TypeInv, TypeOK
  <2>3. rec[m].serial \in Switch
    BY <1>8 DEF CommitBaseline, Path, Run, TypeInv, TypeOK
  <2>4. QED
    BY <1>8, <2>1, <2>2, <2>3, PutTyping DEF CommitBaseline, TypeInv, TypeOK
<1>9. ASSUME NEW m \in Migration, DryRun(m) PROVE TypeInv'
  <2>1. rec[m] \in Run
    BY DEF TypeInv, TypeOK
  <2>2. /\ [rec[m] EXCEPT !.status = "DRY_RUN"] \in Run
        /\ [rec[m] EXCEPT !.status = "DRY_RUN"].status = "DRY_RUN"
    BY <2>1 DEF Run, Statuses
  <2>3. QED
    BY <1>9, <2>2, PutTyping DEF DryRun, TypeInv, TypeOK
<1>10. ASSUME NEW m \in Migration, Unlock(m) PROVE TypeInv'
  BY <1>10, EndTyping DEF Unlock, TypeInv, TypeOK
<1>11. ASSUME NEW m \in Migration, RunFails(m) PROVE TypeInv'
  BY <1>11, FailTyping DEF RunFails, TypeInv, TypeOK
<1>12. ASSUME NEW m \in Migration, Crash(m) PROVE TypeInv'
  BY <1>12, EndTyping DEF Crash, TypeInv, TypeOK
<1>13. ASSUME NEW m \in Guided, TakeAddress(m) \/ Identify(m) \/ Prestage(m)
       PROVE  TypeInv'
  <2> DEFINE Identity == [ip : Ip \cup {None}, serial : Switch \cup {None}]
  <2>0. m \in Migration /\ bound \in [Migration -> Identity] /\ bound[m] \in Identity
    BY GuidedAssumption DEF TypeInv, TypeOK
  <2>1. bound' \in [Migration -> Identity]
    <3>1. Unbound \in Identity
      BY DEF Unbound
    <3>2. [Unbound EXCEPT !.ip = inventory[m].ip] \in Identity
      BY <2>0 DEF Unbound, Row, TypeInv, TypeOK
    <3>3. lease[bound[m].ip] # None /\ bound[m].ip # None
          => [bound[m] EXCEPT !.serial = lease[bound[m].ip]] \in Identity
      BY <2>0 DEF TypeInv, TypeOK
    <3> HIDE DEF Identity
    <3>4. QED
      BY <1>13, <2>0, <3>1, <3>2, <3>3 DEF TakeAddress, Identify, Prestage, Bind
  <2>2. staged' \subseteq Migration \X Switch
    BY <1>13, GuidedAssumption DEF TakeAddress, Identify, Prestage, TypeInv, TypeOK
  <2>3. QED
    BY <1>13, <2>1, <2>2
    DEF TakeAddress, Identify, Prestage, Workflow, Path, TypeInv, TypeOK
<1>14. ASSUME NEW i \in Ip, Refresh(i) PROVE TypeInv'
  BY <1>14 DEF Refresh, Path, TypeInv, TypeOK
<1>15. ASSUME NEW i \in Ip, NEW s \in Switch, Move(s, i) PROVE TypeInv'
  BY <1>15 DEF Move, Path, TypeInv, TypeOK
<1>16. CASE UNCHANGED vars
  BY <1>16 DEF vars, Path, TypeInv, TypeOK
<1>17. QED
  BY <1>1, <1>2, <1>3, <1>4, <1>5, <1>6, <1>7, <1>8, <1>9, <1>10, <1>11, <1>12,
     <1>13, <1>14, <1>15, <1>16 DEF Next, RunStep

LEMMA TypeInvariant == Spec => []TypeInv
<1>1. ASSUME Init PROVE TypeInv
  <2>1. TypeOK
    BY <1>1, Rows DEF Init, TypeOK, Unbound, Points
  <2>2. \A m \in Migration : Path(m)
    BY <1>1 DEF Init, Path, Nothing
  <2>3. QED
    BY <2>1, <2>2 DEF TypeInv
<1>2. QED
  BY <1>1, TypeStep, PTL DEF Spec

(* Every reachable state is well typed: no run commits to a switch it has  *)
(* not identified, whatever fails.                                         *)
THEOREM TypeCorrect == Spec => []TypeOK
BY TypeInvariant, PTL DEF TypeInv

-----------------------------------------------------------------------------
(* What the rows of the inventory say                                      *)

(* A READY row is that of a run that has committed and is not before the   *)
(* commit of another; only a run that has committed is about to write one. *)
(* A run that is over, or almost, has told how it ended.                   *)
RowTells(m) == /\ Status(m) = "READY" => fresh[m] /\ ~BeforeCommit(m)
               /\ pc[m] \in {"read", "replace"} /\ rec[m].status = "READY" => fresh[m]
               /\ pc[m] \in {"idle", "unlock"} => Reported(m) \/ died[m]

RowInv == raced \/ \A m \in Migration : RowTells(m)

(* What a step of one migration leaves as it is for another               *)
LEMMA Untouched ==
    ASSUME NEW m \in Migration, RowTells(m),
           pc'[m] = pc[m], rec'[m] = rec[m], inventory'[m] = inventory[m],
           fresh'[m] = fresh[m], died'[m] = died[m]
    PROVE  RowTells(m)'
BY DEF RowTells, Status, BeforeCommit, Reported

(* A write of what was read without interference changes one row.          *)
LEMMA OneRow ==
    ASSUME TypeInv, NEW m \in Migration, ReplaceRows(m), ~raced'
    PROVE  inventory' = [inventory EXCEPT ![m] = RowOf(rec[m])]
<1>1. inventory' = [Others(m) EXCEPT ![m] = RowOf(rec[m])]
  BY DEF ReplaceRows
<1>2. QED
  BY <1>1 DEF Others, TypeInv, TypeOK

LEMMA RowStep == TypeInv /\ RowInv /\ [Next]_vars => RowInv'
<1> SUFFICES ASSUME TypeInv, RowInv, [Next]_vars, ~raced' PROVE \A n \in Migration : RowTells(n)'
  BY DEF RowInv
<1>0. /\ pc \in [Migration -> Points] /\ rec \in [Migration -> Run]
      /\ fresh \in [Migration -> BOOLEAN] /\ died \in [Migration -> BOOLEAN]
      /\ \A n \in Migration : rec[n] \in Run
  BY DEF TypeInv, TypeOK
<1> USE DEF net, flow, history, Unmoved
<1>r. ~raced
  BY DEF Next, RunStep, Announce, ReadRows, ReplaceRows, WriteFails, Resolve, Connect, Lock,
         CommitBaseline, DryRun, Unlock, RunFails, Crash, TakeAddress, Identify, Prestage,
         Workflow, Refresh, Move, vars
<1>t. \A n \in Migration : RowTells(n)
  BY <1>r DEF RowInv
<1>f. ASSUME NEW m \in Migration, Fail(m), UNCHANGED <<inventory, fresh, died>>
      PROVE  \A n \in Migration : RowTells(n)'
  <2>1. pc'[m] = "read" /\ rec'[m].status = Failed
    BY <1>f, <1>0, WithStatus DEF Fail, Put, Goto, Failed, Statuses
  <2>2. RowTells(m)'
    BY <1>f, <1>t, <2>1 DEF RowTells, Status, BeforeCommit, Reported, Failed
  <2>3. ASSUME NEW n \in Migration, n # m PROVE RowTells(n)'
    BY <1>f, <1>0, <1>t, <2>3, Untouched DEF Fail, Put, Goto
  <2>4. QED
    BY <2>2, <2>3
<1>1. ASSUME NEW m \in Migration, Announce(m) PROVE \A n \in Migration : RowTells(n)'
  <2>1. pc'[m] = "read" /\ rec'[m].status = "IN_PROGRESS"
    BY <1>1, <1>0 DEF Announce, Put, Goto, Nothing
  <2>2. RowTells(m)'
    BY <1>1, <1>t, <2>1 DEF Announce, RowTells, Status, BeforeCommit, Reported
  <2>3. ASSUME NEW n \in Migration, n # m PROVE RowTells(n)'
    BY <1>1, <1>0, <1>t, <2>3, Untouched DEF Announce, Put, Goto
  <2>4. QED
    BY <2>2, <2>3
<1>2. ASSUME NEW m \in Migration, ReadRows(m) PROVE \A n \in Migration : RowTells(n)'
  <2>1. RowTells(m)'
    BY <1>2, <1>0, <1>t DEF ReadRows, Goto, RowTells, Status, BeforeCommit, Reported
  <2>2. ASSUME NEW n \in Migration, n # m PROVE RowTells(n)'
    BY <1>2, <1>0, <1>t, <2>2, Untouched DEF ReadRows, Goto
  <2>3. QED
    BY <2>1, <2>2
<1>3. ASSUME NEW m \in Migration, ReplaceRows(m) PROVE \A n \in Migration : RowTells(n)'
  <2>1. inventory' = [inventory EXCEPT ![m] = RowOf(rec[m])]
    BY <1>3, OneRow
  <2>2. inventory'[m].status = rec[m].status
    BY <2>1 DEF RowOf, TypeInv, TypeOK
  <2>3. /\ pc[m] = "replace" /\ pc'[m] = AfterWrite(rec[m].status)
        /\ fresh'[m] = (fresh[m] /\ rec[m].status # "IN_PROGRESS") /\ UNCHANGED died
    BY <1>3, <1>0 DEF ReplaceRows, Goto
  <2>4. RowTells(m)'
    BY <1>t, <2>2, <2>3 DEF RowTells, Status, BeforeCommit, Reported, AfterWrite, Failed
  <2>5. ASSUME NEW n \in Migration, n # m PROVE RowTells(n)'
    BY <1>3, <1>0, <1>t, <2>1, <2>5, Untouched DEF ReplaceRows, Goto, TypeInv, TypeOK
  <2>6. QED
    BY <2>4, <2>5
<1>e. ASSUME NEW m \in Migration, End(m), UNCHANGED <<inventory, fresh>>,
             died' = [died EXCEPT ![m] = TRUE]
      PROVE  \A n \in Migration : RowTells(n)'
  <2>1. pc'[m] = "idle" /\ died'[m]
    BY <1>e, <1>0 DEF End, Goto
  <2>2. RowTells(m)'
    BY <1>e, <1>t, <2>1 DEF RowTells, Status, BeforeCommit
  <2>3. ASSUME NEW n \in Migration, n # m PROVE RowTells(n)'
    BY <1>e, <1>0, <1>t, <2>3, Untouched DEF End, Goto
  <2>4. QED
    BY <2>2, <2>3
<1>4. ASSUME NEW m \in Migration, WriteFails(m) PROVE \A n \in Migration : RowTells(n)'
  BY <1>4, <1>e, <1>f DEF WriteFails
<1>5. ASSUME NEW m \in Migration, Resolve(m) PROVE \A n \in Migration : RowTells(n)'
  <2>1. CASE Fail(m)
    BY <1>5, <2>1, <1>f DEF Resolve
  <2>2. CASE \E i \in Ip : rec' = [rec EXCEPT ![m].ip = i] /\ Goto(m, "connect")
    <3>1. pc'[m] = "connect" /\ pc[m] = "resolve"
      BY <1>5, <1>0, <2>2 DEF Resolve, Goto
    <3>2. RowTells(m)'
      BY <1>5, <1>t, <3>1 DEF Resolve, RowTells, Status, BeforeCommit
    <3>3. ASSUME NEW n \in Migration, n # m PROVE RowTells(n)'
      BY <1>5, <1>0, <1>t, <2>2, <3>3, Untouched DEF Resolve, Goto
    <3>4. QED
      BY <3>2, <3>3
  <2>3. QED
    BY <1>5, <2>1, <2>2 DEF Resolve
<1>6. ASSUME NEW m \in Migration, Connect(m) PROVE \A n \in Migration : RowTells(n)'
  <2>1. CASE Fail(m)
    BY <1>6, <2>1, <1>f DEF Connect
  <2>2. CASE Put(m, [rec[m] EXCEPT !.serial = lease[rec[m].ip], !.status = "DISCOVERED"])
    <3>1. pc'[m] = "read" /\ rec'[m].status = "DISCOVERED" /\ pc[m] = "connect"
      BY <1>6, <1>0, <2>2 DEF Connect, Put, Goto, Run
    <3>2. RowTells(m)'
      BY <1>6, <1>t, <3>1 DEF Connect, RowTells, Status, BeforeCommit
    <3>3. ASSUME NEW n \in Migration, n # m PROVE RowTells(n)'
      BY <1>6, <1>0, <1>t, <2>2, <3>3, Untouched DEF Connect, Put, Goto
    <3>4. QED
      BY <3>2, <3>3
  <2>3. QED
    BY <1>6, <2>1, <2>2 DEF Connect
<1>7. ASSUME NEW m \in Migration, Lock(m) PROVE \A n \in Migration : RowTells(n)'
  <2>1. CASE Fail(m)
    BY <1>7, <2>1, <1>f DEF Lock
  <2>2. CASE Goto(m, "commit") /\ UNCHANGED rec
    <3>1. pc'[m] = "commit" /\ pc[m] = "lock"
      BY <1>7, <1>0, <2>2 DEF Lock, Goto
    <3>2. RowTells(m)'
      BY <1>7, <1>t, <3>1 DEF Lock, RowTells, Status, BeforeCommit
    <3>3. ASSUME NEW n \in Migration, n # m PROVE RowTells(n)'
      BY <1>7, <1>0, <1>t, <2>2, <3>3, Untouched DEF Lock, Goto
    <3>4. QED
      BY <3>2, <3>3
  <2>3. QED
    BY <1>7, <2>1, <2>2 DEF Lock
<1>8. ASSUME NEW m \in Migration, CommitBaseline(m) PROVE \A n \in Migration : RowTells(n)'
  <2>1. PICK status \in {"READY", Failed} : Put(m, [rec[m] EXCEPT !.status = status])
    BY <1>8 DEF CommitBaseline
  <2>2. /\ pc'[m] = "read" /\ rec'[m].status \in {"READY", Failed}
        /\ pc[m] = "commit" /\ fresh'[m] /\ UNCHANGED <<inventory, died>>
    <3>1. status \in Statuses
      BY DEF Statuses, Failed
    <3>2. pc'[m] = "read" /\ rec'[m].status = status
      BY <1>0, <2>1, <3>1, WithStatus DEF Put, Goto
    <3>3. QED
      BY <1>8, <1>0, <3>2 DEF CommitBaseline
  <2>3. RowTells(m)'
    BY <1>t, <2>2 DEF RowTells, Status, BeforeCommit, Failed
  <2>4. ASSUME NEW n \in Migration, n # m PROVE RowTells(n)'
    BY <1>8, <1>0, <1>t, <2>1, <2>4, Untouched DEF CommitBaseline, Put, Goto
  <2>5. QED
    BY <2>3, <2>4
<1>9. ASSUME NEW m \in Migration, DryRun(m) PROVE \A n \in Migration : RowTells(n)'
  <2>1. pc'[m] = "read" /\ rec'[m].status = "DRY_RUN" /\ pc[m] = "commit"
    BY <1>9, <1>0, WithStatus DEF DryRun, Put, Goto, Statuses
  <2>2. RowTells(m)'
    BY <1>9, <1>t, <2>1 DEF DryRun, RowTells, Status, BeforeCommit
  <2>3. ASSUME NEW n \in Migration, n # m PROVE RowTells(n)'
    BY <1>9, <1>0, <1>t, <2>3, Untouched DEF DryRun, Put, Goto
  <2>4. QED
    BY <2>2, <2>3
<1>10. ASSUME NEW m \in Migration, Unlock(m) PROVE \A n \in Migration : RowTells(n)'
  <2>1. pc'[m] = "idle" /\ pc[m] = "unlock"
    BY <1>10, <1>0 DEF Unlock, End, Goto
  <2>2. RowTells(m)'
    BY <1>10, <1>t, <2>1 DEF Unlock, RowTells, Status, BeforeCommit, Reported
  <2>3. ASSUME NEW n \in Migration, n # m PROVE RowTells(n)'
    BY <1>10, <1>0, <1>t, <2>3, Untouched DEF Unlock, End, Goto
  <2>4. QED
    BY <2>2, <2>3
<1>11. ASSUME NEW m \in Migration, RunFails(m) PROVE \A n \in Migration : RowTells(n)'
  BY <1>11, <1>f DEF RunFails
<1>12. ASSUME NEW m \in Migration, Crash(m) PROVE \A n \in Migration : RowTells(n)'
  BY <1>12, <1>e DEF Crash
<1>13. CASE \/ \E m \in Guided : TakeAddress(m) \/ Identify(m) \/ Prestage(m)
            \/ \E i \in Ip : Refresh(i) \/ \E s \in Switch : Move(s, i)
            \/ UNCHANGED vars
  <2>1. UNCHANGED <<pc, rec, inventory, fresh, died>>
    BY <1>13 DEF TakeAddress, Identify, Prestage, Workflow, Refresh, Move, vars
  <2>2. QED
    BY <1>t, <2>1, Untouched
<1>14. QED
  BY <1>1, <1>2, <1>3, <1>4, <1>5, <1>6, <1>7, <1>8, <1>9, <1>10, <1>11, <1>12, <1>13
  DEF Next, RunStep

LEMMA RowInvariant == Spec => []RowInv
<1>1. ASSUME Init PROVE RowInv
  <2>1. \A m \in Migration : pc[m] = "idle" /\ inventory[m].status = ""
    BY <1>1 DEF Init, NoRows, NoRow
  <2>2. QED
    BY <2>1 DEF RowInv, RowTells, Status, Reported
<1>2. QED
  BY <1>1, TypeInvariant, RowStep, PTL DEF Spec

(* Until a row is lost to another shell, a READY row of the inventory is   *)
(* the work of the last run of its migration, and no run is between its    *)
(* announcement and its commit while the row says READY.                   *)
THEOREM ReadySafety == Spec => []ReadyIsCurrent
<1>1. RowInv => ReadyIsCurrent
  BY DEF RowInv, RowTells, ReadyIsCurrent, OlderReadyIsRetired
<1>2. QED
  BY <1>1, RowInvariant, PTL

(* Until a row is lost to another shell, a run whose shell lived and could *)
(* write leaves a row that tells how it ended.                             *)
THEOREM ReportSafety == Spec => []RunIsReported
<1>1. RowInv => RunIsReported
  BY DEF RowInv, RowTells, RunIsReported
<1>2. QED
  BY <1>1, RowInvariant, PTL

-----------------------------------------------------------------------------
(* Which switch a row, an identity and a pre-stage mean                    *)

ReadyAt(m, i) == i \in Ip /\ lease[i] \in installed /\ cabled[lease[i]] = m

(* A run has the address of the switch behind its EX4300; the switch it    *)
(* connected to is the one there, and runs the baseline when it says so.   *)
RunPlaced(m) ==
    /\ rec[m].ip # None => cabled[lease[rec[m].ip]] = m
    /\ rec[m].serial # None => rec[m].ip # None /\ rec[m].serial = lease[rec[m].ip]
    /\ rec[m].status = "READY" => rec[m].serial \in installed

RowPlaced(m, row) == row.status = "READY" => ReadyAt(m, row.ip)

IdentityPlaced(m) ==
    /\ bound[m].ip # None => ReadyAt(m, bound[m].ip)
    /\ bound[m].serial # None => bound[m].ip # None /\ bound[m].serial = lease[bound[m].ip]

WhereInv == /\ arp = lease
            /\ \A m \in Migration :
                  /\ RunPlaced(m) /\ RowPlaced(m, inventory[m]) /\ IdentityPlaced(m)
                  /\ \A n \in Migration : RowPlaced(m, seen[n][m])

Pinned == \A p \in staged : bound[p[1]].serial = p[2]

(* A pinned identity is not bound again.                                   *)
LEMMA PinnedStep == TypeInv /\ Pinned /\ [Next]_vars => Pinned'
<1> SUFFICES ASSUME TypeInv, Pinned, [Next]_vars PROVE Pinned'
  OBVIOUS
<1> DEFINE Identity == [ip : Ip \cup {None}, serial : Switch \cup {None}]
<1>0. bound \in [Migration -> Identity] /\ staged \subseteq Migration \X Switch
  BY DEF TypeInv, TypeOK
<1>1. ASSUME NEW m \in Guided, TakeAddress(m) \/ Identify(m) PROVE Pinned'
  <2>1. m \in Migration /\ bound[m].serial = None /\ UNCHANGED staged
    BY <1>1, GuidedAssumption DEF TakeAddress, Identify, Unbound
  <2>2. \A n \in Migration : n # m => bound'[n] = bound[n]
    BY <1>0, <1>1, <2>1 DEF TakeAddress, Identify, Bind
  <2>3. ASSUME NEW p \in staged PROVE bound'[p[1]].serial = p[2]
    <3>1. p[1] \in Migration /\ p[2] \in Switch /\ bound[p[1]].serial = p[2]
      BY <1>0, <2>3 DEF Pinned
    <3>2. p[1] # m
      BY <2>1, <3>1, NoneAssumption
    <3>3. QED
      BY <2>2, <3>1, <3>2
  <2>4. QED
    BY <2>1, <2>3 DEF Pinned
<1>2. ASSUME NEW m \in Guided, Prestage(m) PROVE Pinned'
  BY <1>2 DEF Prestage, Answering, Pinned
<1>3. CASE UNCHANGED flow
  BY <1>3 DEF flow, Pinned
<1>4. QED
  <2>1. \/ \E m \in Guided : TakeAddress(m) \/ Identify(m) \/ Prestage(m)
        \/ UNCHANGED flow
    BY DEF Next, RunStep, Announce, ReadRows, ReplaceRows, WriteFails, Resolve, Connect, Lock,
           CommitBaseline, DryRun, Unlock, RunFails, Crash, Refresh, Move, Unmoved, vars
  <2>2. QED
    BY <1>1, <1>2, <1>3, <2>1

(* The network stands still, and switches keep the baseline.               *)
LEMMA NetStep ==
    ASSUME TypeInv, WhereInv, [Next]_vars, ~moved'
    PROVE  ~moved /\ UNCHANGED net /\ installed \subseteq installed'
<1> USE DEF net, flow, history, Unmoved
<1>1. ~moved /\ UNCHANGED <<cabled, lease>> /\ installed \subseteq installed'
  <2>1. CASE \E m \in Migration : CommitBaseline(m)
    BY <2>1 DEF CommitBaseline
  <2>2. CASE ~\E m \in Migration : CommitBaseline(m)
    <3>1. CASE \E i \in Ip, s \in Switch : Move(s, i)
      BY <3>1 DEF Move
    <3>2. CASE \E i \in Ip : Refresh(i)
      BY <3>2 DEF Refresh
    <3>3. CASE UNCHANGED vars
      BY <3>3 DEF vars
    <3>4. CASE \E m \in Guided : TakeAddress(m) \/ Identify(m) \/ Prestage(m)
      BY <3>4 DEF TakeAddress, Identify, Prestage, Workflow
    <3>5. CASE \E m \in Migration : Announce(m) \/ RunStep(m) \/ Crash(m)
      BY <2>2, <3>5 DEF RunStep, Announce, ReadRows, ReplaceRows, WriteFails, Resolve, Connect,
             Lock, DryRun, Unlock, RunFails, Crash
    <3>6. QED
      BY <3>1, <3>2, <3>3, <3>4, <3>5 DEF Next
  <2>3. QED
    BY <2>1, <2>2
<1>2. UNCHANGED arp
  <2>1. CASE \E i \in Ip : Refresh(i)
    BY <2>1 DEF Refresh, WhereInv, TypeInv, TypeOK
  <2>2. CASE ~\E i \in Ip : Refresh(i)
    BY <2>2 DEF Next, RunStep, Announce, ReadRows, ReplaceRows, WriteFails, Resolve, Connect,
           Lock, CommitBaseline, DryRun, Unlock, RunFails, Crash, TakeAddress, Identify,
           Prestage, Workflow, Move, vars
  <2>3. QED
    BY <2>1, <2>2
<1>3. QED
  BY <1>1, <1>2

LEMMA RunPlacedStep ==
    ASSUME TypeInv, WhereInv, [Next]_vars, ~moved', NEW n \in Migration
    PROVE  RunPlaced(n)'
<1> USE DEF net, flow, history, Unmoved
<1>n. UNCHANGED <<cabled, lease, arp>> /\ installed \subseteq installed'
  BY NetStep
<1>0. rec \in [Migration -> Run] /\ rec[n] \in Run /\ RunPlaced(n)
  BY DEF TypeInv, TypeOK, WhereInv
<1>s. CASE rec'[n] = rec[n]
  BY <1>s, <1>n, <1>0 DEF RunPlaced
<1>p. ASSUME rec'[n].ip = rec[n].ip, rec'[n].serial = rec[n].serial, rec'[n].status # "READY"
      PROVE  RunPlaced(n)'
  BY <1>p, <1>n, <1>0 DEF RunPlaced
<1>z. CASE rec'[n] = Nothing
  <2>1. Nothing.ip = None /\ Nothing.serial = None /\ Nothing.status # "READY"
    BY DEF Nothing
  <2>2. QED
    BY <1>z, <2>1 DEF RunPlaced
<1>f. ASSUME Fail(n) PROVE RunPlaced(n)'
  <2>1. rec'[n] = [rec[n] EXCEPT !.status = Failed] /\ Failed \in Statuses
    BY <1>f, <1>0 DEF Fail, Put, Failed, Statuses
  <2>2. QED
    BY <2>1, <1>0, <1>p, WithStatus DEF Failed
<1>e. ASSUME End(n) PROVE RunPlaced(n)'
  <2>1. rec'[n] = Nothing
    BY <1>e, <1>0 DEF End
  <2>2. QED
    BY <2>1, <1>z
<1>1. CASE Announce(n)
  <2>1. rec'[n] = [Nothing EXCEPT !.status = "IN_PROGRESS"]
    BY <1>1, <1>0 DEF Announce, Put
  <2>2. rec'[n].ip = None /\ rec'[n].serial = None /\ rec'[n].status # "READY"
    BY <2>1 DEF Nothing
  <2>3. QED
    BY <2>2 DEF RunPlaced
<1>2. CASE ReadRows(n) \/ Lock(n)
  BY <1>2, <1>s, <1>f DEF ReadRows, Lock
<1>3. CASE ReplaceRows(n)
  <2>1. rec'[n] = Nothing \/ rec'[n] = rec[n]
    BY <1>3, <1>0 DEF ReplaceRows
  <2>2. QED
    BY <2>1, <1>s, <1>z
<1>4. CASE WriteFails(n) \/ Unlock(n) \/ RunFails(n) \/ Crash(n)
  BY <1>4, <1>e, <1>f DEF WriteFails, Unlock, RunFails, Crash
<1>5. CASE Resolve(n)
  <2>1. CASE Fail(n)
    BY <2>1, <1>f
  <2>2. CASE ~Fail(n)
    <3>1. PICK s \in Local(n), i \in Ip : Addresses(s) = {i} /\ rec' = [rec EXCEPT ![n].ip = i]
      BY <1>5, <2>2 DEF Resolve
    <3>2. s \in Switch /\ cabled[s] = n /\ lease[i] = s
      BY <3>1 DEF Local, Addresses, WhereInv
    <3>3. /\ rec'[n].ip = i /\ rec'[n].serial = rec[n].serial
          /\ rec'[n].status = rec[n].status
      BY <3>1, <1>0 DEF Run
    <3>4. rec[n].serial = None /\ rec[n].status # "READY"
      BY <1>5 DEF Resolve, Path, TypeInv
    <3>5. QED
      BY <1>n, <3>2, <3>3, <3>4 DEF RunPlaced
  <2>3. QED
    BY <2>1, <2>2
<1>6. CASE Connect(n)
  <2>1. CASE Fail(n)
    BY <2>1, <1>f
  <2>2. CASE ~Fail(n)
    <3>1. rec'[n] = [rec[n] EXCEPT !.serial = lease[rec[n].ip], !.status = "DISCOVERED"]
      BY <1>6, <2>2, <1>0 DEF Connect, Put
    <3>2. /\ rec'[n].ip = rec[n].ip /\ rec'[n].serial = lease[rec[n].ip]
          /\ rec'[n].status = "DISCOVERED" /\ rec[n].ip # None
      BY <3>1, <1>6, <1>0 DEF Run, Connect, TypeInv, Path
    <3>3. QED
      BY <3>2, <1>n, <1>0 DEF RunPlaced
  <2>3. QED
    BY <2>1, <2>2
<1>7. CASE CommitBaseline(n)
  <2>1. PICK status \in {"READY", Failed} : Put(n, [rec[n] EXCEPT !.status = status])
    BY <1>7 DEF CommitBaseline
  <2>2. status \in Statuses
    BY DEF Statuses, Failed
  <2>3. rec'[n].ip = rec[n].ip /\ rec'[n].serial = rec[n].serial
    BY <2>1, <2>2, <1>0, WithStatus DEF Put
  <2>4. rec[n].serial \in installed'
    BY <1>7 DEF CommitBaseline
  <2>5. QED
    BY <2>3, <2>4, <1>n, <1>0 DEF RunPlaced
<1>8. CASE DryRun(n)
  <2>1. rec'[n] = [rec[n] EXCEPT !.status = "DRY_RUN"] /\ "DRY_RUN" \in Statuses
    BY <1>8, <1>0 DEF DryRun, Put, Statuses
  <2>2. QED
    BY <2>1, <1>0, <1>p, WithStatus
<1>9. ASSUME NEW m \in Migration, m # n, Announce(m) \/ RunStep(m) \/ Crash(m)
      PROVE  rec'[n] = rec[n]
  BY <1>9, <1>0 DEF RunStep, Announce, ReadRows, ReplaceRows, WriteFails, Resolve, Connect, Lock,
         CommitBaseline, DryRun, Unlock, RunFails, Crash, Fail, End, Put
<1>10. CASE \/ \E m \in Guided : TakeAddress(m) \/ Identify(m) \/ Prestage(m)
            \/ \E i \in Ip : Refresh(i) \/ \E s \in Switch : Move(s, i)
            \/ UNCHANGED vars
  BY <1>10, <1>s DEF TakeAddress, Identify, Prestage, Workflow, Refresh, Move, vars
<1>11. QED
  BY <1>1, <1>2, <1>3, <1>4, <1>5, <1>6, <1>7, <1>8, <1>9, <1>10, <1>s DEF Next, RunStep

(* A row is one that was there, one that was read, or one a run has made.  *)
LEMMA RowPlacedStep ==
    ASSUME TypeInv, WhereInv, [Next]_vars, ~moved', NEW n \in Migration
    PROVE  RowPlaced(n, inventory[n])' /\ \A m \in Migration : RowPlaced(n, seen[m][n])'
<1> USE DEF net, flow, history, Unmoved
<1>n. UNCHANGED <<cabled, lease, arp>> /\ installed \subseteq installed'
  BY NetStep
<1>0. /\ seen \in [Migration -> [Migration -> Row]] /\ inventory \in [Migration -> Row]
      /\ rec \in [Migration -> Run]
      /\ RowPlaced(n, inventory[n]) /\ \A m \in Migration : RowPlaced(n, seen[m][n])
  BY DEF TypeInv, TypeOK, WhereInv
<1>k. ASSUME NEW row, RowPlaced(n, row)
      PROVE  row.status = "READY" => (ReadyAt(n, row.ip))'
  BY <1>k, <1>n DEF RowPlaced, ReadyAt
<1>z. NoRow.status # "READY"
  BY DEF NoRow
<1>i. ASSUME UNCHANGED inventory PROVE RowPlaced(n, inventory[n])'
  BY <1>i, <1>k, <1>0 DEF RowPlaced
<1>s. ASSUME NEW m \in Migration, UNCHANGED seen \/ seen' = [seen EXCEPT ![m] = NoRows]
      PROVE  \A q \in Migration : RowPlaced(n, seen[q][n])'
  <2>1. \A q \in Migration : seen'[q][n] \in {seen[q][n], NoRow}
    BY <1>s, <1>0 DEF NoRows
  <2>2. QED
    BY <2>1, <1>k, <1>0, <1>z DEF RowPlaced
<1>1. ASSUME NEW m \in Migration, ReadRows(m)
      PROVE  \A q \in Migration : RowPlaced(n, seen[q][n])'
  <2>1. \A q \in Migration : seen'[q][n] \in {seen[q][n], inventory[n], NoRow}
    BY <1>1, <1>0 DEF ReadRows, Others
  <2>2. QED
    BY <2>1, <1>k, <1>0, <1>z DEF RowPlaced
<1>2. ASSUME NEW m \in Migration, ReplaceRows(m) PROVE RowPlaced(n, inventory[n])'
  <2>1. CASE n # m
    <3>1. inventory'[n] = seen[m][n]
      BY <1>2, <2>1, <1>0 DEF ReplaceRows
    <3>2. QED
      BY <3>1, <1>k, <1>0 DEF RowPlaced
  <2>2. CASE n = m
    <3>1. inventory'[n] = RowOf(rec[n])
      BY <1>2, <2>2, <1>0 DEF ReplaceRows
    <3>2. CASE rec[n].status = "READY"
      <4>1. rec[n].serial \in installed /\ installed \subseteq Switch /\ RunPlaced(n)
        BY <3>2 DEF WhereInv, RunPlaced, TypeInv, TypeOK
      <4>2. rec[n].ip \in Ip /\ rec[n].serial = lease[rec[n].ip] /\ cabled[lease[rec[n].ip]] = n
        BY <4>1, <1>0, NoneAssumption DEF RunPlaced, Run
      <4>3. inventory'[n].ip = rec[n].ip
        BY <3>1, <3>2 DEF RowOf
      <4>4. QED
        BY <4>1, <4>2, <4>3, <1>n DEF RowPlaced, ReadyAt
    <3>3. CASE rec[n].status # "READY"
      <4>1. inventory'[n].status = rec[n].status
        BY <3>1 DEF RowOf
      <4>2. QED
        BY <3>3, <4>1 DEF RowPlaced
    <3>4. QED
      BY <3>2, <3>3
  <2>3. QED
    BY <2>1, <2>2
<1>3. ASSUME NEW m \in Migration, Announce(m) \/ RunStep(m) \/ Crash(m),
             ~ReadRows(m), ~ReplaceRows(m)
      PROVE  UNCHANGED inventory /\ (UNCHANGED seen \/ seen' = [seen EXCEPT ![m] = NoRows])
  BY <1>3 DEF RunStep, Announce, WriteFails, Resolve, Connect, Lock, CommitBaseline, DryRun,
         Unlock, RunFails, Crash, End
<1>4. ASSUME \/ \E m \in Guided : TakeAddress(m) \/ Identify(m) \/ Prestage(m)
             \/ \E i \in Ip : Refresh(i) \/ \E s \in Switch : Move(s, i)
             \/ UNCHANGED vars
      PROVE  UNCHANGED <<inventory, seen>>
  BY <1>4 DEF TakeAddress, Identify, Prestage, Workflow, Refresh, Move, vars
<1>5. ASSUME NEW m \in Migration, ReadRows(m) PROVE UNCHANGED inventory
  BY <1>5 DEF ReadRows
<1>6. ASSUME NEW m \in Migration, ReplaceRows(m) PROVE seen' = [seen EXCEPT ![m] = NoRows]
  BY <1>6 DEF ReplaceRows
<1>7. QED
  <2>1. CASE \E m \in Migration : Announce(m) \/ RunStep(m) \/ Crash(m)
    <3>1. PICK m \in Migration : Announce(m) \/ RunStep(m) \/ Crash(m)
      BY <2>1
    <3>2. CASE ReadRows(m)
      BY <3>2, <1>1, <1>5, <1>i
    <3>3. CASE ReplaceRows(m)
      BY <3>3, <1>2, <1>6, <1>s
    <3>4. QED
      BY <3>1, <3>2, <3>3, <1>3, <1>i, <1>s
  <2>2. CASE UNCHANGED <<inventory, seen>>
    BY <2>2, <1>i, <1>s
  <2>3. QED
    BY <2>1, <2>2, <1>4 DEF Next

(* An address is taken from a READY row, and the identity is that of the   *)
(* switch there.                                                           *)
LEMMA IdentityPlacedStep ==
    ASSUME TypeInv, WhereInv, [Next]_vars, ~moved', NEW n \in Migration
    PROVE  IdentityPlaced(n)'
<1> USE DEF net, flow, history, Unmoved
<1> DEFINE Identity == [ip : Ip \cup {None}, serial : Switch \cup {None}]
<1>n. UNCHANGED <<cabled, lease, arp>> /\ installed \subseteq installed'
  BY NetStep
<1>0. /\ bound \in [Migration -> Identity] /\ IdentityPlaced(n)
      /\ bound[n].ip \in Ip \cup {None} /\ RowPlaced(n, inventory[n])
  BY DEF TypeInv, TypeOK, WhereInv
<1>s. CASE bound'[n] = bound[n]
  BY <1>s, <1>n, <1>0 DEF IdentityPlaced, ReadyAt
<1>u. Unbound.ip = None /\ Unbound.serial = None
  BY DEF Unbound
<1>1. ASSUME NEW m \in Guided, TakeAddress(m), m = n PROVE IdentityPlaced(n)'
  <2>1. bound'[n] = [Unbound EXCEPT !.ip = inventory[n].ip] /\ Status(n) = "READY"
    BY <1>1, <1>0, GuidedAssumption DEF TakeAddress, Bind
  <2>2. bound'[n].ip = inventory[n].ip /\ bound'[n].serial = None
    BY <2>1 DEF Unbound
  <2>3. ReadyAt(n, inventory[n].ip)
    BY <2>1, <1>0 DEF RowPlaced, Status
  <2>4. QED
    BY <2>2, <2>3, <1>n DEF IdentityPlaced, ReadyAt
<1>2. ASSUME NEW m \in Guided, Identify(m), m = n PROVE IdentityPlaced(n)'
  <2>1. CASE bound'[n] = Unbound
    BY <2>1, <1>u DEF IdentityPlaced
  <2>2. CASE bound'[n] # Unbound
    <3>1. /\ bound'[n] = [bound[n] EXCEPT !.serial = lease[bound[n].ip]]
          /\ bound[n].ip # None
      BY <1>2, <2>2, <1>0, GuidedAssumption DEF Identify, Bind
    <3>2. bound'[n].ip = bound[n].ip /\ bound'[n].serial = lease[bound[n].ip]
      BY <3>1, <1>0
    <3>3. QED
      BY <3>1, <3>2, <1>0, <1>n DEF IdentityPlaced, ReadyAt
  <2>3. QED
    BY <2>1, <2>2
<1>3. ASSUME NEW m \in Guided, TakeAddress(m) \/ Identify(m), m # n PROVE bound'[n] = bound[n]
  BY <1>3, <1>0, GuidedAssumption DEF TakeAddress, Identify, Bind
<1>4. ASSUME ~\E m \in Guided : TakeAddress(m) \/ Identify(m) PROVE UNCHANGED bound
  BY <1>4 DEF Next, RunStep, Announce, ReadRows, ReplaceRows, WriteFails, Resolve, Connect, Lock,
         CommitBaseline, DryRun, Unlock, RunFails, Crash, Prestage, Refresh, Move, vars
<1>5. QED
  BY <1>1, <1>2, <1>3, <1>4, <1>s

LEMMA WhereInvariant == Spec => [](Pinned /\ (moved \/ WhereInv))
<1>1. ASSUME Init PROVE Pinned /\ WhereInv
  <2>1. \A n \in Migration : inventory[n] = NoRow /\ rec[n] = Nothing /\ bound[n] = Unbound
    BY <1>1 DEF Init, NoRows
  <2>2. \A m, n \in Migration : seen[m][n] = NoRow
    BY <1>1 DEF Init, NoRows
  <2>3. NoRow.status = "" /\ Unbound.ip = None /\ Unbound.serial = None
    BY DEF NoRow, Unbound
  <2>4. Nothing.ip = None /\ Nothing.serial = None /\ Nothing.status = ""
    BY DEF Nothing
  <2>5. QED
    BY <1>1, <2>1, <2>2, <2>3, <2>4
    DEF Init, Pinned, WhereInv, RunPlaced, RowPlaced, IdentityPlaced
<1>2. TypeInv /\ (moved \/ WhereInv) /\ [Next]_vars => (moved \/ WhereInv)'
  <2>1. ASSUME TypeInv, moved, [Next]_vars PROVE moved'
    BY <2>1 DEF Next, RunStep, Announce, ReadRows, ReplaceRows, WriteFails, Resolve, Connect,
           Lock, CommitBaseline, DryRun, Unlock, RunFails, Crash, TakeAddress, Identify,
           Prestage, Workflow, Refresh, Move, history, Unmoved, vars
  <2>2. ASSUME TypeInv, WhereInv, [Next]_vars, ~moved' PROVE WhereInv'
    <3>1. arp' = lease'
      BY <2>2, NetStep DEF WhereInv, net
    <3>2. QED
      BY <2>2, <3>1, RunPlacedStep, RowPlacedStep, IdentityPlacedStep DEF WhereInv
  <2>3. QED
    BY <2>1, <2>2
<1>3. QED
  BY <1>1, <1>2, TypeInvariant, PinnedStep, PTL DEF Spec

(* A pre-staged switch is the one whose identity was pinned; until an      *)
(* address moves it is the one behind the EX4300 of its migration, and it  *)
(* runs the baseline, whatever fails and whatever rows are lost.           *)
THEOREM StagedSafety == Spec => []StagedIsReplacement
<1>1. TypeInv /\ Pinned /\ (moved \/ WhereInv) => StagedIsReplacement
  <2> SUFFICES ASSUME TypeInv, Pinned, moved \/ WhereInv, NEW p \in staged
               PROVE  /\ bound[p[1]].serial = p[2]
                      /\ moved \/ (cabled[p[2]] = p[1] /\ p[2] \in installed)
    BY DEF StagedIsReplacement
  <2>1. p[1] \in Migration /\ p[2] \in Switch /\ bound[p[1]].serial = p[2]
    BY DEF Pinned, TypeInv, TypeOK
  <2>2. QED
    BY <2>1, NoneAssumption DEF WhereInv, IdentityPlaced, ReadyAt
<1>2. QED
  BY <1>1, TypeInvariant, WhereInvariant, PTL

-----------------------------------------------------------------------------
(* Every run comes to its end.  StepsLeft counts what is left of it at     *)
(* most: three times a row is written, each time in two steps, and a write *)
(* that fails is followed by the one that says so.                         *)

WriteLeft(status) == CASE status = "IN_PROGRESS" -> 12
                       [] status = "DISCOVERED"  -> 8
                       [] status = "FAILED"      -> 1
                       [] OTHER                  -> 4

StepsLeft(m) == CASE pc[m] = "idle"    -> 0
                  [] pc[m] = "replace" -> WriteLeft(rec[m].status)
                  [] pc[m] = "read"    -> WriteLeft(rec[m].status) + 1
                  [] pc[m] = "unlock"  -> 3
                  [] pc[m] = "commit"  -> 6
                  [] pc[m] = "lock"    -> 7
                  [] pc[m] = "connect" -> 10
                  [] pc[m] = "resolve" -> 11

LEMMA WriteFacts ==
    /\ \A status : WriteLeft(status) \in {1, 4, 8, 12}
    /\ WriteLeft("IN_PROGRESS") = 12 /\ WriteLeft("DISCOVERED") = 8
    /\ WriteLeft("FAILED") = 1 /\ WriteLeft("READY") = 4 /\ WriteLeft("DRY_RUN") = 4
    /\ \A status : WriteLeft(status) = 1 => status = "FAILED"
BY DEF WriteLeft

LEMMA StepsFacts ==
    ASSUME TypeOK, NEW m \in Migration
    PROVE  /\ StepsLeft(m) \in 0 .. 13
           /\ StepsLeft(m) = 0 <=> pc[m] = "idle"
<1>1. pc[m] \in Points
  BY DEF TypeOK
<1>2. WriteLeft(rec[m].status) \in {1, 4, 8, 12}
  BY WriteFacts
<1>3. pc[m] # "idle" => StepsLeft(m) \in 1 .. 13
  BY <1>1, <1>2 DEF Points, StepsLeft
<1>4. pc[m] = "idle" => StepsLeft(m) = 0
  BY DEF StepsLeft
<1>5. QED
  BY <1>3, <1>4

LEMMA StepShortens ==
    ASSUME TypeOK, NEW m \in Migration, RunStep(m) \/ Crash(m)
    PROVE  StepsLeft(m)' < StepsLeft(m)
<1>0. rec[m] \in Run /\ pc[m] \in Points /\ Failed = "FAILED"
      /\ pc \in [Migration -> Points] /\ rec \in [Migration -> Run]
  BY DEF TypeOK, Failed
<1>1. ASSUME End(m), pc[m] # "idle" PROVE StepsLeft(m)' < StepsLeft(m)
  <2>1. pc'[m] = "idle"
    BY <1>0, <1>1 DEF End, Goto
  <2>2. StepsLeft(m)' = 0
    BY <2>1 DEF StepsLeft
  <2>3. QED
    BY <1>1, <2>2, StepsFacts
<1>2. ASSUME NEW row \in Run, Put(m, row)
      PROVE  StepsLeft(m)' = WriteLeft(row.status) + 1
  <2>1. pc'[m] = "read" /\ rec'[m] = row
    BY <1>0, <1>2 DEF Put, Goto
  <2>2. QED
    BY <2>1 DEF StepsLeft
<1>3. ASSUME Fail(m), StepsLeft(m) >= 3 PROVE StepsLeft(m)' < StepsLeft(m)
  <2> DEFINE row == [rec[m] EXCEPT !.status = Failed]
  <2>0. Failed \in Statuses
    BY <1>0 DEF Statuses
  <2>1. row \in Run /\ row.status = "FAILED"
    BY <1>0, <2>0, WithStatus
  <2>2. Put(m, row)
    BY <1>3 DEF Fail
  <2> HIDE DEF row
  <2>3. StepsLeft(m)' = WriteLeft("FAILED") + 1
    BY <1>2, <2>1, <2>2
  <2>4. StepsLeft(m)' = 2
    BY <2>3, WriteFacts
  <2>5. StepsLeft(m) \in Int
    BY StepsFacts
  <2>6. QED
    BY <1>3, <2>4, <2>5
<1>4. CASE ReadRows(m)
  <2>1. pc[m] = "read" /\ pc'[m] = "replace" /\ UNCHANGED rec
    BY <1>0, <1>4 DEF ReadRows, Goto
  <2>2. QED
    BY <2>1, WriteFacts DEF StepsLeft
<1>5. CASE ReplaceRows(m)
  <2>1. pc[m] = "replace" /\ pc'[m] = AfterWrite(rec[m].status)
    BY <1>0, <1>5 DEF ReplaceRows, Goto
  <2>2. QED
    BY <1>0, <2>1 DEF AfterWrite, WriteLeft, StepsLeft
<1>6. CASE WriteFails(m)
  <2>1. CASE rec[m].status = Failed
    BY <1>1, <1>6, <2>1 DEF WriteFails
  <2>2. CASE rec[m].status # Failed
    <3>1. pc[m] \in {"read", "replace"} /\ Fail(m)
      BY <1>6, <2>2 DEF WriteFails
    <3>2. WriteLeft(rec[m].status) \in {4, 8, 12}
      BY <1>0, <2>2, WriteFacts
    <3>3. StepsLeft(m) >= 3
      BY <3>1, <3>2 DEF StepsLeft
    <3>4. QED
      BY <1>3, <3>1, <3>3
  <2>3. QED
    BY <2>1, <2>2
<1>7. ASSUME pc[m] \in {"resolve", "connect", "lock", "commit", "unlock"}, Fail(m)
      PROVE  StepsLeft(m)' < StepsLeft(m)
  <2>1. StepsLeft(m) >= 3
    BY <1>7 DEF StepsLeft
  <2>2. QED
    BY <1>3, <1>7, <2>1
<1>8. CASE Resolve(m)
  <2>1. pc[m] = "resolve" /\ (Fail(m) \/ pc'[m] = "connect")
    BY <1>0, <1>8 DEF Resolve, Goto
  <2>2. pc'[m] = "connect" => StepsLeft(m)' < StepsLeft(m)
    BY <2>1 DEF StepsLeft
  <2>3. QED
    BY <1>7, <2>1, <2>2
<1>9. CASE Connect(m)
  <2>1. CASE Fail(m)
    BY <1>7, <1>9, <2>1 DEF Connect
  <2>2. CASE ~Fail(m)
    <3> DEFINE row == [rec[m] EXCEPT !.serial = lease[rec[m].ip], !.status = "DISCOVERED"]
    <3>1. pc[m] = "connect" /\ Put(m, row)
      BY <1>9, <2>2 DEF Connect
    <3>2. pc'[m] = "read" /\ rec'[m].status = "DISCOVERED"
      BY <1>0, <3>1 DEF Put, Goto, Run
    <3>3. StepsLeft(m)' = 9
      BY <3>2, WriteFacts DEF StepsLeft
    <3>4. StepsLeft(m) = 10
      BY <3>1 DEF StepsLeft
    <3>5. QED
      BY <3>3, <3>4
  <2>3. QED
    BY <2>1, <2>2
<1>10. CASE Lock(m)
  <2>1. pc[m] = "lock" /\ (Fail(m) \/ pc'[m] = "commit")
    BY <1>0, <1>10 DEF Lock, Goto
  <2>2. pc'[m] = "commit" => StepsLeft(m)' < StepsLeft(m)
    BY <2>1 DEF StepsLeft
  <2>3. QED
    BY <1>7, <2>1, <2>2
<1>11. CASE CommitBaseline(m) \/ DryRun(m)
  <2>1. PICK status \in {"READY", "FAILED", "DRY_RUN"} :
          pc[m] = "commit" /\ Put(m, [rec[m] EXCEPT !.status = status])
    BY <1>0, <1>11 DEF CommitBaseline, DryRun
  <2> DEFINE row == [rec[m] EXCEPT !.status = status]
  <2>2. status \in Statuses
    BY DEF Statuses
  <2>3. row \in Run /\ row.status = status /\ Put(m, row)
    BY <1>0, <2>1, <2>2, WithStatus
  <2> HIDE DEF row
  <2>4. StepsLeft(m)' = WriteLeft(status) + 1
    BY <1>2, <2>3
  <2>5. StepsLeft(m)' \in {2, 5}
    BY <2>4, WriteFacts
  <2>6. StepsLeft(m) = 6
    BY <2>1 DEF StepsLeft
  <2>7. QED
    BY <2>5, <2>6
<1>12. CASE Unlock(m) \/ Crash(m)
  BY <1>1, <1>12 DEF Unlock, Crash
<1>13. CASE RunFails(m)
  BY <1>7, <1>13 DEF RunFails
<1>14. QED
  BY <1>4, <1>5, <1>6, <1>8, <1>9, <1>10, <1>11, <1>12, <1>13 DEF RunStep

(* A shell moves the run of its own migration only.                        *)
LEMMA OtherRuns ==
    ASSUME TypeOK, NEW m \in Migration, NEW n \in Migration \ {m},
           Announce(n) \/ RunStep(n) \/ Crash(n)
    PROVE  UNCHANGED <<pc[m], rec[m]>>
BY DEF TypeOK, Announce, RunStep, Crash, ReadRows, ReplaceRows, WriteFails, Resolve,
       Connect, Lock, CommitBaseline, DryRun, Unlock, RunFails, Unmoved, Put, Fail,
       End, Goto

(* A run of any migration takes at most 13 steps, its writes that fail and *)
(* the writes of their failure included, and no other shell, no step of    *)
(* the workflow and nothing in the network can move it.                    *)
THEOREM Termination ==
    ASSUME NEW m \in Migration
    PROVE  Spec =>
             /\ [](StepsLeft(m) \in 0 .. 13 /\ (StepsLeft(m) = 0 <=> pc[m] = "idle"))
             /\ [][/\ RunStep(m) => StepsLeft(m)' < StepsLeft(m)
                   /\ pc[m] # "idle" => \/ StepsLeft(m)' < StepsLeft(m)
                                        \/ UNCHANGED <<pc[m], rec[m]>>]_vars
<1>1. TypeOK => StepsLeft(m) \in 0 .. 13 /\ (StepsLeft(m) = 0 <=> pc[m] = "idle")
  BY StepsFacts
<1>2. TypeOK /\ [Next]_vars =>
        [/\ RunStep(m) => StepsLeft(m)' < StepsLeft(m)
         /\ pc[m] # "idle" => \/ StepsLeft(m)' < StepsLeft(m)
                              \/ UNCHANGED <<pc[m], rec[m]>>]_vars
  <2> SUFFICES ASSUME TypeOK, Next, pc[m] # "idle", ~RunStep(m), ~Crash(m)
               PROVE  UNCHANGED <<pc[m], rec[m]>>
    BY StepShortens
  <2>1. ASSUME NEW n \in Migration, Announce(n) \/ RunStep(n) \/ Crash(n)
        PROVE  UNCHANGED <<pc[m], rec[m]>>
    <3>1. n # m
      BY <2>1 DEF Announce
    <3>2. QED
      BY <2>1, <3>1, OtherRuns
  <2>2. QED
    BY <2>1 DEF Next, TakeAddress, Identify, Prestage, Workflow, Refresh, Move
<1>3. QED
  BY <1>1, <1>2, TypeCorrect, PTL DEF Spec
=============================================================================
