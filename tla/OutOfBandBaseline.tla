------------------------- MODULE OutOfBandBaseline -------------------------
(***************************************************************************)
(* From a switch out of the box to a bound identity: ex4400_baseline finds *)
(* the replacement EX4400 behind each EX4300, installs the static baseline *)
(* and keeps one inventory row per migration; the guided workflow takes    *)
(* the replacement's address from that row, pins the identity it finds     *)
(* there and pre-stages only what still has it.                            *)
(*                                                                         *)
(* Several migrations share one inventory file, a gateway and its ARP      *)
(* table.  One shell works on a migration at a time; shells of different   *)
(* migrations overlap.  Runs may be repeated for ever.                     *)
(***************************************************************************)
CONSTANTS
    Migration,   \* EX4300 host names, the keys of the inventory
    Guided,      \* the migrations taken on to pre-stage
    Switch,      \* replacement switches
    Ip,          \* addresses of the management network
    None,        \* no switch, no address
    Faults       \* what may go wrong

Fault == {"fails",   \* a step of a run raises or is interrupted; nothing was done
          "lost",    \* the commit raises although the switch did its work
          "disk",    \* writing the inventory raises
          "crash",   \* the shell dies
          "moves"}   \* a switch comes back with another management address

ASSUME NoneAssumption == None \notin Switch \cup Ip
ASSUME GuidedAssumption == Guided \subseteq Migration
ASSUME FaultsAssumption == Faults \subseteq Fault

VARIABLES
    cabled,     \* the EX4300 each switch is plugged into
    lease,      \* who answers at an address
    arp,        \* the gateway's ARP table, which may lag behind
    installed,  \* the switches that run the baseline
    pc,         \* where each migration's run is; "idle" between runs
    rec,        \* what a run knows, and the status it writes next
    seen,       \* the rows of other migrations it has read
    inventory,  \* the CSV file
    bound,      \* the identity pinned for each migration
    staged,     \* pre-staged switches: <<migration, switch>>
    fresh,      \* history: the last run whose announcement was written has committed
    died,       \* history: the last run could not write its last row
    raced,      \* history: a row was written over what the writer had not read
    moved       \* history: some switch has changed its address

net == <<cabled, lease, arp>>
flow == <<bound, staged>>
history == <<fresh, died, raced, moved>>
vars == <<net, installed, pc, rec, seen, inventory, flow, history>>

Statuses == {"", "IN_PROGRESS", "DISCOVERED", "DRY_RUN", "READY", "FAILED"}
Nothing == [status |-> "", ip |-> None, serial |-> None]

(* Of a row the address is read, and of a READY row only.                  *)
NoRow == [status |-> "", ip |-> None]
NoRows == [m \in Migration |-> NoRow]
RowOf(r) == [status |-> r.status, ip |-> IF r.status = "READY" THEN r.ip ELSE None]
Status(m) == inventory[m].status
Others(m) == [inventory EXCEPT ![m] = NoRow]

Unbound == [ip |-> None, serial |-> None]

-----------------------------------------------------------------------------
Init == /\ cabled \in [Switch -> Migration]
        /\ lease \in {l \in [Ip -> Switch] : \A i, j \in Ip : l[i] = l[j] => i = j}
        /\ arp = lease
        /\ installed = {}
        /\ pc = [m \in Migration |-> "idle"]
        /\ rec = [m \in Migration |-> Nothing]
        /\ seen = [m \in Migration |-> NoRows]
        /\ inventory = NoRows
        /\ bound = [m \in Migration |-> Unbound] /\ staged = {}
        /\ fresh = [m \in Migration |-> FALSE] /\ died = [m \in Migration |-> FALSE]
        /\ raced = FALSE /\ moved = FALSE

Goto(m, point) == pc' = [pc EXCEPT ![m] = point]

(* The lock is held from lock() to unlock(), the write of READY included.  *)
(* Nobody but its owner has a candidate here, and what the owner has not   *)
(* committed is gone when the lock is: the candidate needs no variable.    *)
Locks(m) == \/ pc[m] \in {"commit", "unlock"}
            \/ pc[m] \in {"read", "replace"} /\ rec[m].status \in {"READY", "DRY_RUN"}

(* _write_status: the row goes to the file in two steps.                   *)
Put(m, row) == /\ rec' = [rec EXCEPT ![m] = row]
               /\ Goto(m, "read")

FailedAsError == "ERROR"       \* mutant: not a status of the inventory
Failed == "FAILED"

FailSilently(m) == /\ Goto(m, "idle")       \* mutant: no row is written
                   /\ rec' = [rec EXCEPT ![m] = Nothing]
(* An exception or ^C: inner finally, then the handler writes FAILED.      *)
Fail(m) == Put(m, [rec[m] EXCEPT !.status = Failed])

End(m) == /\ Goto(m, "idle")
          /\ rec' = [rec EXCEPT ![m] = Nothing]
          /\ seen' = [seen EXCEPT ![m] = NoRows]

AnnounceUnwritten(m) ==        \* mutant: the row is left as it was
    /\ pc[m] = "idle" /\ ~raced
    /\ rec' = [rec EXCEPT ![m] = [Nothing EXCEPT !.status = "IN_PROGRESS"]]
    /\ Goto(m, "resolve")
    /\ died' = [died EXCEPT ![m] = FALSE]
    /\ UNCHANGED <<net, installed, seen, inventory, flow, fresh, raced, moved>>

(* The host name of the EX4300 is known; nothing was written before.       *)
(* Bound: no run begins after a row was lost.                              *)
Announce(m) == /\ pc[m] = "idle" /\ ~raced
               /\ Put(m, [Nothing EXCEPT !.status = "IN_PROGRESS"])
               /\ died' = [died EXCEPT ![m] = FALSE]
               /\ UNCHANGED <<net, installed, seen, inventory, flow, fresh, raced, moved>>

-----------------------------------------------------------------------------
(* upsert_inventory: every row is read, all of them are written            *)

ReadRows(m) == /\ pc[m] = "read"
               /\ seen' = [seen EXCEPT ![m] = Others(m)]
               /\ Goto(m, "replace")
               /\ UNCHANGED <<net, installed, rec, inventory, flow, history>>

AfterWrite(status) == CASE status = "IN_PROGRESS" -> "resolve"
                        [] status = "DISCOVERED"  -> "lock"
                        [] status = Failed        -> "idle"
                        [] OTHER                  -> "unlock"

ReplaceRows(m) ==
    /\ pc[m] = "replace"
    /\ inventory' = [seen[m] EXCEPT ![m] = RowOf(rec[m])]
    /\ seen' = [seen EXCEPT ![m] = NoRows]
    /\ raced' = (raced \/ seen[m] # Others(m))
    /\ fresh' = [fresh EXCEPT ![m] = @ /\ rec[m].status # "IN_PROGRESS"]
    /\ Goto(m, AfterWrite(rec[m].status))
    /\ rec' = [rec EXCEPT ![m] = IF @.status = Failed THEN Nothing ELSE @]
    /\ UNCHANGED <<net, installed, flow, died, moved>>

(* Raised inside the handler, it is swallowed; anywhere else it is handled.*)
WriteFails(m) ==
    /\ "disk" \in Faults
    /\ pc[m] \in {"read", "replace"}
    /\ IF rec[m].status = Failed
       THEN End(m) /\ died' = [died EXCEPT ![m] = TRUE]
       ELSE Fail(m) /\ seen' = [seen EXCEPT ![m] = NoRows] /\ UNCHANGED died
    /\ UNCHANGED <<net, installed, inventory, flow, fresh, raced, moved>>

-----------------------------------------------------------------------------
(* Discovery                                                               *)

(* select_local_mac: one MAC learned on a physical interface other than    *)
(* the uplinks, or the one on --port.                                      *)
LocalAnyPort(m) == Switch      \* mutant: what the uplinks learned counts too
Local(m) == {s \in Switch : cabled[s] = m}

(* find_arp_ip: the MAC has exactly one entry.                             *)
Addresses(s) == {i \in Ip : arp[i] = s}

Unmoved == <<net, installed, seen, inventory, flow, history>>

Resolve(m) ==
    /\ pc[m] = "resolve"
    /\ UNCHANGED Unmoved
    /\ \/ /\ \E s \in Local(m), i \in Ip :
               /\ Addresses(s) = {i}
               /\ rec' = [rec EXCEPT ![m].ip = i]
          /\ Goto(m, "connect")
       \/ /\ \/ \A s \in Switch : Local(m) # {s}
             \/ \E s \in Local(m) : \A i \in Ip : Addresses(s) # {i}
          /\ Fail(m)

(* Whoever answers at the address is the replacement, if it is a model     *)
(* that may be one and has a serial number.                                *)
Connect(m) ==
    /\ pc[m] = "connect"
    /\ UNCHANGED Unmoved
    /\ IF lease[rec[m].ip] = None THEN Fail(m)
       ELSE Put(m, [rec[m] EXCEPT !.serial = lease[rec[m].ip],
                                  !.status = "DISCOVERED"])

-----------------------------------------------------------------------------
(* Installation                                                            *)

Free(s) == \A m \in Migration : Locks(m) => rec[m].serial # s

(* A locked configuration is refused, by Junos.  Then load(path=template,  *)
(* merge=True) and commit_check(), which nobody else sees.                 *)
Lock(m) == /\ pc[m] = "lock"
           /\ UNCHANGED Unmoved
           /\ IF Free(rec[m].serial)
              THEN Goto(m, "commit") /\ UNCHANGED rec
              ELSE Fail(m)

(* A commit for good; READY is written only after its answer.              *)
CommitBaseline(m) ==
    /\ pc[m] = "commit"
    /\ installed' = installed \cup {rec[m].serial}
    /\ fresh' = [fresh EXCEPT ![m] = TRUE]
    /\ \E status \in {"READY", Failed} :
         /\ status = Failed => "lost" \in Faults
         /\ Put(m, [rec[m] EXCEPT !.status = status])
    /\ UNCHANGED <<net, seen, inventory, flow, died, raced, moved>>

(* --dry-run: commit check, then rollback()                                *)
DryRun(m) == /\ pc[m] = "commit"
             /\ Put(m, [rec[m] EXCEPT !.status = "DRY_RUN"])
             /\ UNCHANGED Unmoved

Unlock(m) == /\ pc[m] = "unlock"
             /\ End(m)
             /\ UNCHANGED <<net, installed, inventory, flow, history>>

RunFails(m) == /\ "fails" \in Faults
               /\ pc[m] \in {"resolve", "connect", "lock", "commit", "unlock"}
               /\ Fail(m)
               /\ UNCHANGED Unmoved

Crash(m) == /\ "crash" \in Faults
            /\ pc[m] # "idle"
            /\ End(m)
            /\ died' = [died EXCEPT ![m] = TRUE]
            /\ UNCHANGED <<net, installed, inventory, flow, fresh, raced, moved>>

-----------------------------------------------------------------------------
(* The guided workflow                                                     *)

Workflow == UNCHANGED <<net, installed, pc, rec, seen, inventory, history>>
Bind(m, identity) == bound' = [bound EXCEPT ![m] = identity]

(* _prestage_with_validated_oob takes the address of a READY row; a row    *)
(* that is anything else stops it.  Of an address the operator gives it    *)
(* instead nothing is known here, and it is left out.                      *)
TakeAddress(m) ==
    /\ bound[m] = Unbound
    /\ Status(m) = "READY"
    /\ Bind(m, [Unbound EXCEPT !.ip = inventory[m].ip])
    /\ UNCHANGED staged
    /\ Workflow

(* identify: pinned is whoever answers by now; or the operator declines.   *)
Identify(m) == /\ bound[m].ip # None /\ bound[m].serial = None
               /\ \/ Bind(m, Unbound)
                  \/ /\ lease[bound[m].ip] # None
                     /\ Bind(m, [bound[m] EXCEPT !.serial = lease[bound[m].ip]])
               /\ UNCHANGED staged
               /\ Workflow

(* run: it is written to whoever answers at the pinned address, once host  *)
(* key and chassis have been compared with the pinned ones.                *)
Answering(m) == lease[bound[m].ip]
Prestage(m) == /\ bound[m].serial # None
               /\ Answering(m) = bound[m].serial
               /\ staged' = staged \cup {<<m, Answering(m)>>}
               /\ UNCHANGED bound
               /\ Workflow

-----------------------------------------------------------------------------
(* The network                                                             *)

Refresh(i) == /\ arp' = [arp EXCEPT ![i] = lease[i]]
              /\ UNCHANGED <<cabled, lease, installed, pc, rec, seen, inventory,
                             flow, history>>

(* A switch comes back at an address that was another's or nobody's.       *)
(* Bound: once, enough for a switch, a row and the ARP table to disagree.  *)
Move(s, i) == /\ "moves" \in Faults /\ ~moved
              /\ lease[i] # s
              /\ lease' = [j \in Ip |-> IF j = i THEN s
                                        ELSE IF lease[j] = s THEN None ELSE lease[j]]
              /\ moved' = TRUE
              /\ UNCHANGED <<cabled, arp, installed, pc, rec, seen, inventory, flow,
                             fresh, died, raced>>

-----------------------------------------------------------------------------
RunStep(m) == \/ ReadRows(m) \/ ReplaceRows(m) \/ WriteFails(m)
              \/ Resolve(m) \/ Connect(m) \/ Lock(m)
              \/ CommitBaseline(m) \/ DryRun(m) \/ Unlock(m) \/ RunFails(m)

Next == \/ \E m \in Migration : Announce(m) \/ RunStep(m) \/ Crash(m)
        \/ \E m \in Guided : TakeAddress(m) \/ Identify(m) \/ Prestage(m)
        \/ \E i \in Ip : Refresh(i) \/ \E s \in Switch : Move(s, i)

Spec == Init /\ [][Next]_vars

-----------------------------------------------------------------------------
(* Properties                                                              *)

Points == {"idle", "read", "replace", "resolve", "connect", "lock", "commit", "unlock"}
Run == [status : Statuses, ip : Ip \cup {None}, serial : Switch \cup {None}]
Row == [status : Statuses, ip : Ip \cup {None}]

TypeOK == /\ cabled \in [Switch -> Migration]
          /\ lease \in [Ip -> Switch \cup {None}] /\ arp \in [Ip -> Switch \cup {None}]
          /\ installed \subseteq Switch
          /\ pc \in [Migration -> Points]
          /\ rec \in [Migration -> Run]
          /\ inventory \in [Migration -> Row]
          /\ seen \in [Migration -> [Migration -> Row]]
          /\ bound \in [Migration -> [ip : Ip \cup {None},
                                      serial : Switch \cup {None}]]
          /\ staged \subseteq Migration \X Switch
          /\ fresh \in [Migration -> BOOLEAN] /\ died \in [Migration -> BOOLEAN]
          /\ raced \in BOOLEAN /\ moved \in BOOLEAN

(* What comes between the announcement of a run and its commit             *)
BeforeCommit(m) == \/ pc[m] \in {"resolve", "connect", "lock", "commit"}
                   \/ pc[m] \in {"read", "replace"} /\ rec[m].status = "DISCOVERED"

(* docs/ex4400-baseline.md: a run marks its row "as soon as the EX4300     *)
(* hostname is known", which "prevents an older READY row from remaining   *)
(* authoritative after a failed re-run", however that run ends.  (A run    *)
(* that cannot even write this stops there, and leaves the row alone.)     *)
OlderReadyIsRetired ==
    \A m \in Migration : Status(m) = "READY" => fresh[m] /\ ~BeforeCommit(m)

(* It does as long as no other migration's shell writes the rows it read   *)
(* before.                                                                 *)
ReadyIsCurrent == raced \/ OlderReadyIsRetired

(* An EX4400 is pre-staged for a migration only if it is the one whose     *)
(* identity was pinned, wherever its address went in the meantime.  While  *)
(* no switch changes its address, the pinned one is the switch behind the  *)
(* EX4300 of that migration, and it runs the baseline: the inventory never *)
(* sends a migration to a switch of another one, or to a bare one.         *)
StagedIsReplacement ==
    \A p \in staged :
       /\ bound[p[1]].serial = p[2]
       /\ moved \/ (cabled[p[2]] = p[1] /\ p[2] \in installed)

(* A run leaves a row that tells how it ended: unless the shell died, or   *)
(* the file could not be written even then, no row stays "in progress"     *)
(* behind the operator's back.                                             *)
Reported(m) == Status(m) \notin {"IN_PROGRESS", "DISCOVERED"}
RunIsReported ==
    \A m \in Migration : pc[m] = "idle" => Reported(m) \/ died[m] \/ raced
=============================================================================
