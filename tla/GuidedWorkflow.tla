--------------------------- MODULE GuidedWorkflow ---------------------------
(***************************************************************************)
(* The guided operator workflow, "migrate <migration-id>": the status it   *)
(* computes from the records on disk, the next action it offers, and what  *)
(* the command behind each action does.  One operator runs one command at  *)
(* a time; only discovery, which may repeat itself for hours, runs beside. *)
(*                                                                         *)
(* A status looks for a plan that covers every collection; a command takes *)
(* the plan approved last, and the package, render, attachment and         *)
(* identity written last.  The device transactions behind "run",           *)
(* "qfx-stage" and "activate-endpoints" are atomic here: QfxTransaction    *)
(* and EndpointActivation look inside.                                     *)
(***************************************************************************)
EXTENDS MigrationIntent

CONSTANT Faults    \* what may go wrong

Fault == {"fails",  \* a command returns an error half way
          "crash"}  \* a command dies between a change and its record

ASSUME FaultsAssumption == Faults \subseteq Fault

VARIABLES
    packages,    \* plans with a pre-stage package, oldest first
    renders,     \* plans with a rendered configuration, oldest first
    identity,    \* host name in the bound identity
    ex4400,      \* host name and VLANs of the replacement switch
    probes,      \* probe records: plan and whether a client woke up
    attachments, \* plans with a QFX attachment, oldest first
    records,     \* the other records: plans that have one of the kind
    endpoints,   \* committed endpoints of a plan: <<plan, port>>
    exceptions,  \* accepted endpoint exceptions: <<plan, port>>
    at           \* step of the command at work

staging == <<packages, renders, identity, ex4400>>
moving == <<probes, attachments, records, endpoints, exceptions>>
vars == <<intent, staging, moving, at>>

Kind == {"pre-stage",   \* transaction of the EX4400, committed and confirmed
         "ack",         \* acknowledged physical cutover
         "torn-ack",    \* its directory without a whole record
         "qfx",         \* QFX transaction, committed and confirmed
         "comparison", "report", "cleanup"}
Host == {"bootstrap", "planned"}

Has(kind, plan) == plan \in records[kind]
Write(kind, plan) == records' = [records EXCEPT ![kind] = @ \cup {plan}]

AppendNew(seq, plan) == IF plan \in ToSet(seq) THEN seq ELSE Append(seq, plan)

-----------------------------------------------------------------------------
(* workflow_status                                                         *)

(* The plan of an accepted analysis of every collection, eligible or not   *)
Covered == Ids # {} /\ Accepted(Ids) /\ Ids \in ToSet(plans)
StatusPlan == Ids

Packaged == Covered /\ StatusPlan \in ToSet(packages)
Rendered == Covered /\ StatusPlan \in ToSet(renders)
Identified == Covered /\ identity # "none"
RecordedByAnyPlan == Covered /\ records["pre-stage"] # {}     \* mutant: any plan's
Recorded == Covered /\ Has("pre-stage", StatusPlan)
Prestaged == Packaged /\ Rendered /\ Identified /\ Recorded

Probe == IF Silent(StatusPlan) = {} THEN "NOT_REQUIRED"
         ELSE IF <<StatusPlan, TRUE>> \in probes THEN "HOLD_NEW_EVIDENCE"
         ELSE IF <<StatusPlan, FALSE>> \in probes THEN "PASS"
         ELSE "REQUIRED"
ReadyToMove == Prestaged /\ Probe \in {"NOT_REQUIRED", "PASS"}

Attached == ReadyToMove /\ StatusPlan \in ToSet(attachments)
CablesMoved == Attached \/ (ReadyToMove /\ Has("ack", StatusPlan))
Staged == Attached /\ Has("qfx", StatusPlan)

Open(plan) == {p \in Correlate(plan) : <<plan, p>> \notin endpoints}
Unresolved(plan) == {p \in Open(plan) : <<plan, p>> \notin exceptions}

NextAction ==
    IF Ids = {} THEN "discover"
    ELSE IF ~Accepted(Ids) THEN "analyze"
    ELSE IF ~Covered THEN "build"
    ELSE IF ~Prestaged THEN "prestage"
    ELSE IF Probe = "HOLD_NEW_EVIDENCE" THEN "analyze"
    ELSE IF Probe = "REQUIRED" THEN "cutover-ready"
    ELSE IF ~CablesMoved THEN "cutover"
    ELSE IF ~Staged \/ Unresolved(Newest) # {} THEN "activate"
    ELSE IF ~Has("comparison", Newest) \/ ~Has("report", Newest) THEN "validate"
    ELSE IF ~Has("cleanup", StatusPlan) THEN "finalize"
    ELSE "complete"

-----------------------------------------------------------------------------
Init == /\ IntentInit
        /\ packages = <<>> /\ renders = <<>> /\ identity = "none"
        /\ ex4400 = [host |-> "bootstrap", vlans |-> {}]
        /\ probes = {} /\ attachments = <<>> /\ endpoints = {} /\ exceptions = {}
        /\ records = [kind \in Kind |-> {}]
        /\ at = "idle"

(* The guide runs what it has just offered.                                *)
Offered(action) == at = "idle" /\ NextAction = action

(* Discovery repeats itself while other commands run.                      *)
Discover == /\ \E o \in Observation : Collect(o)
            /\ UNCHANGED <<reviews, plans, staging, moving, at>>

Analyze == /\ Offered("analyze")
           /\ AnalyzeAll
           /\ UNCHANGED <<staging, moving, at>>

BuildUnoffered(e) == /\ at = "idle"      \* mutant: as an explicit phase, at any time
                     /\ BuildPlan(e)
                     /\ UNCHANGED <<staging, moving, at>>
(* The guide goes straight on from an approved plan to pre-staging.        *)
Build(e) == /\ Offered("build")
            /\ BuildPlan(e)
            /\ at' = IF Covered' THEN "package" ELSE "idle"
            /\ UNCHANGED <<staging, moving>>

-----------------------------------------------------------------------------
(* prestage: prepare, render, identify and run, each if the status of that *)
(* moment does not call it complete                                        *)

Prestage == /\ Offered("prestage")
            /\ at' = "package"
            /\ UNCHANGED <<intent, staging, moving>>

Prepare == /\ at = "package"
           /\ at' = "render"
           /\ packages' = IF Packaged THEN packages ELSE AppendNew(packages, Newest)
           /\ UNCHANGED <<intent, renders, identity, ex4400, moving>>

Render == /\ at = "render"
          /\ at' = "identify"
          /\ renders' = IF Rendered THEN renders ELSE AppendNew(renders, Last(packages))
          /\ UNCHANGED <<intent, packages, identity, ex4400, moving>>

Identify == /\ at = "identify"
            /\ at' = IF Identified /\ Recorded THEN "idle" ELSE "run"
            /\ identity' = IF Identified THEN identity ELSE ex4400.host
            /\ UNCHANGED <<intent, packages, renders, ex4400, moving>>

(* The bound identity names the switch as it was before its first run; a   *)
(* run with nothing left to change succeeds but leaves no transaction.     *)
BoundHostIsPlanned == identity = "planned"     \* mutant: the name after the run
BoundHostMatches == identity = ex4400.host
ConfiguredAsOld(plan) ==       \* mutant: the name of the old switch is rendered
    [host |-> "old", vlans |-> ex4400.vlans \cup Current(plan).vlans]
Configured(plan) == [host |-> "planned", vlans |-> ex4400.vlans \cup Current(plan).vlans]

RunRecorded == /\ at = "run" /\ ~Recorded
               /\ BoundHostMatches
               /\ ex4400' = Configured(Last(renders))
               /\ ex4400' # ex4400
               /\ Write("pre-stage", Last(renders))
               /\ at' = "idle"
               /\ UNCHANGED <<intent, packages, renders, identity,
                              probes, attachments, endpoints, exceptions>>

RunUnrecorded == /\ at = "run" /\ ~Recorded
                 /\ "crash" \in Faults /\ BoundHostMatches
                 /\ ex4400' = Configured(Last(renders))
                 /\ at' = "idle"
                 /\ UNCHANGED <<intent, packages, renders, identity, moving>>

RunChangesNothing == /\ at = "run"
                     /\ \/ Recorded
                        \/ "fails" \in Faults
                        \/ ~BoundHostMatches
                        \/ Configured(Last(renders)) = ex4400
                     /\ at' = "idle"
                     /\ UNCHANGED <<intent, staging, moving>>

-----------------------------------------------------------------------------
(* cutover-ready: the silent ports of the plan are bounced and the old     *)
(* switch is discovered once more; the record comes last.                  *)
ProbeSilent ==
    /\ Offered("cutover-ready")
    /\ \E o \in Observation :
         /\ Collect(o)
         /\ \/ probes' = probes \cup {<<Newest,
                   \E m \in Mac : o.learned[m] \in Silent(Newest)>>}
            \/ "crash" \in Faults /\ UNCHANGED probes
    /\ UNCHANGED <<reviews, plans, staging, attachments, records, endpoints,
                   exceptions, at>>

(* cutover: an acknowledgement whose directory exists without a whole      *)
(* record can be neither read nor written again.                           *)
Cutover == /\ Offered("cutover")
           /\ ~Has("torn-ack", Newest)
           /\ Write("ack", Newest)
           /\ UNCHANGED <<intent, staging, probes, attachments, endpoints, exceptions, at>>

CutoverTorn == /\ "crash" \in Faults
               /\ Offered("cutover")
               /\ Write("torn-ack", Newest)
               /\ UNCHANGED <<intent, staging, probes, attachments, endpoints,
                              exceptions, at>>

-----------------------------------------------------------------------------
(* activate: discover-attachment, qfx-stage, activate-endpoints            *)

Activate == /\ Offered("activate")
            /\ at' = IF Attached THEN "stage" ELSE "attach"
            /\ UNCHANGED <<intent, staging, moving>>

(* A second observation of one attachment is refused.                      *)
Writable(plan) == plan \notin ToSet(attachments)
Attach == /\ at = "attach" /\ Writable(Newest)
          /\ attachments' = Append(attachments, Newest)
          /\ at' = "stage"
          /\ UNCHANGED <<intent, staging, probes, records, endpoints, exceptions>>

StageSkipped == /\ at = "stage" /\ Staged
                /\ at' = "endpoints"
                /\ UNCHANGED <<intent, staging, moving>>

StageQfx == /\ at = "stage" /\ ~Staged
            /\ Last(attachments) = Newest
            /\ Write("qfx", Newest)
            /\ at' = "endpoints"
            /\ UNCHANGED <<intent, staging, probes, attachments, endpoints, exceptions>>

(* Some of the open endpoints are found and committed; the operator may    *)
(* then accept that the rest stays behind.                                 *)
Find(found, left) ==
    /\ Last(packages) = Newest /\ Has("qfx", Newest)
    /\ endpoints' = endpoints \cup ({Newest} \X found)
    /\ exceptions' = exceptions \cup ({Newest} \X left)
    /\ at' = "idle"
    /\ UNCHANGED <<intent, staging, probes, attachments, records>>
FindSome == at = "endpoints" /\ \E found \in SUBSET Open(Newest) : Find(found, {})
FindAll == at = "endpoints" /\ Find(Open(Newest), {})
Except == at = "endpoints" /\ \E found \in SUBSET Open(Newest) :
             Find(found, Unresolved(Newest) \ found)

CommandFails == /\ "fails" \in Faults
                /\ at \notin {"idle", "run"}
                /\ at' = "idle"
                /\ UNCHANGED <<intent, staging, moving>>

-----------------------------------------------------------------------------
(* validate: port-state, then cabling-report, which needs an endpoint      *)
Activated(plan) == \E p \in Port : <<plan, p>> \in endpoints

Compare == /\ Offered("validate")
           /\ Last(packages) = Newest
           /\ Write("comparison", Newest)
           /\ UNCHANGED <<intent, staging, probes, attachments, endpoints, exceptions, at>>

Report == /\ Offered("validate")
          /\ Has("comparison", Newest)
          /\ Activated(Newest)
          /\ Write("report", Newest)
          /\ UNCHANGED <<intent, staging, probes, attachments, endpoints, exceptions, at>>

(* finalize: validate_pre_cleanup takes no account of exceptions.          *)
PreCleanupAsProgress(plan) == Unresolved(plan) = {}     \* mutant: it does
PreCleanup(plan) == Held(plan) = {} /\ Open(plan) = {}

Finalize == /\ Offered("finalize")
            /\ Last(packages) = Newest /\ Has("qfx", Newest)
            /\ PreCleanup(Newest)
            /\ Write("cleanup", Newest)
            /\ UNCHANGED <<intent, staging, probes, attachments, endpoints, exceptions, at>>

-----------------------------------------------------------------------------
Step == \/ Analyze \/ \E e \in Evidence : Build(e)
        \/ Prestage \/ Prepare \/ Render \/ Identify
        \/ RunRecorded \/ RunUnrecorded \/ RunChangesNothing
        \/ ProbeSilent \/ Cutover \/ CutoverTorn
        \/ Activate \/ Attach \/ StageSkipped \/ StageQfx
        \/ FindSome \/ Except \/ CommandFails
        \/ Compare \/ Report \/ Finalize
Next == Discover \/ Step

Spec == Init /\ [][Next]_vars

(* The operator keeps running what is offered, commands do not fail for    *)
(* ever, a pre-stage run that could succeed does in the end, and so are    *)
(* endpoints found that are looked for again and again; nobody has to      *)
(* discover anything more.                                                 *)
Fairness == /\ WF_vars(Step)
            /\ <>[][~CommandFails]_vars
            /\ SF_vars(RunRecorded) /\ SF_vars(FindAll)
FairSpec == Spec /\ Fairness
-----------------------------------------------------------------------------
(* Properties                                                              *)

TypeOK == /\ IntentType
          /\ {packages, renders, attachments} \subseteq Seq(Evidence)
          /\ identity \in Host \cup {"none"}
          /\ ex4400 \in [host : Host, vlans : SUBSET Vlan]
          /\ probes \subseteq Evidence \X BOOLEAN
          /\ records \in [Kind -> SUBSET Evidence]
          /\ endpoints \cup exceptions \subseteq Evidence \X Port
          /\ at \in {"idle", "package", "render", "identify", "run",
                     "attach", "stage", "endpoints"}

(* The status and the commands pick their plan by different rules; under   *)
(* the guide they never mean different plans.                              *)
CommandsMeanStatusPlan == Covered => Newest = StatusPlan

(* A QFX pair is changed only for a plan whose EX4400 was pre-staged and   *)
(* whose cable move was acknowledged, whatever was discovered meanwhile.   *)
StagedLineage == \A plan \in records["qfx"] :
                    /\ Has("pre-stage", plan) /\ Has("ack", plan)
                    /\ plan \in ToSet(attachments)

(* Cleanup is committed only when nothing of its plan was left behind: no  *)
(* port held, no endpoint missing or excepted, all of it compared and      *)
(* reported.                                                               *)
FinalizedWhole == \A plan \in records["cleanup"] :
                    /\ Held(plan) = {}
                    /\ \A p \in Correlate(plan) : <<plan, p>> \in endpoints
                    /\ {"qfx", "comparison", "report"} \subseteq
                          {kind \in Kind : Has(kind, plan)}

(* No port is moved on a guess: an endpoint is committed only for a port   *)
(* on which some collection of the plan learned a client that none of them *)
(* learned on another port that serves endpoints now, unless that was an   *)
(* uplink when it did.                                                     *)
EndpointsHaveEvidence == \A plan \in Evidence, p \in Port : <<plan, p>> \in endpoints =>
    \E m \in Mac : /\ \E i \in plan : collections[i].learned[m] = p
                   /\ \A i \in plan : LET q == collections[i].learned[m]
                                      IN  \/ q \in {p, Nowhere} \cup (Port \ AccessPorts(plan))
                                          \/ collections[i].mode[q] = "uplink"

(* The migration can be brought to its end.  What keeps it from there:     *)
(* collections the policy rejects, a review that put something off, silent *)
(* ports, a plan that is not the first to be pre-staged, a pre-stage or an *)
(* acknowledgement that died before its record, exceptions.                *)
Clear == /\ Ids # {} /\ Eligible = Ids
         /\ \A r \in ToSet(reviews) : r.evidence = Ids => r.result # "ACTION_REQUIRED"
         /\ Silent(Ids) = {} /\ Moved(Ids) = {} /\ ~Blocked(Ids) /\ Correlate(Ids) # {}
         /\ ex4400.host = "planned" => records["pre-stage"] = {Ids}
         /\ records["torn-ack"] = {} /\ exceptions = {}
Completes == <>[]Clear => <>(NextAction = "complete")

(* docs/operator-workflow.md: after a new collection "status ... routes    *)
(* the operator back through analysis and planning"; a plan so approved    *)
(* is pre-staged like the first, and the workflow leaves this phase.       *)
PrestageIsPassed == NextAction = "prestage" ~> NextAction # "prestage"
=============================================================================
