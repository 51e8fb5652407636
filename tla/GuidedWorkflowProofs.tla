------------------------ MODULE GuidedWorkflowProofs ------------------------
(***************************************************************************)
(* Proofs about the guided workflow, for any ports, clients and VLANs, any *)
(* observations and any number of discoveries.                             *)
(***************************************************************************)
EXTENDS GuidedWorkflow, FiniteSetTheorems, SequenceTheorems, TLAPS

-----------------------------------------------------------------------------
(* Sequences of records                                                    *)

LEMMA Appending ==
    ASSUME NEW S, NEW seq \in Seq(S), NEW elt \in S
    PROVE  /\ Append(seq, elt) \in Seq(S)
           /\ ToSet(Append(seq, elt)) = ToSet(seq) \cup {elt}
           /\ Last(Append(seq, elt)) = elt
<1>1. /\ Append(seq, elt) \in Seq(S) /\ Len(Append(seq, elt)) = Len(seq) + 1
      /\ \A i \in 1 .. Len(seq) : Append(seq, elt)[i] = seq[i]
      /\ Append(seq, elt)[Len(seq) + 1] = elt
  BY AppendProperties
<1>2. /\ Len(seq) \in Nat /\ DOMAIN seq = 1 .. Len(seq)
      /\ DOMAIN Append(seq, elt) = 1 .. Len(seq) + 1
  BY <1>1, LenProperties
<1>3. QED
  BY <1>1, <1>2 DEF ToSet, Last

LEMMA LastIsMember ==
    ASSUME NEW S, NEW seq \in Seq(S), ToSet(seq) # {}
    PROVE  Last(seq) \in ToSet(seq)
<1>1. Len(seq) \in Nat /\ DOMAIN seq = 1 .. Len(seq)
  BY LenProperties
<1>2. Len(seq) \in DOMAIN seq
  BY <1>1 DEF ToSet
<1>3. QED
  BY <1>2 DEF ToSet, Last

LEMMA Members ==
    ASSUME NEW S, NEW seq \in Seq(S)
    PROVE  ToSet(seq) \subseteq S
BY LenProperties, ElementOfSeq DEF ToSet

LEMMA NewAppended ==
    ASSUME NEW seq \in Seq(Evidence), NEW plan \in Evidence
    PROVE  /\ AppendNew(seq, plan) \in Seq(Evidence)
           /\ ToSet(AppendNew(seq, plan)) = ToSet(seq) \cup {plan}
BY Appending DEF AppendNew

(* A set of collections has a latest one: well-foundedness of the strict   *)
(* subsets of the finite set, and no induction of our own.                 *)
LEMMA LatestExists ==
    ASSUME NEW e \in Evidence, e # {}
    PROVE  \E i \in e : \A j \in e : j <= i
<1> DEFINE From(i) == {j \in e : i <= j}
           All == {From(i) : i \in e}
<1>1. IsFiniteSet(e) /\ e \subseteq Nat
  <2>1. IsFiniteSet(1 .. MaxCollections)
    BY CollectionsAssumption, FS_Interval
  <2>2. e \in SUBSET (1 .. MaxCollections)
    BY DEF Evidence
  <2>3. IsFiniteSet(e)
    BY <2>1, <2>2, FS_Subset
  <2>4. QED
    BY <2>2, <2>3, CollectionsAssumption
<1>2. All \subseteq FiniteSubsetsOf(e)
  <2>1. \A some \in SUBSET e : some \in FiniteSubsetsOf(e)
    BY <1>1, FS_Subset DEF FiniteSubsetsOf
  <2>2. \A i \in e : From(i) \in SUBSET e
    OBVIOUS
  <2> HIDE DEF From
  <2>3. QED
    BY <2>1, <2>2
<1>3. All # {}
  OBVIOUS
<1>4. PICK least \in All : \A other \in All : <<other, least>> \notin StrictSubsetOrdering(e)
  <2> HIDE DEF All
  <2>1. IsWellFoundedOn(StrictSubsetOrdering(e), FiniteSubsetsOf(e))
    BY FS_StrictSubsetOrderingWellFounded
  <2>2. QED
    BY <1>2, <1>3, <2>1, WFMin
<1>5. PICK i \in e : least = From(i)
  OBVIOUS
<1>6. ASSUME NEW j \in e, ~(j <= i) PROVE FALSE
  <2>1. i \in Nat /\ j \in Nat /\ i < j
    BY <1>1, <1>6
  <2>2. i \in From(i) /\ i \notin From(j)
    BY <2>1
  <2>3. \A k \in From(j) : k \in From(i)
    BY <1>1, <2>1
  <2>4. From(j) \in SUBSET e /\ From(i) \in SUBSET e /\ From(j) \in All
    OBVIOUS
  <2> HIDE DEF From, All
  <2>5. From(j) \subseteq From(i) /\ From(j) # From(i)
    BY <2>2, <2>3
  <2>6. <<From(j), From(i)>> \in StrictSubsetOrdering(e)
    BY <2>4, <2>5 DEF StrictSubsetOrdering
  <2>7. QED
    BY <1>4, <1>5, <2>4, <2>6
<1>7. QED
  BY <1>6

-----------------------------------------------------------------------------
(* The evidence a plan is made of                                          *)

LEMMA IdsFacts ==
    TypeOK => /\ Ids = 1 .. Len(collections) /\ Len(collections) \in Nat
              /\ Ids \in Evidence /\ Eligible \in Evidence /\ Eligible \subseteq Ids
              /\ \A i \in Ids : collections[i] \in ObservationType
<1> SUFFICES ASSUME TypeOK
             PROVE  /\ Ids = 1 .. Len(collections) /\ Len(collections) \in Nat
                    /\ Ids \in Evidence /\ Eligible \in Evidence /\ Eligible \subseteq Ids
                    /\ \A i \in Ids : collections[i] \in ObservationType
  OBVIOUS
<1>1. collections \in Seq(Observation) /\ Len(collections) <= MaxCollections
  BY DEF TypeOK, IntentType
<1>2. Ids = 1 .. Len(collections) /\ Len(collections) \in Nat
  BY <1>1, LenProperties DEF Ids
<1>3. \A i \in Ids : collections[i] \in ObservationType
  BY <1>1, <1>2, ElementOfSeq, ObservationAssumption
<1>4. Ids \in Evidence
  BY <1>1, <1>2, CollectionsAssumption DEF Evidence
<1>5. QED
  BY <1>2, <1>3, <1>4 DEF Eligible, Evidence

(* The latest collection of a plan is one of them.                         *)
Latest(e) == CHOOSE i \in e : \A j \in e : j <= i

LEMMA CurrentFacts ==
    ASSUME NEW e \in Evidence, e # {}
    PROVE  Latest(e) \in e /\ Current(e) = collections[Latest(e)]
BY LatestExists DEF Latest, Current

(* Every plan was accepted, from an analysis of collections there are.     *)
PlanInv ==
    /\ \A r \in ToSet(reviews) : r.evidence # {} /\ r.evidence \subseteq Ids
    /\ \A e \in ToSet(plans) : Accepted(e)

LEMMA PlanFacts ==
    ASSUME TypeOK, PlanInv, NEW e \in ToSet(plans)
    PROVE  e \in Evidence /\ e # {} /\ e \subseteq Ids
BY Members DEF PlanInv, Accepted, TypeOK, IntentType

(* What a step does to the evidence, the reviews and the plans.            *)
LEMMA IntentChanges ==
    ASSUME [Next]_vars
    PROVE  \/ UNCHANGED intent
           \/ \E o \in Observation : Collect(o) /\ UNCHANGED <<reviews, plans>>
           \/ Offered("analyze") /\ AnalyzeAll
           \/ \E e \in Evidence : Offered("build") /\ BuildPlan(e)
BY DEF Next, Discover, Step, Analyze, Build, Prestage, Prepare, Render, Identify, RunRecorded,
   RunUnrecorded, RunChangesNothing, ProbeSilent, Cutover, CutoverTorn, Activate, Attach,
   StageSkipped, StageQfx, FindSome, Except, Find, CommandFails, Compare, Report, Finalize,
   intent, vars

LEMMA CollectEffects ==
    ASSUME TypeOK, NEW o \in Observation, Collect(o)
    PROVE  /\ collections' \in Seq(Observation) /\ Len(collections') <= MaxCollections
           /\ Ids \subseteq Ids' /\ Ids' \notin SUBSET Ids
           /\ \A i \in Ids : collections'[i] = collections[i]
<1>1. collections \in Seq(Observation) /\ collections' = Append(collections, o)
  BY DEF TypeOK, IntentType, Collect
<1>2. /\ collections' \in Seq(Observation) /\ Len(collections') = Len(collections) + 1
      /\ \A i \in 1 .. Len(collections) : collections'[i] = collections[i]
  BY <1>1, AppendProperties
<1>3. /\ Ids = 1 .. Len(collections) /\ Len(collections) \in Nat
      /\ Ids' = 1 .. Len(collections')
  BY <1>1, <1>2, LenProperties DEF Ids
<1>4. Len(collections') <= MaxCollections
  BY <1>2, <1>3, CollectionsAssumption DEF Collect
<1>5. Len(collections) + 1 \in Ids' /\ Len(collections) + 1 \notin Ids
  BY <1>2, <1>3
<1>6. QED
  BY <1>2, <1>3, <1>4, <1>5

LEMMA AnalyzeEffects ==
    ASSUME TypeOK, AnalyzeAll
    PROVE  /\ reviews' \in Seq([evidence : Evidence, result : Result])
           /\ \E r : /\ r.evidence = Eligible /\ Eligible # {}
                     /\ ToSet(reviews') = ToSet(reviews) \cup {r}
           /\ UNCHANGED <<collections, plans>>
<1>1. PICK result \in ReviewResults(Eligible) : reviews' = Append(reviews, Review(Eligible, result))
  BY DEF AnalyzeAll
<1>2. Review(Eligible, result) \in [evidence : Evidence, result : Result]
  BY IdsFacts DEF Review, ReviewResults, Result
<1>3. Review(Eligible, result).evidence = Eligible
  BY DEF Review
<1>4. /\ reviews' \in Seq([evidence : Evidence, result : Result])
      /\ ToSet(reviews') = ToSet(reviews) \cup {Review(Eligible, result)}
  <2>1. reviews \in Seq([evidence : Evidence, result : Result])
    BY DEF TypeOK, IntentType
  <2> DEFINE type == [evidence : Evidence, result : Result]
             made == Review(Eligible, result)
  <2>2. reviews \in Seq(type) /\ made \in type /\ reviews' = Append(reviews, made)
    BY <1>1, <1>2, <2>1
  <2> HIDE DEF type, made
  <2>3. reviews' \in Seq(type) /\ ToSet(reviews') = ToSet(reviews) \cup {made}
    BY <2>2, Appending
  <2>4. QED
    BY <2>3 DEF type, made
<1>5. Eligible # {} /\ UNCHANGED <<collections, plans>>
  BY DEF AnalyzeAll
<1>6. QED
  BY <1>3, <1>4, <1>5

LEMMA BuildEffects ==
    ASSUME TypeOK, NEW e \in Evidence, BuildPlan(e)
    PROVE  /\ plans' \in Seq(Evidence) /\ ToSet(plans') = ToSet(plans) \cup {e}
           /\ Last(plans') = e /\ Accepted(e)
           /\ UNCHANGED <<collections, reviews>>
BY Appending DEF BuildPlan, TypeOK, IntentType

LEMMA IntentStep == TypeOK /\ PlanInv /\ [Next]_vars => IntentType' /\ PlanInv'
<1> SUFFICES ASSUME TypeOK, PlanInv, [Next]_vars PROVE IntentType' /\ PlanInv'
  OBVIOUS
<1>0. IntentType
  BY DEF TypeOK
<1>1. CASE UNCHANGED intent
  BY <1>0, <1>1 DEF intent, IntentType, PlanInv, Ids, Accepted
<1>2. ASSUME NEW o \in Observation, Collect(o), UNCHANGED <<reviews, plans>>
      PROVE  IntentType' /\ PlanInv'
  BY <1>0, <1>2, CollectEffects DEF IntentType, PlanInv, Accepted
<1>3. CASE AnalyzeAll
  <2>1. PICK r : /\ r.evidence = Eligible /\ Eligible # {}
                 /\ ToSet(reviews') = ToSet(reviews) \cup {r}
    BY <1>3, AnalyzeEffects
  <2>2. UNCHANGED <<collections, plans, Ids>>
    BY <1>3, AnalyzeEffects DEF Ids
  <2>3. IntentType'
    BY <1>0, <1>3, <2>2, AnalyzeEffects DEF IntentType
  <2>4. \A e \in ToSet(plans) : Accepted(e)'
    BY <2>1 DEF PlanInv, Accepted
  <2>5. QED
    BY <2>1, <2>2, <2>3, <2>4, IdsFacts DEF PlanInv
<1>4. ASSUME NEW e \in Evidence, BuildPlan(e) PROVE IntentType' /\ PlanInv'
  <2>1. UNCHANGED Ids /\ \A x : UNCHANGED Accepted(x)
    BY <1>4, BuildEffects DEF Ids, Accepted
  <2>2. QED
    BY <1>0, <1>4, <2>1, BuildEffects DEF IntentType, PlanInv
<1>5. QED
  BY <1>1, <1>2, <1>3, <1>4, IntentChanges

-----------------------------------------------------------------------------
(* The typing of the state                                                 *)

Midway == {"render", "identify", "run"}

(* A command works on records that an earlier one has written.             *)
WorkInv ==
    /\ at # "idle" => ToSet(plans) # {}
    /\ at \in Midway => ToSet(packages) # {}
    /\ at \in {"identify", "run"} => ToSet(renders) # {}
    /\ ToSet(packages) \subseteq ToSet(plans) /\ ToSet(renders) \subseteq ToSet(packages)

(* What the status offers presupposes.                                     *)
LEMMA OfferedFacts ==
    /\ \A action \in {"prestage", "cutover-ready", "cutover", "activate", "validate", "finalize"} :
         Offered(action) => Covered
    /\ \A action \in {"cutover", "activate", "validate", "finalize"} :
         Offered(action) => ReadyToMove
    /\ \A action \in {"activate", "validate", "finalize"} : Offered(action) => CablesMoved
    /\ \A action \in {"validate", "finalize"} : Offered(action) => Staged
    /\ Offered("finalize") => Has("comparison", Newest) /\ Has("report", Newest)
    /\ Offered("build") => Ids # {} /\ Accepted(Ids) /\ ~Covered
    /\ \A action : Offered(action) => at = "idle"
<1> DEFINE held == Probe = "HOLD_NEW_EVIDENCE"
           asked == Probe = "REQUIRED"
<1>1. Probe \in {"NOT_REQUIRED", "HOLD_NEW_EVIDENCE", "PASS", "REQUIRED"}
  BY DEF Probe
<1>2. Prestaged /\ ~held /\ ~asked => ReadyToMove
  BY <1>1 DEF ReadyToMove
<1> HIDE DEF held, asked
<1>3. NextAction =
        IF Ids = {} THEN "discover"
        ELSE IF ~Accepted(Ids) THEN "analyze"
        ELSE IF ~Covered THEN "build"
        ELSE IF ~Prestaged THEN "prestage"
        ELSE IF held THEN "analyze"
        ELSE IF asked THEN "cutover-ready"
        ELSE IF ~CablesMoved THEN "cutover"
        ELSE IF ~Staged \/ Unresolved(Newest) # {} THEN "activate"
        ELSE IF ~Has("comparison", Newest) \/ ~Has("report", Newest) THEN "validate"
        ELSE IF ~Has("cleanup", StatusPlan) THEN "finalize"
        ELSE "complete"
  BY DEF NextAction, held, asked
<1>4. QED
  BY <1>2, <1>3 DEF Offered

LEMMA CoveredFacts == Covered => ToSet(plans) # {}
BY DEF Covered

LEMMA NewestFacts ==
    ASSUME TypeOK, PlanInv, ToSet(plans) # {}
    PROVE  /\ Newest \in ToSet(plans) /\ Newest \in Evidence
           /\ Open(Newest) \subseteq Port /\ Unresolved(Newest) \subseteq Port
<1>1. Newest \in ToSet(plans)
  BY LastIsMember DEF Newest, TypeOK, IntentType
<1>2. QED
  BY <1>1, PlanFacts DEF Open, Unresolved, Correlate, AccessPorts

LEMMA ConfiguredTyping ==
    ASSUME TypeOK, PlanInv, NEW plan \in ToSet(plans)
    PROVE  Configured(plan) \in [host : Host, vlans : SUBSET Vlan]
<1>1. plan \in Evidence /\ plan # {} /\ plan \subseteq Ids
  BY PlanFacts
<1>2. Current(plan) \in ObservationType
  BY <1>1, CurrentFacts, IdsFacts
<1>3. Current(plan).vlans \subseteq Vlan
  BY <1>2 DEF ObservationType
<1>4. QED
  BY <1>3 DEF Configured, TypeOK, Host

(* The records of a plan that a step writes.                               *)
LEMMA WriteEffects ==
    ASSUME TypeOK, NEW kind \in Kind, NEW plan \in Evidence, Write(kind, plan)
    PROVE  /\ records' \in [Kind -> SUBSET Evidence]
           /\ records'[kind] = records[kind] \cup {plan}
           /\ \A other \in Kind \ {kind} : records'[other] = records[other]
BY DEF Write, TypeOK

LEMMA PlansGrow ==
    ASSUME TypeOK, [Next]_vars
    PROVE  ToSet(plans) \subseteq ToSet(plans') /\ (~Offered("build") => UNCHANGED plans)
<1>1. CASE UNCHANGED plans
  BY <1>1
<1>2. ASSUME NEW e \in Evidence, BuildPlan(e) PROVE ToSet(plans) \subseteq ToSet(plans')
  BY <1>2, BuildEffects
<1>3. QED
  BY <1>1, <1>2, IntentChanges DEF intent, AnalyzeAll

StagingType == /\ packages \in Seq(Evidence) /\ renders \in Seq(Evidence)
               /\ identity \in Host \cup {"none"}
               /\ ex4400 \in [host : Host, vlans : SUBSET Vlan]
MovingType == /\ attachments \in Seq(Evidence)
              /\ probes \subseteq Evidence \X BOOLEAN
              /\ records \in [Kind -> SUBSET Evidence]
              /\ endpoints \subseteq Evidence \X Port /\ exceptions \subseteq Evidence \X Port
AtType == at \in {"idle", "package", "render", "identify", "run", "attach", "stage", "endpoints"}

LEMMA TypeParts == TypeOK <=> IntentType /\ StagingType /\ MovingType /\ AtType
BY DEF TypeOK, StagingType, MovingType, AtType

LEMMA PrepareStep ==
    ASSUME TypeOK, PlanInv, WorkInv, [Next]_vars, Prepare \/ Render \/ Identify
    PROVE  StagingType' /\ MovingType' /\ AtType' /\ WorkInv'
<1>0. StagingType /\ MovingType
  BY TypeParts
<1>1. ToSet(plans) # {} /\ Newest \in Evidence /\ Newest \in ToSet(plans) /\ at # "idle"
  BY NewestFacts DEF Prepare, Render, Identify, WorkInv
<1>2. UNCHANGED plans /\ UNCHANGED moving
  BY <1>1, PlansGrow DEF Offered, Prepare, Render, Identify
<1>3. MovingType'
  BY <1>0, <1>2 DEF MovingType, moving
<1>4. CASE Prepare
  <2>1. /\ AppendNew(packages, Newest) \in Seq(Evidence)
        /\ ToSet(AppendNew(packages, Newest)) = ToSet(packages) \cup {Newest}
    BY <1>0, <1>1, NewAppended DEF StagingType
  <2>2. Packaged => ToSet(packages) # {}
    BY DEF Packaged
  <2>3. /\ packages' \in Seq(Evidence) /\ ToSet(packages') # {}
        /\ ToSet(packages) \subseteq ToSet(packages') /\ ToSet(packages') \subseteq ToSet(plans)
    BY <1>1, <1>4, <1>0, <2>1, <2>2 DEF Prepare, WorkInv, StagingType
  <2>4. UNCHANGED <<renders, identity, ex4400>> /\ at' = "render"
    BY <1>4 DEF Prepare
  <2>5. QED
    BY <1>0, <1>1, <1>2, <1>3, <2>3, <2>4 DEF StagingType, AtType, WorkInv, Midway
<1>5. CASE Render
  <2>1. ToSet(packages) # {} /\ ToSet(packages) \subseteq Evidence
    BY <1>0, <1>5, Members DEF Render, WorkInv, Midway, StagingType
  <2>2. Last(packages) \in ToSet(packages)
    BY <1>0, <2>1, LastIsMember DEF StagingType
  <2>3. /\ AppendNew(renders, Last(packages)) \in Seq(Evidence)
        /\ ToSet(AppendNew(renders, Last(packages))) = ToSet(renders) \cup {Last(packages)}
    BY <1>0, <2>1, <2>2, NewAppended DEF StagingType
  <2>4. Rendered => ToSet(renders) # {}
    BY DEF Rendered
  <2>5. \/ renders' = renders /\ Rendered
        \/ renders' = AppendNew(renders, Last(packages))
    BY <1>5 DEF Render
  <2>6. /\ renders' \in Seq(Evidence) /\ ToSet(renders') # {}
        /\ ToSet(renders') \subseteq ToSet(packages)
    BY <1>0, <2>2, <2>3, <2>4, <2>5 DEF WorkInv, StagingType
  <2>7. UNCHANGED <<packages, identity, ex4400>> /\ at' = "identify"
    BY <1>5 DEF Render
  <2>8. QED
    BY <1>0, <1>1, <1>2, <1>3, <2>1, <2>6, <2>7 DEF StagingType, AtType, WorkInv, Midway
<1>6. CASE Identify
  <2>1. /\ UNCHANGED <<packages, renders, ex4400>> /\ at = "identify" /\ at' \in {"idle", "run"}
        /\ identity' \in {identity, ex4400.host}
    BY <1>6 DEF Identify
  <2>2. StagingType'
    BY <1>0, <2>1 DEF StagingType
  <2>3. QED
    BY <1>2, <1>3, <2>1, <2>2 DEF AtType, WorkInv, Midway
<1>7. QED
  BY <1>4, <1>5, <1>6

LEMMA RunStep ==
    ASSUME TypeOK, PlanInv, WorkInv, [Next]_vars, RunRecorded \/ RunUnrecorded
    PROVE  StagingType' /\ MovingType' /\ AtType' /\ WorkInv'
<1>0. StagingType /\ MovingType
  BY TypeParts
<1>1. at = "run" /\ at' = "idle" /\ UNCHANGED <<packages, renders, identity>>
  BY DEF RunRecorded, RunUnrecorded
<1>2. Last(renders) \in ToSet(renders) /\ ToSet(renders) \subseteq ToSet(plans)
  BY <1>0, <1>1, LastIsMember DEF WorkInv, StagingType
<1>3. Last(renders) \in Evidence
  BY <1>2, PlanFacts
<1>4. ex4400' = Configured(Last(renders))
  BY DEF RunRecorded, RunUnrecorded
<1>5. StagingType'
  BY <1>0, <1>1, <1>2, <1>4, ConfiguredTyping DEF StagingType
<1>6. records' \in [Kind -> SUBSET Evidence]
  <2>1. CASE RunRecorded
    BY <1>3, <2>1, WriteEffects DEF RunRecorded, Kind
  <2>2. CASE RunUnrecorded
    BY <1>0, <2>2 DEF RunUnrecorded, moving, MovingType
  <2>3. QED
    BY <2>1, <2>2
<1>7. MovingType'
  BY <1>0, <1>6 DEF MovingType, RunRecorded, RunUnrecorded, moving
<1>8. QED
  BY <1>1, <1>5, <1>7, PlansGrow DEF AtType, WorkInv, Midway

(* The steps that write a record of the newest plan, and its kind.         *)
Records(kind) == \/ kind = "ack" /\ Cutover
                 \/ kind = "torn-ack" /\ CutoverTorn
                 \/ kind = "qfx" /\ StageQfx
                 \/ kind = "comparison" /\ Compare
                 \/ kind = "report" /\ Report
                 \/ kind = "cleanup" /\ Finalize

LEMMA RecordsFacts ==
    ASSUME TypeOK, PlanInv, WorkInv, NEW kind, Records(kind)
    PROVE  /\ kind \in Kind /\ Newest \in ToSet(plans) /\ Newest \in Evidence
           /\ Write(kind, Newest) /\ at' \in {at, "endpoints"}
           /\ UNCHANGED <<intent, staging, probes, attachments, endpoints, exceptions>>
<1>1. ToSet(plans) # {}
  BY OfferedFacts, CoveredFacts DEF Records, Cutover, CutoverTorn, StageQfx, Compare, Report,
     Finalize, WorkInv
<1>2. Newest \in ToSet(plans) /\ Newest \in Evidence
  BY <1>1, NewestFacts
<1>3. QED
  BY <1>2 DEF Records, Cutover, CutoverTorn, StageQfx, Compare, Report, Finalize, Kind

LEMMA MovingStep ==
    ASSUME TypeOK, PlanInv, WorkInv, [Next]_vars, UNCHANGED staging
    PROVE  MovingType' /\ AtType'
<1>0. MovingType /\ AtType
  BY TypeParts
<1>1. CASE UNCHANGED moving /\ at' \in {at, "idle", "package", "attach", "stage", "endpoints"}
  BY <1>0, <1>1 DEF MovingType, AtType, moving
<1>2. CASE ProbeSilent
  <2>1. Newest \in Evidence
    BY <1>2, OfferedFacts, CoveredFacts, NewestFacts DEF ProbeSilent
  <2>2. probes' \subseteq Evidence \X BOOLEAN
    <3>1. CASE UNCHANGED probes
      BY <1>0, <3>1 DEF MovingType
    <3>2. ASSUME NEW o \in Observation,
                 probes' = probes \cup {<<Newest, \E m \in Mac : o.learned[m] \in Silent(Newest)>>}
          PROVE  probes' \subseteq Evidence \X BOOLEAN
      <4> DEFINE awake == \E m \in Mac : o.learned[m] \in Silent(Newest)
      <4>1. awake \in BOOLEAN
        OBVIOUS
      <4>2. probes' = probes \cup {<<Newest, awake>>}
        BY <3>2
      <4> HIDE DEF awake
      <4>3. <<Newest, awake>> \in Evidence \X BOOLEAN
        BY <2>1, <4>1
      <4>4. QED
        BY <1>0, <4>2, <4>3 DEF MovingType
    <3>3. QED
      BY <1>2, <3>1, <3>2 DEF ProbeSilent
  <2>3. UNCHANGED <<attachments, records, endpoints, exceptions, at>>
    BY <1>2 DEF ProbeSilent
  <2>4. QED
    BY <1>0, <2>2, <2>3 DEF MovingType, AtType
<1>3. ASSUME NEW kind, Records(kind) PROVE MovingType' /\ AtType'
  BY <1>0, <1>3, RecordsFacts, WriteEffects DEF MovingType, AtType
<1>4. CASE Attach
  <2>1. Newest \in Evidence
    BY <1>4, NewestFacts DEF Attach, WorkInv
  <2>2. attachments' \in Seq(Evidence)
    BY <1>0, <1>4, <2>1, Appending DEF Attach, MovingType
  <2>3. QED
    BY <1>0, <1>4, <2>2 DEF Attach, MovingType, AtType
<1>5. ASSUME at = "endpoints", NEW found \in SUBSET Port, NEW left \in SUBSET Port, Find(found, left)
      PROVE  MovingType' /\ AtType'
  <2>1. Newest \in Evidence
    BY <1>5, NewestFacts DEF WorkInv
  <2>2. {Newest} \X found \subseteq Evidence \X Port /\ {Newest} \X left \subseteq Evidence \X Port
    BY <2>1
  <2>3. QED
    BY <1>0, <1>5, <2>2 DEF Find, MovingType, AtType
<1>6. CASE FindSome \/ Except
  <2>1. at = "endpoints" /\ Open(Newest) \subseteq Port /\ Unresolved(Newest) \subseteq Port
    BY <1>6, NewestFacts DEF FindSome, Except, WorkInv
  <2>2. PICK found \in SUBSET Open(Newest) :
          Find(found, {}) \/ Find(found, Unresolved(Newest) \ found)
    BY <1>6 DEF FindSome, Except
  <2>3. found \in SUBSET Port /\ {} \in SUBSET Port /\ Unresolved(Newest) \ found \in SUBSET Port
    BY <2>1
  <2>4. QED
    BY <1>5, <2>1, <2>2, <2>3
<1>7. CASE RunRecorded \/ RunUnrecorded \/ Prepare \/ Render \/ Identify
  <2>1. CASE Prepare \/ Render \/ Identify
    BY <2>1, PrepareStep
  <2>2. CASE RunRecorded \/ RunUnrecorded
    BY <2>2, RunStep
  <2>3. QED
    BY <1>7, <2>1, <2>2
<1>8. QED
  BY <1>1, <1>2, <1>3, <1>4, <1>6, <1>7 DEF Records, Next, Step, Discover, Analyze, Build, Prestage,
     RunChangesNothing, Activate, StageSkipped, CommandFails, vars

LEMMA WorkStep ==
    ASSUME TypeOK, PlanInv, WorkInv, [Next]_vars,
           ~(Prepare \/ Render \/ Identify \/ RunRecorded \/ RunUnrecorded)
    PROVE  UNCHANGED staging /\ WorkInv'
<1>1. UNCHANGED staging
  BY DEF Next, Step, Discover, Analyze, Build, Prestage, RunChangesNothing, ProbeSilent, Cutover,
     CutoverTorn, Activate, Attach, StageSkipped, StageQfx, FindSome, Except, Find, CommandFails,
     Compare, Report, Finalize, vars
<1>2. \/ UNCHANGED at /\ ToSet(plans) # {}
      \/ at' = "idle"
      \/ at' \in {"package", "attach", "stage", "endpoints"} /\ ToSet(plans') # {}
      \/ UNCHANGED at /\ at = "idle"
      \/ UNCHANGED <<at, plans>>
  <2>1. ASSUME NEW e \in Evidence, Build(e)
        PROVE  at' = "idle" \/ (at' = "package" /\ ToSet(plans') # {})
    BY <2>1, BuildEffects DEF Build
  <2>2. ToSet(plans) # {} => ToSet(plans') # {}
    BY PlansGrow
  <2>3. QED
    BY <2>1, <2>2, OfferedFacts, CoveredFacts DEF Next, Step, Discover, Analyze, Prestage,
       RunChangesNothing, ProbeSilent, Cutover, CutoverTorn, Activate, Attach, StageSkipped,
       StageQfx, FindSome, Except, Find, CommandFails, Compare, Report, Finalize, WorkInv, vars
<1>3. QED
  BY <1>1, <1>2, PlansGrow DEF WorkInv, Midway, staging

LEMMA StepTyping ==
    TypeOK /\ PlanInv /\ WorkInv /\ [Next]_vars => TypeOK' /\ PlanInv' /\ WorkInv'
<1> SUFFICES ASSUME TypeOK, PlanInv, WorkInv, [Next]_vars PROVE TypeOK' /\ PlanInv' /\ WorkInv'
  OBVIOUS
<1>1. IntentType' /\ PlanInv'
  BY IntentStep
<1>2. StagingType' /\ MovingType' /\ AtType' /\ WorkInv'
  <2>1. CASE Prepare \/ Render \/ Identify
    BY <2>1, PrepareStep
  <2>2. CASE RunRecorded \/ RunUnrecorded
    BY <2>2, RunStep
  <2>3. CASE ~(Prepare \/ Render \/ Identify \/ RunRecorded \/ RunUnrecorded)
    <3>1. UNCHANGED staging /\ WorkInv'
      BY <2>3, WorkStep
    <3>2. StagingType'
      BY <3>1, TypeParts DEF StagingType, staging
    <3>3. QED
      BY <3>1, <3>2, MovingStep
  <2>4. QED
    BY <2>1, <2>2, <2>3
<1>3. TypeOK' <=> IntentType' /\ StagingType' /\ MovingType' /\ AtType'
  BY DEF TypeOK, StagingType, MovingType, AtType
<1>4. QED
  BY <1>1, <1>2, <1>3

LEMMA WorkInvariant == Spec => [](TypeOK /\ PlanInv /\ WorkInv)
<1>1. Init => TypeOK /\ PlanInv /\ WorkInv
  <2> SUFFICES ASSUME Init PROVE TypeOK /\ PlanInv /\ WorkInv
    OBVIOUS
  <2>1. /\ <<>> \in Seq(Observation) /\ <<>> \in Seq([evidence : Evidence, result : Result])
        /\ <<>> \in Seq(Evidence) /\ Len(<<>>) = 0 /\ ToSet(<<>>) = {}
    BY EmptySeq DEF ToSet
  <2>2. IntentType
    BY <2>1, CollectionsAssumption DEF Init, IntentInit, IntentType
  <2>3. StagingType /\ MovingType /\ AtType
    BY <2>1 DEF Init, StagingType, MovingType, AtType, Host
  <2>4. PlanInv /\ WorkInv
    BY <2>1 DEF Init, IntentInit, PlanInv, WorkInv, Midway
  <2>5. QED
    BY <2>2, <2>3, <2>4, TypeParts
<1>2. QED
  BY <1>1, StepTyping, PTL DEF Spec

(* Every reachable state is well typed: no command ever looks for the last *)
(* record of a kind before there is one.                                   *)
THEOREM TypeCorrect == Spec => []TypeOK
BY WorkInvariant, PTL

-----------------------------------------------------------------------------
(* The plan the commands take                                              *)

(* A plan of every collection is the one approved last: there is none of   *)
(* new collections, and while it is there the guide builds no other.       *)
NewestInv == Ids \in ToSet(plans) => Newest = Ids

LEMMA NewestStep == TypeOK /\ PlanInv /\ NewestInv /\ [Next]_vars => NewestInv'
<1> SUFFICES ASSUME TypeOK, PlanInv, NewestInv, [Next]_vars PROVE NewestInv'
  OBVIOUS
<1>1. CASE UNCHANGED <<collections, plans>>
  BY <1>1 DEF NewestInv, Ids, Newest
<1>2. ASSUME NEW o \in Observation, Collect(o), UNCHANGED plans PROVE NewestInv'
  <2>1. Ids' \notin SUBSET Ids
    BY <1>2, CollectEffects
  <2>2. Ids' \notin ToSet(plans)
    BY <2>1, PlanFacts
  <2>3. QED
    BY <1>2, <2>2 DEF NewestInv
<1>3. ASSUME NEW e \in Evidence, Offered("build"), BuildPlan(e) PROVE NewestInv'
  <2>1. Ids \notin ToSet(plans)
    BY <1>3, OfferedFacts DEF Covered
  <2>2. UNCHANGED Ids /\ ToSet(plans') = ToSet(plans) \cup {e} /\ Newest' = e
    BY <1>3, BuildEffects DEF Ids, Newest
  <2>3. QED
    BY <2>1, <2>2 DEF NewestInv
<1>4. QED
  BY <1>1, <1>2, <1>3, IntentChanges DEF intent, AnalyzeAll

LEMMA NewestInvariant == Spec => [](TypeOK /\ PlanInv /\ WorkInv /\ NewestInv)
<1>1. Init => NewestInv
  BY DEF Init, IntentInit, NewestInv, ToSet
<1>2. QED
  BY <1>1, NewestStep, WorkInvariant, PTL DEF Spec

(* The status and the commands never mean different plans, however often   *)
(* the old switch is discovered beside them.                               *)
THEOREM SamePlanSafety == Spec => []CommandsMeanStatusPlan
<1>1. NewestInv => CommandsMeanStatusPlan
  BY DEF NewestInv, CommandsMeanStatusPlan, Covered, StatusPlan
<1>2. QED
  BY <1>1, NewestInvariant, PTL

-----------------------------------------------------------------------------
(* The lineage of a staged pair                                            *)

Ready(plan) == Has("pre-stage", plan) /\ Has("ack", plan)

LEMMA RecordsGrow ==
    ASSUME TypeOK, PlanInv, WorkInv, [Next]_vars
    PROVE  /\ \A kind \in Kind : records[kind] \subseteq records'[kind]
           /\ endpoints \subseteq endpoints'
           /\ ToSet(attachments) \subseteq ToSet(attachments')
<1>0. StagingType /\ MovingType
  BY TypeParts
<1>1. CASE UNCHANGED <<records, endpoints, attachments>>
  BY <1>1
<1>2. ASSUME NEW kind, Records(kind)
      PROVE  /\ UNCHANGED <<endpoints, attachments>>
             /\ \A other \in Kind : records[other] \subseteq records'[other]
  BY <1>2, RecordsFacts, WriteEffects
<1>3. CASE RunRecorded
  <2>1. Last(renders) \in Evidence
    BY <1>0, <1>3, LastIsMember, Members DEF RunRecorded, WorkInv, StagingType
  <2>2. QED
    BY <1>3, <2>1, WriteEffects DEF RunRecorded, Kind
<1>4. CASE Attach
  <2>1. Newest \in Evidence
    BY <1>4, NewestFacts DEF Attach, WorkInv
  <2>2. ToSet(attachments') = ToSet(attachments) \cup {Newest}
    BY <1>0, <1>4, <2>1, Appending DEF Attach, MovingType
  <2>3. QED
    BY <1>4, <2>2 DEF Attach
<1>5. CASE FindSome \/ Except
  BY <1>5 DEF FindSome, Except, Find
<1>6. QED
  BY <1>1, <1>2, <1>3, <1>4, <1>5 DEF Records, Next, Step, Discover, Analyze, Build, Prestage,
     Prepare, Render, Identify, RunUnrecorded, RunChangesNothing, ProbeSilent, Activate,
     StageSkipped, CommandFails, moving, vars

(* Only its own step writes a record of a kind.                            *)
LEMMA RecordsKept ==
    ASSUME TypeOK, PlanInv, WorkInv, [Next]_vars,
           NEW kind \in Kind, kind # "pre-stage", ~Records(kind)
    PROVE  records'[kind] = records[kind]
<1>1. ASSUME NEW other, Records(other) PROVE records'[kind] = records[kind]
  BY <1>1, RecordsFacts, WriteEffects
<1>2. CASE RunRecorded
  BY <1>2 DEF RunRecorded, Write, TypeOK, Kind
<1>3. CASE UNCHANGED records
  BY <1>3
<1>4. QED
  BY <1>1, <1>2, <1>3 DEF Records, Next, Step, Discover, Analyze, Build, Prestage, Prepare,
     Render, Identify, RunUnrecorded, RunChangesNothing, ProbeSilent, Activate, Attach,
     StageSkipped, FindSome, Except, Find, CommandFails, moving, vars

(* An attachment is discovered for a plan that was pre-staged and moved,   *)
(* and staging works on one of the newest plan.                            *)
StagedInv ==
    /\ \A plan \in ToSet(attachments) : Ready(plan)
    /\ at = "attach" => Ready(Newest)
    /\ at = "stage" => Newest \in ToSet(attachments)
    /\ records["qfx"] \subseteq ToSet(attachments)

LEMMA StagedStep ==
    TypeOK /\ PlanInv /\ WorkInv /\ NewestInv /\ StagedInv /\ [Next]_vars => StagedInv'
<1> SUFFICES ASSUME TypeOK, PlanInv, WorkInv, NewestInv, StagedInv, [Next]_vars PROVE StagedInv'
  OBVIOUS
<1>0. MovingType
  BY TypeParts
<1>1. \A plan : Ready(plan) => Ready(plan)'
  BY RecordsGrow DEF Ready, Has, Kind
<1>2. at # "idle" => UNCHANGED Newest
  BY PlansGrow, OfferedFacts DEF Newest
<1>3. CASE Activate
  <2>1. Newest = StatusPlan /\ ReadyToMove /\ CablesMoved
    BY <1>3, OfferedFacts DEF Activate, NewestInv, StatusPlan, Covered
  <2>2. UNCHANGED <<plans, attachments, records>> /\ at' = IF Attached THEN "stage" ELSE "attach"
    BY <1>3 DEF Activate, intent, moving
  <2>3. Has("pre-stage", Newest)
    BY <2>1 DEF ReadyToMove, Prestaged, Recorded
  <2>4. Attached => Newest \in ToSet(attachments)
    BY <2>1 DEF Attached
  <2>5. ~Attached => Has("ack", Newest)
    BY <2>1 DEF CablesMoved
  <2>6. QED
    BY <2>2, <2>3, <2>4, <2>5 DEF StagedInv, Ready, Has, Newest
<1>4. CASE Attach
  <2>1. Newest \in Evidence
    BY <1>4, NewestFacts DEF Attach, WorkInv
  <2>2. ToSet(attachments') = ToSet(attachments) \cup {Newest}
    BY <1>0, <1>4, <2>1, Appending DEF Attach, MovingType
  <2>3. UNCHANGED <<records, Newest>> /\ at = "attach" /\ at' = "stage"
    BY <1>2, <1>4 DEF Attach
  <2>4. QED
    BY <1>1, <2>2, <2>3 DEF StagedInv
<1>5. CASE StageQfx
  <2>1. /\ records'["qfx"] = records["qfx"] \cup {Newest}
        /\ UNCHANGED attachments /\ at = "stage" /\ at' = "endpoints"
    BY <1>5, RecordsFacts, WriteEffects DEF Records, StageQfx
  <2>2. QED
    BY <1>1, <2>1 DEF StagedInv
<1>6. CASE ~Activate /\ ~Attach /\ ~StageQfx
  <2>1. UNCHANGED attachments
    BY <1>6 DEF Next, Step, Discover, Analyze, Build, Prestage, Prepare, Render, Identify,
       RunRecorded, RunUnrecorded, RunChangesNothing, ProbeSilent, Cutover, CutoverTorn,
       StageSkipped, FindSome, Except, Find, CommandFails, Compare, Report, Finalize, moving, vars
  <2>2. records'["qfx"] = records["qfx"]
    BY <1>6, RecordsKept DEF Records, Kind
  <2>3. UNCHANGED at \/ at' \notin {"attach", "stage"}
    BY <1>6 DEF Next, Step, Discover, Analyze, Build, Prestage, Prepare, Render, Identify,
       RunRecorded, RunUnrecorded, RunChangesNothing, ProbeSilent, Cutover, CutoverTorn,
       StageSkipped, FindSome, Except, Find, CommandFails, Compare, Report, Finalize, vars
  <2>4. QED
    BY <1>1, <1>2, <2>1, <2>2, <2>3 DEF StagedInv
<1>7. QED
  BY <1>3, <1>4, <1>5, <1>6

(* A QFX pair is changed only for a plan whose EX4400 was pre-staged and   *)
(* whose cable move was acknowledged, whatever was discovered meanwhile.   *)
THEOREM LineageSafety == Spec => []StagedLineage
<1>1. Init => StagedInv
  BY DEF Init, StagedInv, ToSet, Kind
<1>2. StagedInv => StagedLineage
  BY DEF StagedInv, StagedLineage, Ready
<1>3. QED
  BY <1>1, <1>2, StagedStep, NewestInvariant, PTL DEF Spec

-----------------------------------------------------------------------------
(* What becomes of the ports of a plan                                     *)

(* New collections change nothing of a plan made before them.              *)
LEMMA PlanKept ==
    ASSUME TypeOK, PlanInv, [Next]_vars, NEW e \in ToSet(plans)
    PROVE  UNCHANGED <<Correlate(e), Held(e)>>
<1>1. e \in Evidence /\ e # {} /\ e \subseteq Ids
  BY PlanFacts
<1>2. \A i \in e : collections'[i] = collections[i]
  <2>1. CASE UNCHANGED collections
    BY <2>1
  <2>2. ASSUME NEW o \in Observation, Collect(o) PROVE \A i \in e : collections'[i] = collections[i]
    BY <1>1, <2>2, CollectEffects
  <2>3. QED
    BY <2>1, <2>2, IntentChanges DEF intent, AnalyzeAll, BuildPlan
<1>3. Current(e)' = Current(e)
  <2>1. Current(e)' = collections'[Latest(e)]
    BY DEF Current, Latest
  <2>2. QED
    BY <1>1, <1>2, <2>1, CurrentFacts
<1>4. AccessPorts(e)' = AccessPorts(e)
  BY <1>3 DEF AccessPorts
<1>5. \A p : History(e, p)' = History(e, p) /\ Learned(e, p)' = Learned(e, p)
  BY <1>2 DEF History, Learned
<1>6. Silent(e)' = Silent(e) /\ Moved(e)' = Moved(e)
  BY <1>4, <1>5 DEF Silent, Moved
<1>7. \A p : Safe(e, p)' = Safe(e, p)
  BY <1>4, <1>5 DEF Safe
<1>8. Correlate(e)' = Correlate(e)
  BY <1>3, <1>4, <1>5, <1>6, <1>7 DEF Correlate
<1>9. QED
  BY <1>4, <1>8 DEF Held

(* A port is correlated on the word of a client that is on no other port.  *)
LEMMA CorrelatedOnEvidence ==
    ASSUME TypeOK, PlanInv, NEW e \in ToSet(plans), NEW p \in Correlate(e)
    PROVE  \E m \in Mac :
             /\ \E i \in e : collections[i].learned[m] = p
             /\ \A i \in e : LET q == collections[i].learned[m]
                             IN  \/ q \in {p, Nowhere} \cup (Port \ AccessPorts(e))
                                 \/ collections[i].mode[q] = "uplink"
<1>1. e \subseteq Ids /\ \A i \in e, m \in Mac : collections[i].learned[m] \in Port \cup {Nowhere}
  BY PlanFacts, IdsFacts DEF ObservationType
<1>2. p \in AccessPorts(e) /\ p \in Port
  BY DEF Correlate, AccessPorts
<1>3. CASE p \notin Silent(e) /\ Learned(e, p) \cap Moved(e) = {}
  <2>1. PICK m \in Learned(e, p) : m \notin Moved(e)
    BY <1>2, <1>3 DEF Silent
  <2>2. m \in Mac /\ \E i \in e : collections[i].learned[m] = p
    BY DEF Learned
  <2>3. \A q \in AccessPorts(e) : q # p => m \notin Learned(e, q)
    BY <1>2, <2>1, <2>2 DEF Moved
  <2>4. ASSUME NEW i \in e, NEW q, q = collections[i].learned[m], q # p, q \in AccessPorts(e)
        PROVE  collections[i].mode[q] = "uplink"
    BY <2>2, <2>3, <2>4 DEF Learned
  <2>5. QED
    BY <1>1, <2>2, <2>4
<1>4. CASE Safe(e, p) # {}
  <2>1. PICK m \in Safe(e, p) : TRUE
    BY <1>4
  <2>2. m \in Mac /\ \E i \in e : collections[i].learned[m] = p
    BY DEF Safe, History
  <2>3. \A i \in e : collections[i].learned[m] \in {p, Nowhere} \cup (Port \ AccessPorts(e))
    BY <1>1, <2>2 DEF Safe, History
  <2>4. QED
    BY <2>2, <2>3
<1>5. QED
  BY <1>3, <1>4 DEF Correlate

(* What is committed for a plan is what the plan correlates.               *)
EndpointInv == \A plan \in Evidence, p \in Port :
    <<plan, p>> \in endpoints => plan \in ToSet(plans) /\ p \in Correlate(plan)

LEMMA EndpointStep ==
    TypeOK /\ PlanInv /\ WorkInv /\ EndpointInv /\ [Next]_vars => EndpointInv'
<1> SUFFICES ASSUME TypeOK, PlanInv, WorkInv, EndpointInv, [Next]_vars,
                    NEW plan \in Evidence, NEW p \in Port, <<plan, p>> \in endpoints'
             PROVE  plan \in ToSet(plans') /\ p \in Correlate(plan)'
  BY DEF EndpointInv
<1>1. plan \in ToSet(plans) /\ p \in Correlate(plan)
  <2>1. CASE <<plan, p>> \in endpoints
    BY <2>1 DEF EndpointInv
  <2>2. CASE FindSome \/ Except
    <3>1. /\ at = "endpoints"
          /\ \E found \in SUBSET Open(Newest) : endpoints' = endpoints \cup ({Newest} \X found)
      BY <2>2 DEF FindSome, Except, Find
    <3>2. Newest \in ToSet(plans)
      BY <3>1, NewestFacts DEF WorkInv
    <3>3. <<plan, p>> \in endpoints \/ (plan = Newest /\ p \in Open(Newest))
      BY <3>1
    <3>4. QED
      BY <2>1, <3>2, <3>3 DEF Open
  <2>3. CASE UNCHANGED endpoints
    BY <2>1, <2>3
  <2>4. QED
    BY <2>2, <2>3 DEF Next, Step, Discover, Analyze, Build, Prestage, Prepare, Render, Identify,
       RunRecorded, RunUnrecorded, RunChangesNothing, ProbeSilent, Cutover, CutoverTorn, Activate,
       Attach, StageSkipped, StageQfx, CommandFails, Compare, Report, Finalize, moving, vars
<1>2. QED
  BY <1>1, PlanKept, PlansGrow

LEMMA EndpointInvariant == Spec => [](TypeOK /\ PlanInv /\ WorkInv /\ NewestInv /\ EndpointInv)
<1>1. Init => EndpointInv
  BY DEF Init, EndpointInv
<1>2. QED
  BY <1>1, EndpointStep, NewestInvariant, PTL DEF Spec

(* No port is moved on a guess: behind every committed endpoint is a       *)
(* client that no collection of the plan learned on another port that was  *)
(* in use and still is, for any observations in any order.                 *)
THEOREM EvidenceSafety == Spec => []EndpointsHaveEvidence
<1>1. TypeOK /\ PlanInv /\ EndpointInv => EndpointsHaveEvidence
  BY CorrelatedOnEvidence DEF EndpointInv, EndpointsHaveEvidence
<1>2. QED
  BY <1>1, EndpointInvariant, PTL

-----------------------------------------------------------------------------
(* What a finished migration leaves behind                                 *)

FinalizedInv == FinalizedWhole /\ records["cleanup"] \subseteq ToSet(plans)

LEMMA FinalizedStep ==
    TypeOK /\ PlanInv /\ WorkInv /\ NewestInv /\ FinalizedInv /\ [Next]_vars => FinalizedInv'
<1> SUFFICES ASSUME TypeOK, PlanInv, WorkInv, NewestInv, FinalizedInv, [Next]_vars,
                    NEW plan \in records'["cleanup"]
             PROVE  /\ plan \in ToSet(plans')
                    /\ Held(plan)' = {}
                    /\ \A p \in Correlate(plan)' : <<plan, p>> \in endpoints'
                    /\ \A kind \in {"qfx", "comparison", "report"} : plan \in records'[kind]
  BY DEF FinalizedInv, FinalizedWhole, Has, Kind
<1>0. MovingType
  BY TypeParts
<1>1. /\ plan \in ToSet(plans) /\ Held(plan) = {}
      /\ \A p \in Correlate(plan) : <<plan, p>> \in endpoints
      /\ \A kind \in {"qfx", "comparison", "report"} : plan \in records[kind]
  <2>1. CASE plan \in records["cleanup"]
    BY <2>1 DEF FinalizedInv, FinalizedWhole, Has, Kind
  <2>2. CASE Finalize
    <3>1. records'["cleanup"] = records["cleanup"] \cup {Newest} /\ Newest \in ToSet(plans)
      BY <2>2, RecordsFacts, WriteEffects DEF Records, Kind
    <3>2. /\ Has("qfx", Newest) /\ Has("comparison", Newest) /\ Has("report", Newest)
          /\ Held(Newest) = {} /\ Open(Newest) = {}
      BY <2>2, OfferedFacts DEF Finalize, PreCleanup
    <3>3. QED
      BY <2>1, <3>1, <3>2 DEF Has, Open
  <2>3. CASE ~Finalize
    BY <2>1, <2>3, RecordsKept DEF Records, Kind
  <2>4. QED
    BY <2>2, <2>3
<1>2. QED
  BY <1>1, PlanKept, PlansGrow, RecordsGrow DEF Kind

(* The cleanup of a migration is committed only when nothing of its plan   *)
(* was left behind, and no later discovery makes that untrue.              *)
THEOREM FinalizedSafety == Spec => []FinalizedWhole
<1>1. Init => FinalizedInv
  BY DEF Init, FinalizedInv, FinalizedWhole, Kind
<1>2. FinalizedInv => FinalizedWhole
  BY DEF FinalizedInv
<1>3. QED
  BY <1>1, <1>2, FinalizedStep, NewestInvariant, PTL DEF Spec
=============================================================================
