--------------------------- MODULE MigrationIntent ---------------------------
(***************************************************************************)
(* What a migration is planned from: discovery of the old EX4300, the      *)
(* analyzer over all eligible collections, the review of its findings, and *)
(* the planner.  Every step writes a new immutable record; nothing is ever *)
(* taken back, and later steps pick the records they use.                  *)
(*                                                                         *)
(* Evidence sets, analyses and plans are named by the digests of what they *)
(* are made of; here each is the set of collections it is made of.         *)
(***************************************************************************)
EXTENDS Integers, Sequences, SequencesExt

CONSTANTS
    Port,           \* ports of the EX4300 that are in use
    Mac,            \* clients
    Vlan,           \* VLANs the EX4300 may have configured
    Nowhere,        \* a client that is not learned
    Observation,    \* what one discovery run may find
    MaxCollections  \* bound: discovery runs

Mode == {"access",      \* access port with a data VLAN
         "unassigned",  \* access port without one
         "uplink"}      \* trunk or member of an aggregate

ObservationType == [mode : [Port -> Mode], learned : [Mac -> Port \cup {Nowhere}],
                    vlans : SUBSET Vlan, management : {"one", "other"},
                    eligible : BOOLEAN]

ASSUME ObservationAssumption == Observation \subseteq ObservationType
ASSUME NowhereAssumption == Nowhere \notin Port
ASSUME CollectionsAssumption == MaxCollections \in Nat

VARIABLES
    collections,  \* old-switch/collections, oldest first
    reviews,      \* analyses with the result of their review, oldest first
    plans         \* approved plans, oldest approval first

intent == <<collections, reviews, plans>>

Ids == DOMAIN collections
Evidence == SUBSET (1 .. MaxCollections)
Result == {"NOT_REQUIRED", "ACCEPTED", "ACTION_REQUIRED"}

-----------------------------------------------------------------------------
(* The composite of a set e of collections                                 *)

Eligible == {i \in Ids : collections[i].eligible}

(* The latest collection is the configuration; the MACs are all that were  *)
(* ever learned, by the mode the port had at the time.                     *)
Current(e) == collections[CHOOSE i \in e : \A j \in e : j <= i]
AccessPorts(e) == {p \in Port : Current(e).mode[p] # "uplink"}
History(e, p) == {m \in Mac : \E i \in e : collections[i].learned[m] = p}
LearnedLately(e, p) ==          \* mutant: only the latest collection's clients
    {m \in Mac : Current(e).learned[m] = p /\ Current(e).mode[p] # "uplink"}
Learned(e, p) == {m \in Mac : \E i \in e : /\ collections[i].learned[m] = p
                                           /\ collections[i].mode[p] # "uplink"}

Silent(e) == {p \in AccessPorts(e) : Learned(e, p) = {}}
Unexplained(e) == {p \in Silent(e) : Current(e).mode[p] = "unassigned" \/ History(e, p) = {}}
Moved(e) == {m \in Mac : \E p, q \in AccessPorts(e) :
                            p # q /\ m \in Learned(e, p) \cap Learned(e, q)}
Changed(e) == \E i, j \in e : \/ collections[i].mode # collections[j].mode
                              \/ collections[i].vlans # collections[j].vlans
Blocked(e) == \E i, j \in e : collections[i].management # collections[j].management

-----------------------------------------------------------------------------
(* Review.  The history of a configured port that is silent now is          *)
(* accepted without asking, a changed configuration can be accepted; any    *)
(* other silent port, and a client seen on two ports, can only be put off.  *)

ReviewResults(e) ==
    IF Unexplained(e) \cup Moved(e) # {} THEN {"ACTION_REQUIRED"}
    ELSE IF Changed(e) THEN {"ACCEPTED", "ACTION_REQUIRED"}
    ELSE IF Silent(e) # {} THEN {"ACCEPTED"}
    ELSE {"NOT_REQUIRED"}

Review(e, result) == [evidence |-> e, result |-> result]
Reviewed(e) == \E r \in ToSet(reviews) : r.evidence = e
Accepted(e) == \E r \in ToSet(reviews) : r.evidence = e /\ r.result # "ACTION_REQUIRED"

-----------------------------------------------------------------------------
(* The plan: what becomes of each access port                              *)

(* MACs whose history on the ports that serve endpoints now is this port   *)
Safe(e, p) == {m \in History(e, p) : \A q \in AccessPorts(e) : m \in History(e, q) => q = p}

Correlate(e) == {p \in AccessPorts(e) :
                    \/ p \notin Silent(e) /\ Learned(e, p) \cap Moved(e) = {}
                    \/ Current(e).mode[p] = "access" /\ Safe(e, p) # {}}
Held(e) == AccessPorts(e) \ Correlate(e)

-----------------------------------------------------------------------------
IntentInit == collections = <<>> /\ reviews = <<>> /\ plans = <<>>

Collect(o) == /\ Len(collections) < MaxCollections
              /\ collections' = Append(collections, o)

(* One analysis of everything eligible; a review once made is reused, and  *)
(* so can never be decided differently.                                    *)
AnalyzeAll == /\ Eligible # {} /\ ~Reviewed(Eligible)
              /\ \E result \in ReviewResults(Eligible) :
                   reviews' = Append(reviews, Review(Eligible, result))
              /\ UNCHANGED <<collections, plans>>

(* The operator picks one of the accepted analyses; a plan approved before *)
(* keeps its place.                                                        *)
BuildPlan(e) == /\ Accepted(e) /\ ~Blocked(e)
                /\ e \notin ToSet(plans)
                /\ plans' = Append(plans, e)
                /\ UNCHANGED <<collections, reviews>>

(* choose_approved_plan: what every later command works on                 *)
Newest == Last(plans)

IntentType == /\ collections \in Seq(Observation) /\ Len(collections) <= MaxCollections
              /\ reviews \in Seq([evidence : Evidence, result : Result])
              /\ plans \in Seq(Evidence)
=============================================================================
