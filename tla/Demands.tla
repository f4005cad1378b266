------------------------------ MODULE Demands ------------------------------
(***************************************************************************)
(* One demand of a workspace: the lifecycle functions of                   *)
(* demand_lifecycle.py and the links of demand_evidence.py, each computed  *)
(* on the record a person read (get_demand) and saved by update_demand     *)
(* under the version it was read at, beside the POST and PATCH routes,     *)
(* which store what the request says without asking the lifecycle.  The    *)
(* steps inside update_demand are VersionedStore's.                        *)
(*                                                                         *)
(* Of the eight knowable dimensions the model keeps the one the checklist  *)
(* names and one for the buying signals, any of which will do.             *)
(***************************************************************************)
EXTENDS Naturals, FiniteSets

CONSTANTS
  Editors,          \* people working on the demand
  ClaimIds,
  MaxDemandSaves    \* bound on the versions of the demand

ASSUME DemandAssumption == MaxDemandSaves \in Nat \ {0}

VARIABLES
  demand,     \* the stored record, version 0 when there is none
  draft,      \* draft[e]: what e made of the record read, until saved
  retired,    \* the claims no longer active
  byHand      \* history: a PATCH or POST wrote the status or a dimension
              \* of a demand that is, or so becomes, qualified

demandVars == <<demand, draft, retired, byHand>>

Dimensions == {"problem", "buying signal"}
DemandTransitions ==
  {<<"observed", "qualifying">>, <<"observed", "rejected">>,
   <<"qualifying", "qualified">>, <<"qualifying", "rejected">>,
   <<"qualified", "stale">>, <<"rejected", "reopened">>, <<"stale", "reopened">>,
   <<"reopened", "qualifying">>, <<"reopened", "rejected">>}
DemandStatuses == {move[1] : move \in DemandTransitions}

Demand == [status : DemandStatuses, known : SUBSET Dimensions, claims : SUBSET ClaimIds,
           version : 0..MaxDemandSaves]
NoDemand == [status |-> "observed", known |-> {}, claims |-> {}, version |-> 0]
NoDraft == [open |-> FALSE, body |-> NoDemand]

DemandTypeOK ==
  /\ demand \in Demand
  /\ draft \in [Editors -> [open : BOOLEAN, body : Demand]]
  /\ retired \subseteq ClaimIds
  /\ byHand \in BOOLEAN

DemandInit ==
  /\ demand = NoDemand
  /\ draft = [e \in Editors |-> NoDraft]
  /\ retired = {}
  /\ byHand = FALSE

(***************************************************************************)
(* Computed on a record                                                    *)
(***************************************************************************)
ChecklistPasses(d) == d.known = Dimensions

CanMove(d, status) == <<d.status, status>> \in DemandTransitions

(* A resolver is offered exactly for what the checklist misses.            *)
Missing(d) == Dimensions \ d.known

(* A status flip that asks for the transition only.                        *)
FlipStatus(d, status) == CanMove(d, status)

(* qualify_demand runs the checklist; every other move asks for the        *)
(* transition (and for a reason that is not blank).                        *)
MayMove(d, status) ==
  /\ CanMove(d, status)
  /\ status = "qualified" => ChecklistPasses(d)

LinkClaim(d, c) == [d EXCEPT !.claims = @ \cup {c}]
UnlinkClaim(d, c) == [d EXCEPT !.claims = @ \ {c}]

ActiveClaims(d) == d.claims \ retired
CompleteProvenance(d) == d.known = {} \/ ActiveClaims(d) # {}
StaleProvenance(d) == d.claims # {} /\ ActiveClaims(d) = {}

(***************************************************************************)
(* The store and the routes                                                *)
(***************************************************************************)
Exists == demand.version > 0

(* POST takes the body as it comes; a migrated profile is observed.        *)
PostDemand(status, known) ==
  /\ ~Exists
  /\ demand' = [NoDemand EXCEPT !.status = status, !.known = known, !.version = 1]
  /\ byHand' = (byHand \/ status = "qualified")
  /\ UNCHANGED <<draft, retired>>

(* update_demand refuses a version that is no longer the stored one.       *)
Saved(body) ==
  /\ body.version = demand.version
  /\ demand.version < MaxDemandSaves
  /\ demand' = [body EXCEPT !.version = @ + 1]

(* PATCH merges its fields into the current record.                        *)
PatchDemand(status, known) ==
  /\ Exists
  /\ Saved([demand EXCEPT !.status = status, !.known = known])
  /\ byHand' = (byHand \/ (status = "qualified" /\ <<status, known>> # <<demand.status, demand.known>>))
  /\ UNCHANGED <<draft, retired>>

(* A change computed on the record just read.                              *)
Prepared(e, body) ==
  /\ Exists
  /\ draft' = [draft EXCEPT ![e] = [open |-> TRUE, body |-> body]]
  /\ UNCHANGED <<demand, retired, byHand>>

Move(e, status) == MayMove(demand, status) /\ Prepared(e, [demand EXCEPT !.status = status])
Link(e, c) == Prepared(e, LinkClaim(demand, c))
Unlink(e, c) == Prepared(e, UnlinkClaim(demand, c))

SaveDraft(e) ==
  /\ draft[e].open
  /\ \/ Saved(draft[e].body)
     \/ draft[e].body.version # demand.version /\ UNCHANGED demand
  /\ draft' = [draft EXCEPT ![e] = NoDraft]
  /\ UNCHANGED <<retired, byHand>>

(* The claim is superseded or retracted; the demand does not change.       *)
RetireClaim(c) ==
  /\ retired' = retired \cup {c}
  /\ UNCHANGED <<demand, draft, byHand>>

DemandNext ==
  \/ \E status \in DemandStatuses, known \in SUBSET Dimensions :
       PostDemand(status, known) \/ PatchDemand(status, known)
  \/ \E e \in Editors :
       \/ \E status \in DemandStatuses : Move(e, status)
       \/ \E c \in ClaimIds : Link(e, c) \/ Unlink(e, c)
       \/ SaveDraft(e)
  \/ \E c \in ClaimIds : RetireClaim(c)

(***************************************************************************)
(* Properties                                                              *)
(***************************************************************************)
(* qualify_demand is the only path of the lifecycle to qualified, through  *)
(* every reopening and whoever saves in between: a qualified demand knows  *)
(* its problem and a buying signal and has no resolver to offer, unless a  *)
(* POST or PATCH wrote a qualified demand itself.                          *)
QualifiedStoodTheChecklist ==
  demand.status = "qualified" /\ ~byHand => Missing(demand) = {}

(* The two provenance questions of demand_evidence.py never answer that a  *)
(* demand that knows something is both grounded and rotten.                *)
StaleIsNotComplete ==
  StaleProvenance(demand) /\ CompleteProvenance(demand) => demand.known = {}

=============================================================================
