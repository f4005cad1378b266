------------------------------- MODULE Nudges -------------------------------
(***************************************************************************)
(* nudging.py and campaigns.py: nudges generated from a study's use cases, *)
(* kept in one file per study and decided by people; campaigns launched    *)
(* over the network index and marked sent.  The routes run one at a time   *)
(* on the server's event loop, each reads its file and writes it back; the *)
(* use cases are edited offline.                                           *)
(***************************************************************************)
EXTENDS Naturals, FiniteSets, Functions

CONSTANTS
  UseCases,       \* the use cases of a study
  People,
  Campaigns,      \* what a campaign is named by: name and entity
  MaxSteps,       \* bound on the calls
  LastSecond      \* bound on the clock

ASSUME NudgesAssumption == LastSecond \in Nat \ {0} /\ MaxSteps \in Nat

VARIABLES
  inventory,   \* 05b: the use cases by what the generators look for
  nudges,      \* 06e: nudge id -> its record
  campaigns,   \* campaigns.jsonl: campaign id -> its record
  clock,       \* seconds
  story        \* history, see NudgesInit

nudgesVars == <<inventory, nudges, campaigns, clock, story>>

NudgesTypeOK ==
  /\ inventory.family \subseteq UseCases /\ inventory.repeatable \subseteq UseCases
  /\ inventory.told \subseteq UseCases /\ inventory.edges \subseteq UseCases \X UseCases
  /\ \A n \in DOMAIN nudges : nudges[n].status \in {"hypothesis", "accepted", "rejected"}
  /\ \A i \in DOMAIN campaigns : campaigns[i].status \in {"draft", "sent", "recorded"}
  /\ clock \in 1..LastSecond

NudgesInit ==
  /\ inventory \in [repeatable : {{}, UseCases}, family : {UseCases}, told : {{}, UseCases},
                     edges : {{}} \cup {{v} : v \in UseCases \X UseCases}]
  /\ nudges = <<>> /\ campaigns = <<>>
  /\ clock = 1
  /\ story = [steps |-> 0,
              decided |-> <<>>,     \* the first decision on each nudge
              read |-> {},          \* nudges whose falsifier was acknowledged
              redone |-> {},        \* of those, the ones regenerated since while open
              sent |-> {},          \* campaigns marked sent
              relaunched |-> {}]    \* those launched again in their second

StepsLeft == story.steps < MaxSteps
Step == [story EXCEPT !.steps = @ + 1]

(* Skills rewrite the inventory; every mark is a use case not retired.     *)
EditInventory(field, v) ==
  /\ StepsLeft /\ inventory[field] # v
  /\ inventory' = [inventory EXCEPT ![field] = v]
  /\ story' = Step
  /\ UNCHANGED <<nudges, campaigns, clock>>

(***************************************************************************)
(* nudging.py: an id is made of the mode and of the use cases named        *)
(***************************************************************************)
Modes == {"productivization", "upsell_dependency", "cross_sell_package"}
Productivization == {<<"productivization", {u}, {u}>> : u \in inventory.repeatable}
Upsell == {<<"upsell_dependency", {e[1]}, {e[2]}>> : e \in {d \in inventory.edges : d[1] # d[2]}}
CrossSell == IF Cardinality(inventory.family) > 1 /\ inventory.family \cap inventory.told # {}
             THEN {<<"cross_sell_package", inventory.family, inventory.family>>} ELSE {}
Generated(mode) == {n \in Productivization \cup Upsell \cup CrossSell : mode \in {n[1], "all"}}

Fresh == [status |-> "hypothesis", by |-> "nobody", acknowledged |-> FALSE]
Decided(r) == r.status # "hypothesis"

(* A decision is kept; what is still open is replaced, an acknowledgement  *)
(* with it; nothing is deleted.                                            *)
MergePersisted(kept, fresh) ==
  [n \in DOMAIN kept \cup fresh |->
     IF n \in DOMAIN kept /\ (n \notin fresh \/ Decided(kept[n])) THEN kept[n] ELSE Fresh]
Redone(fresh) == story.read \cap {n \in fresh \cap DOMAIN nudges : ~Decided(nudges[n])}

Generate(mode) ==
  /\ StepsLeft
  /\ nudges' = MergePersisted(nudges, Generated(mode))
  /\ story' = [Step EXCEPT !.redone = @ \cup Redone(Generated(mode))]
  /\ UNCHANGED <<inventory, campaigns, clock>>

(* The board is built from the same call, with every mode.                 *)
BuildBoard == Generate("all")

(* The first decision stands: the same again changes nothing, the other is *)
(* refused.                                                                *)
Decide(n, decision, p) ==
  /\ StepsLeft
  /\ n \in DOMAIN nudges /\ ~Decided(nudges[n])
  /\ nudges' = [nudges EXCEPT ![n].status = decision, ![n].by = p]
  /\ story' = [Step EXCEPT !.decided = [m \in DOMAIN @ \cup {n} |-> IF m \in DOMAIN @ THEN @[m] ELSE <<decision, p>>]]
  /\ UNCHANGED <<inventory, campaigns, clock>>

AcknowledgeFalsifier(n) ==
  /\ StepsLeft
  /\ n \in DOMAIN nudges
  /\ nudges' = [nudges EXCEPT ![n].acknowledged = TRUE]
  /\ story' = [Step EXCEPT !.read = @ \cup {n}, !.redone = @ \ {n}]
  /\ UNCHANGED <<inventory, campaigns, clock>>

(***************************************************************************)
(* campaigns.py: an id is made of what is launched and of the second       *)
(***************************************************************************)
SaveCampaign(id, r) == campaigns' = [i \in DOMAIN campaigns \cup {id} |-> IF i = id THEN r ELSE campaigns[i]]
CampaignId(what) == <<what, clock>>

LaunchProspecting(what, p) ==
  LET id == CampaignId(what)
  IN /\ StepsLeft
     /\ SaveCampaign(id, [status |-> "draft", by |-> p, at |-> clock])
     /\ story' = [Step EXCEPT !.relaunched = @ \cup {i \in story.sent : i = id /\ campaigns[i].at = clock}]
     /\ UNCHANGED <<inventory, nudges, clock>>

MarkCampaignSent(id, p) ==
  /\ StepsLeft
  /\ id \in DOMAIN campaigns /\ campaigns[id].status = "draft"
  /\ SaveCampaign(id, [campaigns[id] EXCEPT !.status = "sent", !.by = p])
  /\ story' = [Step EXCEPT !.sent = @ \cup {id}, !.relaunched = @ \ {id}]
  /\ UNCHANGED <<inventory, nudges, clock>>

(* The nudges of one mode are generated, then the event is recorded.       *)
PrepareCrossSell(p) ==
  /\ StepsLeft
  /\ nudges' = MergePersisted(nudges, Generated("cross_sell_package"))
  /\ SaveCampaign(<<"cross_sell", p, clock>>, [status |-> "recorded", by |-> p, at |-> clock])
  /\ story' = [Step EXCEPT !.redone = @ \cup Redone(Generated("cross_sell_package"))]
  /\ UNCHANGED <<inventory, clock>>

SecondPasses ==
  /\ clock < LastSecond
  /\ clock' = clock + 1
  /\ UNCHANGED <<inventory, nudges, campaigns, story>>

NudgesNext ==
  \/ \E field \in {"repeatable", "family", "told"}, v \in SUBSET UseCases : EditInventory(field, v)
  \/ \E v \in SUBSET (UseCases \X UseCases) : Cardinality(v) <= 1 /\ EditInventory("edges", v)
  \/ \E mode \in Modes : Generate(mode)
  \/ BuildBoard
  \/ \E n \in DOMAIN nudges, decision \in {"accepted", "rejected"}, p \in People : Decide(n, decision, p)
  \/ \E n \in DOMAIN nudges : AcknowledgeFalsifier(n)
  \/ \E what \in Campaigns, p \in People : LaunchProspecting(what, p)
  \/ \E id \in DOMAIN campaigns, p \in People : MarkCampaignSent(id, p)
  \/ \E p \in People : PrepareCrossSell(p)
  \/ SecondPasses

(***************************************************************************)
(* Properties                                                              *)
(***************************************************************************)
(* The first decision on a nudge is the one on file, whatever is decided,  *)
(* generated or edited after it (_decide, _merge_persisted).               *)
FirstDecisionStands ==
  \A n \in DOMAIN story.decided :
    n \in DOMAIN nudges /\ <<nudges[n].status, nudges[n].by>> = story.decided[n]

(* An acknowledged falsifier stays acknowledged unless the nudge, still    *)
(* open, was generated again: that, and the mere display of the board,     *)
(* replaces the record (_merge_persisted, build_board).                    *)
AcknowledgedUntilRegenerated ==
  \A n \in story.read \ story.redone : n \in DOMAIN nudges /\ nudges[n].acknowledged

(* A campaign marked sent is sent unless the same one was launched again   *)
(* within its second: that makes a draft of it (launch, _save_campaign).   *)
SentUnlessRelaunched ==
  \A id \in story.sent \ story.relaunched : id \in DOMAIN campaigns /\ campaigns[id].status = "sent"
=============================================================================
