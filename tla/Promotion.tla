----------------------------- MODULE Promotion -----------------------------
(***************************************************************************)
(* catalog.py and catalog_promotion.py: candidates are staged in harvest   *)
(* documents of their own, promoted by hand to an offer sheet and an entry *)
(* of index.yaml, and sheets are edited.  The routes run one at a time on  *)
(* the server's event loop; the two files of a promotion are written one   *)
(* after the other, and the server may stop between any two steps.         *)
(***************************************************************************)
EXTENDS Naturals, Sequences, FiniteSets

CONSTANTS
  OfferIds,
  MaxPromotions        \* bound on the calls begun

ASSUME PromotionAssumption == MaxPromotions \in Nat

VARIABLES
  staged,      \* the candidates of the harvest documents: with or without
               \* a source
  sheet,       \* sheet[o]: the offer file
  index,       \* the offers of index.yaml, in order
  clerk,       \* the call under way
  register     \* history, see PromotionInit

promotionVars == <<staged, sheet, index, clerk, register>>

EditableFields == {"positioning", "problem", "outcomes", "icp", "name", "category"}
ProtectedFields == {"hard_gates", "proof", "offer_id"}

NoSheet == [exists |-> FALSE, epistemic |-> "unknown", edited |-> FALSE]
AtRest == [pc |-> "idle", offer |-> "none", sourced |-> FALSE]

PromotionTypeOK ==
  /\ staged \subseteq BOOLEAN
  /\ \A o \in OfferIds : sheet[o].epistemic \in {"unknown", "vendor_claim", "hypothesis"}
  /\ \A i \in DOMAIN index : index[i] \in OfferIds
  /\ clerk.pc \in {"idle", "sheet", "index"}
  /\ register.calls \in 0..MaxPromotions

PromotionInit ==
  /\ staged = {}
  /\ sheet = [o \in OfferIds |-> NoSheet]
  /\ index = <<>>
  /\ clerk = AtRest
  /\ register = [calls |-> 0,
                 overwrote |-> FALSE,  \* a promotion wrote over a sheet
                 cut |-> FALSE]        \* a promotion stopped half-way

Calling == register.calls < MaxPromotions
Counted == [register EXCEPT !.calls = @ + 1]

(***************************************************************************)
(* Staging                                                                 *)
(***************************************************************************)
(* stage: one malformed item, or an unknown shelf, refuses the whole       *)
(* harvest; a preview is not stored.                                       *)
Stage(items, shelfKnown, persist) ==
  /\ clerk = AtRest
  /\ shelfKnown
  /\ items # {} /\ \A item \in items : item.wellformed
  /\ staged' = IF persist THEN staged \cup {item.sourced : item \in items} ELSE staged
  /\ UNCHANGED <<sheet, index, clerk, register>>

(* discover_public: the hits of a search, each with its address, are       *)
(* staged as above; none is an answer, not an error.                       *)
DiscoverPublic(hits, shelfKnown, persist) ==
  LET items == {[wellformed |-> TRUE, sourced |-> TRUE] : hit \in hits}
  IN IF hits = {} THEN shelfKnown /\ UNCHANGED promotionVars
     ELSE Stage(items, shelfKnown, persist)

(***************************************************************************)
(* Promotion                                                               *)
(***************************************************************************)
Indexed(o) == \E i \in DOMAIN index : index[i] = o

OfferIdUnchecked(o) == o \in OfferIds
OfferIdFree(o) == ~Indexed(o)

(* The candidate stays as it is: it may be promoted again elsewhere.       *)
FindCandidate(sourced) == sourced \in staged

BeginPromotion(sourced, o) ==
  /\ clerk = AtRest /\ Calling
  /\ FindCandidate(sourced)
  /\ OfferIdFree(o)
  /\ clerk' = [AtRest EXCEPT !.pc = "sheet", !.offer = o, !.sourced = sourced]
  /\ register' = Counted
  /\ UNCHANGED <<staged, sheet, index>>

(* A bare name makes a hypothesis, a source a vendor's claim, no more.     *)
EpistemicStatus(sourced) == IF sourced THEN "vendor_claim" ELSE "hypothesis"

WriteSheet ==
  LET o == clerk.offer
  IN /\ clerk.pc = "sheet"
     /\ sheet' = [sheet EXCEPT ![o] = [exists |-> TRUE, edited |-> FALSE,
                                       epistemic |-> EpistemicStatus(clerk.sourced)]]
     /\ clerk' = [clerk EXCEPT !.pc = "index"]
     /\ register' = [register EXCEPT !.overwrote = @ \/ sheet[o].exists]
     /\ UNCHANGED <<staged, index>>

WriteIndex ==
  /\ clerk.pc = "index"
  /\ index' = Append(index, clerk.offer)
  /\ clerk' = AtRest
  /\ UNCHANGED <<staged, sheet, register>>

(***************************************************************************)
(* Editing a sheet                                                         *)
(***************************************************************************)
Editable(fields) == fields # {} /\ fields \subseteq EditableFields

(* Read and written back within one step of the event loop.                *)
UpdateOfferSheet(o, fields) ==
  /\ clerk = AtRest /\ Calling
  /\ Editable(fields)
  /\ Indexed(o)
  /\ sheet' = [sheet EXCEPT ![o].edited = TRUE]
  /\ register' = Counted
  /\ UNCHANGED <<staged, index, clerk>>

ClerkStops ==
  /\ clerk # AtRest
  /\ register' = [register EXCEPT !.cut = @ \/ clerk.pc = "index"]
  /\ clerk' = AtRest
  /\ UNCHANGED <<staged, sheet, index>>

Items == [wellformed : BOOLEAN, sourced : BOOLEAN]

PromotionNext ==
  \/ \E items \in SUBSET Items, shelfKnown, persist \in BOOLEAN :
       Cardinality(items) <= 2 /\ Stage(items, shelfKnown, persist)
  \/ \E hits \in {{}, {"hit"}}, shelfKnown, persist \in BOOLEAN : DiscoverPublic(hits, shelfKnown, persist)
  \/ \E o \in OfferIds :
       \/ \E sourced \in BOOLEAN : BeginPromotion(sourced, o)
       \/ \E fields \in {{"name"}, {"name", "proof"}} : UpdateOfferSheet(o, fields)
  \/ WriteSheet \/ WriteIndex \/ ClerkStops

(***************************************************************************)
(* Properties                                                              *)
(***************************************************************************)
(* The index never names an offer without its sheet, whoever stops or      *)
(* overlaps: the sheet is written first.                                   *)
IndexedOffersHaveSheets == \A o \in OfferIds : Indexed(o) => sheet[o].exists

(* Between calls every sheet is in the index, once, unless a promotion     *)
(* stopped after the sheet.                                                *)
SheetsAreIndexedOnce ==
  register.cut \/ clerk # AtRest
  \/ \A o \in OfferIds : sheet[o].exists =>
       Cardinality({i \in DOMAIN index : index[i] = o}) = 1

(* "Promotion never silently overwrites an existing canonical offer" (the  *)
(* module's docstring): true unless an earlier one stopped before the      *)
(* index, which is all the next one looks at.                              *)
PromotionOverwritesNothing == register.overwrote => register.cut
=============================================================================
