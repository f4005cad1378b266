----------------------------- MODULE Acquisition -----------------------------
(***************************************************************************)
(* What the three acquisition routes do with the candidates of a harvest:  *)
(* discover_search_route turns them into signals, acquire_evidence_route   *)
(* into evidence of a company, acquire_linkedin_route into evidence and an *)
(* identity mapping of a person.  The routes run in a thread pool.  Each   *)
(* looks for a record of the same thing and writes a new one only if there *)
(* is none: two file operations, each one step (ArtifactStore).            *)
(***************************************************************************)
EXTENDS Naturals, FiniteSets, Sequences

CONSTANTS
  Requests,      \* request threads
  Entities,      \* companies and persons
  Locators,      \* URLs of hits
  Excerpts,      \* texts of hits
  Kinds,         \* the routes called
  MaxRequests,   \* bound on the requests made
  MaxHits,       \* bound on the candidates of one harvest
  MaxCuts        \* bound on requests cut short by a crash or a store error

ASSUME AcquisitionAssumption ==
  /\ IsFiniteSet(Requests)
  /\ Kinds \subseteq {"discover", "acquire", "identify"}
  /\ MaxRequests \in Nat
  /\ MaxHits \in Nat
  /\ MaxCuts \in Nat

VARIABLES
  signals, evidence, mappings,   \* the three stores, in order of creation
  request,                       \* request[q]: the local state of a route
  replies,                       \* history: <<kind, entity, index>> of records returned
  requests, cuts

acquisitionVars == <<signals, evidence, mappings, request, replies, requests, cuts>>
stores == <<signals, evidence, mappings>>

(* EvidenceCandidate, by what identifies it.  Of the three identities a    *)
(* route looks for, dedup_key takes the whole hit, the evidence hash only  *)
(* the excerpt and external_subject_ref only the locator.                  *)
Hits == [locator : Locators, excerpt : Excerpts]

Evidence == [hit : Hits, entity : Entities, origin : {"acquire", "identify"}]
Mappings == [ref : Locators, entity : Entities, evidence : Nat \ {0}]

Steps == {"idle", "next", "find", "put_signal", "put_evidence", "put_mapping"}

AcquisitionTypeOK ==
  /\ signals \in Seq(Hits)
  /\ evidence \in Seq(Evidence)
  /\ mappings \in Seq(Mappings)
  /\ \A q \in Requests :
       LET r == request[q] IN
       /\ r.pc \in Steps
       /\ r.pc # "idle" => r.kind \in Kinds /\ r.entity \in Entities
       /\ r.pc \in Steps \ {"idle", "next"} => r.hit \in Hits
       /\ r.pc = "put_mapping" => r.evidence \in DOMAIN evidence
       /\ r.left \in 0..MaxHits
       /\ r.seen \in SUBSET Hits
  /\ requests \in 0..MaxRequests
  /\ cuts \in 0..MaxCuts

Idle == [pc |-> "idle", kind |-> "discover", entity |-> CHOOSE e \in Entities : TRUE,
         hit |-> CHOOSE h \in Hits : TRUE, seen |-> {}, evidence |-> 0, left |-> 0]

AcquisitionInit ==
  /\ signals = <<>> /\ evidence = <<>> /\ mappings = <<>>
  /\ request = [q \in Requests |-> Idle]
  /\ replies = {}
  /\ requests = 0
  /\ cuts = 0

AtStep(q, pc) == request[q].pc = pc
GoOn(q, pc) == request' = [request EXCEPT ![q].pc = pc]
Kind(q) == request[q].kind
Hit(q) == request[q].hit
Reply(q, i) == replies' = replies \cup {<<Kind(q), request[q].entity, i>>}

(***************************************************************************)
(* The request, up to the loop over harvest.candidates: entity is the      *)
(* company of the research case or the person of the stakeholder.          *)
(***************************************************************************)
Begin(q, kind, entity) ==
  /\ AtStep(q, "idle")
  /\ requests < MaxRequests
  /\ requests' = requests + 1
  /\ request' = [request EXCEPT ![q] =
       [Idle EXCEPT !.pc = "next", !.kind = kind, !.entity = entity, !.left = MaxHits]]
  /\ UNCHANGED <<stores, replies, cuts>>

(* The next candidate; discover skips one whose dedup_key it has seen.     *)
NextCandidate(q, hit) ==
  /\ AtStep(q, "next")
  /\ request[q].left > 0
  /\ request' = [request EXCEPT
       ![q].left = @ - 1,
       ![q].hit = hit,
       ![q].seen = IF Kind(q) = "discover" THEN @ \cup {hit} ELSE @,
       ![q].pc = IF hit \in request[q].seen THEN "next" ELSE "find"]
  /\ UNCHANGED <<stores, replies, requests, cuts>>

(* The harvest has no further candidate: the response is sent.             *)
Return(q) ==
  /\ AtStep(q, "next")
  /\ request' = [request EXCEPT ![q] = Idle]
  /\ UNCHANGED <<stores, replies, requests, cuts>>

(***************************************************************************)
(* The look-ups                                                            *)
(***************************************************************************)
FindByDedupKey(hit) == {i \in DOMAIN signals : signals[i] = hit}

(* The hash of the excerpt, whatever the entity.                           *)
FindByHash(hit) == {i \in DOMAIN evidence : evidence[i].hit.excerpt = hit.excerpt}

FindByExternalSubjectRef(hit) == {i \in DOMAIN mappings : mappings[i].ref = hit.locator}

Existing(q) ==
  CASE Kind(q) = "discover" -> FindByDedupKey(Hit(q))
    [] Kind(q) = "acquire"  -> FindByHash(Hit(q))
    [] OTHER                -> FindByExternalSubjectRef(Hit(q))

Found(q) ==
  /\ AtStep(q, "find")
  /\ \E i \in Existing(q) : Reply(q, i)
  /\ GoOn(q, "next")
  /\ UNCHANGED <<stores, requests, cuts>>

(* The mapping written before the evidence it rests on.                    *)
MappingFirst(q) ==
  CASE Kind(q) = "discover" -> "put_signal"
    [] Kind(q) = "acquire"  -> "put_evidence"
    [] OTHER                -> "put_mapping"

FirstWrite(q) == IF Kind(q) = "discover" THEN "put_signal" ELSE "put_evidence"

(* The continue after a record was found left out.                         *)
WriteAnyway(q) ==
  /\ AtStep(q, "find")
  /\ GoOn(q, FirstWrite(q))
  /\ UNCHANGED <<stores, replies, requests, cuts>>

NotFound(q) ==
  /\ AtStep(q, "find")
  /\ Existing(q) = {}
  /\ GoOn(q, FirstWrite(q))
  /\ UNCHANGED <<stores, replies, requests, cuts>>

(***************************************************************************)
(* The writes.  A new record has a fresh uuid4: put_* only ever adds it.   *)
(***************************************************************************)
PutSignal(q) ==
  /\ AtStep(q, "put_signal")
  /\ signals' = Append(signals, Hit(q))
  /\ Reply(q, Len(signals) + 1)
  /\ GoOn(q, "next")
  /\ UNCHANGED <<evidence, mappings, requests, cuts>>

PutEvidence(q) ==
  /\ AtStep(q, "put_evidence")
  /\ evidence' = Append(evidence,
       [hit |-> Hit(q), entity |-> request[q].entity, origin |-> Kind(q)])
  /\ IF Kind(q) = "acquire"
     THEN /\ Reply(q, Len(evidence) + 1)
          /\ GoOn(q, "next")
     ELSE /\ request' = [request EXCEPT ![q].pc = "put_mapping",
                                        ![q].evidence = Len(evidence) + 1]
          /\ UNCHANGED replies
  /\ UNCHANGED <<signals, mappings, requests, cuts>>

PutMapping(q) ==
  /\ AtStep(q, "put_mapping")
  /\ mappings' = Append(mappings,
       [ref |-> Hit(q).locator, entity |-> request[q].entity,
        evidence |-> request[q].evidence])
  /\ Reply(q, Len(mappings) + 1)
  /\ GoOn(q, "next")
  /\ UNCHANGED <<signals, evidence, requests, cuts>>

(* The process dies, or a store call raises.                               *)
Interrupted(q) ==
  /\ ~AtStep(q, "idle")
  /\ cuts < MaxCuts
  /\ cuts' = cuts + 1
  /\ request' = [request EXCEPT ![q] = Idle]
  /\ UNCHANGED <<stores, replies, requests>>

(* Every request is answered and no more are made.                         *)
AllAnswered ==
  /\ requests = MaxRequests
  /\ \A q \in Requests : AtStep(q, "idle")
  /\ UNCHANGED acquisitionVars

AcquisitionNext ==
  \/ \E q \in Requests :
       \/ \E kind \in Kinds, entity \in Entities : Begin(q, kind, entity)
       \/ \E hit \in Hits : NextCandidate(q, hit)
       \/ Return(q)
       \/ Found(q)
       \/ NotFound(q)
       \/ PutSignal(q)
       \/ PutEvidence(q)
       \/ PutMapping(q)
       \/ Interrupted(q)
  \/ AllAnswered

AcquisitionSpec == AcquisitionInit /\ [][AcquisitionNext]_acquisitionVars

(***************************************************************************)
(* Properties                                                              *)
(***************************************************************************)
SameSignal(hit) == {i \in DOMAIN signals : signals[i] = hit}
SameMapping(hit) == {i \in DOMAIN mappings : mappings[i].ref = hit.locator}
SameAcquired(hit) ==
  {i \in DOMAIN evidence : evidence[i].hit.excerpt = hit.excerpt /\ evidence[i].origin = "acquire"}

(* Looking first and writing second makes as many copies of a record as    *)
(* there are requests at work at once, however many are made: none when    *)
(* requests come one at a time, through crashes and retries.               *)
CopiesBoundedByConcurrency ==
  \A hit \in Hits :
    /\ Cardinality(SameSignal(hit)) <= Cardinality(Requests)
    /\ Cardinality(SameMapping(hit)) <= Cardinality(Requests)
    /\ Cardinality(SameAcquired(hit)) <= Cardinality(Requests)

(* A mapping names evidence that is stored and that is about the same      *)
(* profile and the same person, whatever is cut short.                     *)
MappingsRestOnEvidence ==
  \A i \in DOMAIN mappings :
    LET m == mappings[i] IN
    /\ m.evidence \in DOMAIN evidence
    /\ evidence[m.evidence].hit.locator = m.ref
    /\ evidence[m.evidence].entity = m.entity

(* Evidence written for a mapping that does not exist (yet).               *)
Orphans ==
  {i \in DOMAIN evidence :
     evidence[i].origin = "identify" /\ \A j \in DOMAIN mappings : mappings[j].evidence # i}

(* No evidence is left without its mapping but by a request cut short      *)
(* between the two writes.                                                 *)
OnlyFaultsOrphanEvidence ==
  Cardinality(Orphans) <= cuts + Cardinality({q \in Requests : AtStep(q, "put_mapping")})

(* As the docstring of acquire_evidence_route has it: what it answers with *)
(* is evidence of the case's company.                                      *)
AcquiredForTheCompany ==
  \A reply \in replies : reply[1] = "acquire" => evidence[reply[3]].entity = reply[2]
=============================================================================
