---------------------------- MODULE MCAcquisition ----------------------------
(* Threads, entities, URLs and texts matter only by identity.  Idle holds a *)
(* CHOOSE of an entity and a hit, so only the threads are permuted.         *)
EXTENDS Acquisition, TLC

(* Evidence and mappings stay in step: none without the other but by a     *)
(* request cut short between its two writes (acquire_linkedin_route).      *)
EvidenceAndMappingsAgree == MappingsRestOnEvidence /\ OnlyFaultsOrphanEvidence

Symmetry == Permutations(Requests)
=============================================================================
