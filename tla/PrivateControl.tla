--------------------------- MODULE PrivateControl ---------------------------
(***************************************************************************)
(* The authorization chain of a private scope                              *)
(* (src/src/PrivateGenesisSignature.ts, src/src/PrivateControlSignature.ts,*)
(* src/src/PrivateOperationSignature.ts) and the proofs that a device is   *)
(* not behind on it (src/src/PrivateFreshnessProof.ts).                    *)
(*                                                                         *)
(* The verifiers keep nothing: each honest device passes in the checkpoint *)
(* it adopted last.  Hashes are injective: the hash of a head or a policy  *)
(* is what was hashed.  A signature is that its key signed this body; what *)
(* a bad key may sign is there from the start.  What docs/ asks of the     *)
(* application is here the honest device: it signs only children of its    *)
(* own checkpoint, one per parent when it is the sequencer, adopts against *)
(* the checkpoint it verified with, and uses each nonce once.              *)
(***************************************************************************)
EXTENDS Naturals, FiniteSets

CONSTANTS
    Honest,         \* device keys whose holders do as documented
    Bad,            \* device keys whose holders sign anything
    Policies,       \* the policies records carry
    Operations,     \* binding hashes of operations
    Messages,       \* MLS commits, by hash
    Owner,          \* the pinned owner of the scope
    Nonces,         \* freshness nonces
    MaxRevision,    \* bound: revisions
    MaxRecords,     \* bound: control records
    None            \* nothing adopted, nothing asked

Keys == Honest \union Bad

\* PrivateAuthorizationPolicyEncoding.validate: the shape a policy must have.
ValidPolicy(policy) ==
    /\ policy.devices # {}
    /\ policy.authorities \subseteq policy.devices
    /\ policy.threshold \in 1..Cardinality(policy.authorities)
    /\ policy.sequencer \in policy.authorities
    /\ policy.freshness \in policy.devices

\* A policy that keeps the scope with its honest devices: as many bad
\* authorities as the threshold, or a bad sequencer, and what a device adopts
\* is theirs to say (docs/private-control-signatures.md, "Remaining
\* application guarantees").
Sound(policy) ==
    /\ policy.sequencer \in Honest
    /\ policy.freshness \in Honest
    /\ Cardinality(policy.authorities \intersect Bad) < policy.threshold

ASSUME KeysAssumption ==
    /\ IsFiniteSet(Keys)
    /\ Honest \intersect Bad = {}
    /\ Owner \in Honest
    /\ None \notin Policies

VARIABLES
    geneses,        \* genesis records signed by their owner
    records,        \* control records someone made
    signatures,     \* which honest key signed which record
    checkpoints,    \* per honest device, the record it adopted last, or None
    adopted,        \* every record some honest device adopted
    requests,       \* per honest device, its freshness request, or None
    proofs,         \* freshness proofs signed by honest devices
    used            \* nonces used

vars == <<geneses, records, signatures, checkpoints, adopted,
          requests, proofs, used>>

----------------------------------------------------------------------------
(* Records *)

\* The hash of the head fields; the message is not one of them.
HeadOf(record) ==
    <<record.revision, record.parent, record.epoch, record.operation,
      record.policy>>

\* PrivateGenesisEncoding.policy: everything is the owner's.
GenesisPolicy(owner, lease) ==
    [devices |-> {owner}, authorities |-> {owner}, threshold |-> 1,
     sequencer |-> owner, freshness |-> owner, lease |-> lease]

\* PrivateGenesisEncoding.validate
Genesis(owner, lease) ==
    LET record == [revision |-> 0, parent |-> None, epoch |-> 0,
                   operation |-> None, policy |-> GenesisPolicy(owner, lease),
                   message |-> None]
    IN  [record |-> record, head |-> HeadOf(record)]

\* PrivateControlEncoding.checkParent
Extends(candidate, checkpoint) ==
    /\ candidate.record.parent = checkpoint.head
    /\ candidate.record.revision = checkpoint.record.revision + 1
    /\ candidate.record.epoch = checkpoint.record.epoch + 1

\* PrivateControlEncoding.checkHashes
HashesMatch(candidate) == candidate.head = HeadOf(candidate.record)

\* Mutant: the operation is taken as the sender names it.
ValidForAny(candidate, checkpoint, operation, message) ==
    /\ Extends(candidate, checkpoint)
    /\ candidate.record.message = message
    /\ ValidPolicy(candidate.record.policy)
    /\ HashesMatch(candidate)
    /\ candidate.record.policy.lease = checkpoint.record.policy.lease

\* PrivateControlEncoding.validate
Valid(candidate, checkpoint, operation, message) ==
    /\ Extends(candidate, checkpoint)
    /\ candidate.record.operation = operation
    /\ candidate.record.message = message
    /\ ValidPolicy(candidate.record.policy)
    /\ HashesMatch(candidate)
    /\ candidate.record.policy.lease = checkpoint.record.policy.lease

\* Whose signatures a record can be shown with.
SignersOf(candidate) ==
    {key \in Honest : <<key, candidate>> \in signatures} \union Bad

\* Mutant: a quorum without the sequencer.
QuorumWithoutSequencer(candidate, policy) ==
    Cardinality(SignersOf(candidate) \intersect policy.authorities)
        >= policy.threshold

\* PrivateControlSignature.checkSignatures: a quorum of the previous
\* policy's authorities, its sequencer among them.
Quorum(candidate, policy) ==
    LET signers == SignersOf(candidate) \intersect policy.authorities
    IN  /\ Cardinality(signers) >= policy.threshold
        /\ policy.sequencer \in signers

\* Mutant: the quorum is that of the policy the record brings.
AuthenticatesItself(candidate, checkpoint, operation, resultingHead, message) ==
    /\ Valid(candidate, checkpoint, operation, message)
    /\ candidate.head = resultingHead
    /\ Quorum(candidate, candidate.record.policy)

\* PrivateControlSignature.authenticate, on an operation that says which
\* head it results in.
Authenticates(candidate, checkpoint, operation, resultingHead, message) ==
    /\ Valid(candidate, checkpoint, operation, message)
    /\ candidate.head = resultingHead
    /\ Quorum(candidate, checkpoint.record.policy)

\* PrivateGenesisSignature.verify
GenesisVerifies(candidate, owner) ==
    /\ candidate \in geneses
    /\ candidate.record.policy.sequencer = owner

Init ==
    /\ geneses = {}
    /\ records = {}
    /\ signatures = {}
    /\ checkpoints = [d \in Honest |-> None]
    /\ adopted = {}
    /\ requests = [d \in Honest |-> None]
    /\ proofs = {}
    /\ used = {}

----------------------------------------------------------------------------
(* The chain *)

\* PrivateGenesisSignature.sign.  The pinned owner signs one; a bad key may
\* make a genesis of its own.
SignGenesis(owner, lease) ==
    /\ owner = Owner => \A g \in geneses : g.record.policy.sequencer # Owner
    /\ owner \in Bad \union {Owner}
    /\ geneses' = geneses \union {Genesis(owner, lease)}
    /\ UNCHANGED <<records, signatures, checkpoints, adopted,
                   requests, proofs, used>>

Pin(d, candidate) ==
    /\ checkpoints[d] = None
    /\ GenesisVerifies(candidate, Owner)
    /\ checkpoints' = [checkpoints EXCEPT ![d] = candidate]
    /\ adopted' = adopted \union {candidate}
    /\ UNCHANGED <<geneses, records, signatures, requests, proofs, used>>

\* Anyone makes a record: a child of any record, of any revision, perhaps
\* naming the head of another.
Propose(parent, revision, operation, message, policy, lies) ==
    /\ Cardinality(records) < MaxRecords
    /\ LET record == [revision |-> revision, parent |-> parent.head,
                      epoch |-> revision, operation |-> operation,
                      policy |-> policy, message |-> message]
       IN  records' = records \union
              {[record |-> record,
                head |-> IF lies THEN parent.head ELSE HeadOf(record)]}
    /\ UNCHANGED <<geneses, signatures, checkpoints, adopted,
                   requests, proofs, used>>

\* An honest authority signs a valid child of its checkpoint that leaves the
\* scope in honest hands; the sequencer has reserved it as the only one.
Sign(d, candidate) ==
    /\ checkpoints[d] # None
    /\ d \in checkpoints[d].record.policy.authorities
    /\ Valid(candidate, checkpoints[d], candidate.record.operation,
             candidate.record.message)
    /\ Sound(candidate.record.policy)
    /\ d = checkpoints[d].record.policy.sequencer =>
        \A s \in signatures : s[1] = d =>
            s[2].record.parent # candidate.record.parent
    /\ signatures' = signatures \union {<<d, candidate>>}
    /\ UNCHANGED <<geneses, records, checkpoints, adopted,
                   requests, proofs, used>>

\* A device is shown a record, an operation with the head it results in, and
\* a commit; it verifies them and adopts the record.
Adopt(d, candidate, operation, resultingHead, message) ==
    /\ checkpoints[d] # None
    /\ Authenticates(candidate, checkpoints[d], operation, resultingHead,
                     message)
    /\ checkpoints' = [checkpoints EXCEPT ![d] =
          [candidate EXCEPT !.record.operation = operation,
                            !.record.message = message]]
    /\ adopted' = adopted \union {checkpoints'[d]}
    /\ UNCHANGED <<geneses, records, signatures, requests, proofs, used>>

----------------------------------------------------------------------------
(* Freshness *)

\* PrivateFreshnessRequest.serialize; `floor` is how far the authority is at
\* this moment, which nobody tells.
Ask(d, nonce) ==
    /\ checkpoints[d] # None
    /\ nonce \notin used
    /\ LET authority == checkpoints[d].record.policy.freshness
       IN  requests' = [requests EXCEPT ![d] =
              [nonce |-> nonce, head |-> checkpoints[d].head,
               revision |-> checkpoints[d].record.revision,
               signer |-> authority,
               floor |-> IF checkpoints[authority] = None THEN 0
                         ELSE checkpoints[authority].record.revision]]
    /\ used' = used \union {nonce}
    /\ UNCHANGED <<geneses, records, signatures, checkpoints, adopted, proofs>>

\* PrivateFreshnessProof.sign: an honest authority vouches for where it is.
Vouch(d, nonce) ==
    /\ checkpoints[d] # None
    /\ d = checkpoints[d].record.policy.freshness
    /\ nonce \in used
    /\ proofs' = proofs \union
          {[nonce |-> nonce, head |-> checkpoints[d].head,
            revision |-> checkpoints[d].record.revision, signer |-> d]}
    /\ UNCHANGED <<geneses, records, signatures, checkpoints, adopted,
                   requests, used>>

\* Mutant: the nonce is not compared.
MatchesAnyNonce(proof, request) ==
    /\ proof.head = request.head
    /\ proof.revision = request.revision

\* PrivateFreshnessProof.matchesRequest
MatchesRequest(proof, request) ==
    /\ proof.nonce = request.nonce
    /\ proof.head = request.head
    /\ proof.revision = request.revision

\* PrivateFreshnessProof.verify
Confirm(d, proof) ==
    /\ requests[d] # None
    /\ proof \in proofs
    /\ proof.signer = requests[d].signer
    /\ MatchesRequest(proof, requests[d])
    /\ requests' = [requests EXCEPT ![d] = None]
    /\ UNCHANGED <<geneses, records, signatures, checkpoints, adopted,
                   proofs, used>>

\* No answer within ten seconds.
GiveUp(d) ==
    /\ requests[d] # None
    /\ requests' = [requests EXCEPT ![d] = None]
    /\ UNCHANGED <<geneses, records, signatures, checkpoints, adopted,
                   proofs, used>>

Next ==
    \/ \E owner \in Keys, policy \in Policies : SignGenesis(owner, policy.lease)
    \/ \E parent \in geneses \union records, revision \in 1..MaxRevision,
          operation \in Operations, message \in Messages, policy \in Policies,
          lies \in BOOLEAN :
        Propose(parent, revision, operation, message, policy, lies)
    \/ \E d \in Honest :
        \/ \E candidate \in geneses : Pin(d, candidate)
        \/ \E candidate \in records :
            \/ Sign(d, candidate)
            \/ \E operation \in Operations, message \in Messages :
                Adopt(d, candidate, operation, candidate.head, message)
        \/ \E nonce \in Nonces : Ask(d, nonce) \/ Vouch(d, nonce)
        \/ \E proof \in proofs : Confirm(d, proof)
        \/ GiveUp(d)

Spec == Init /\ [][Next]_vars

----------------------------------------------------------------------------
(* Properties *)

\* Everything has its type, and every policy in force is one a chain can go
\* on from.
TypeOK ==
    /\ signatures \subseteq Honest \X records
    /\ adopted \subseteq geneses \union records
    /\ checkpoints \in [Honest -> adopted \union {None}]
    /\ \A a \in adopted : ValidPolicy(a.record.policy) /\ Sound(a.record.policy)
    /\ DOMAIN requests = Honest
    /\ \A d \in Honest : requests[d] # None => requests[d].nonce \in used

\* The scope has one chain: honest devices at the same revision adopted the
\* same record, with the same operation and the same commit, whatever was
\* signed, replayed, skipped or mixed (PrivateControlSignature.authenticate).
OneChain ==
    \A a, b \in adopted : a.record.revision = b.record.revision => a = b

\* No honest device adopts what the sequencer of the policy before, who is
\* honest, did not approve, whatever policy the record itself carries and
\* whoever else signed it (checkSignatures).
AdoptedWasApproved ==
    \A a \in adopted : a.record.revision > 0 =>
        \E p \in adopted :
            /\ a.record.parent = p.head
            /\ <<p.record.policy.sequencer, a>> \in signatures
            /\ p.record.policy.sequencer \in Honest

\* A confirmed request was not stale: when it was made, the freshness
\* authority had adopted nothing beyond the checkpoint the device is told is
\* current (PrivateFreshnessProof.verify).
ConfirmedIsCurrent ==
    [][\A d \in Honest :
          requests[d] # None /\ (\E proof \in proofs : Confirm(d, proof)) =>
              requests[d].floor <= requests[d].revision]_vars
=============================================================================
