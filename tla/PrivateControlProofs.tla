------------------------ MODULE PrivateControlProofs ------------------------
(***************************************************************************)
(* Theorems about PrivateControl, for every set of devices, policies,      *)
(* operations and messages: a scope has one chain, and a device that was   *)
(* told it is current was, when it asked.                                  *)
(*                                                                         *)
(* That there is one chain needs more than itself: what an honest key      *)
(* signed extends a record some honest device adopted (SignedChildren),    *)
(* and the sequencer of a record signed one child of it (OnePerParent).    *)
(* The head of a record names its policy, so whoever is the sequencer of   *)
(* one record with a head is the sequencer of every record with it.        *)
(***************************************************************************)
EXTENDS PrivateControl, FiniteSetTheorems, TLAPS

\* The owner pinned one genesis, and every genesis is its owner's alone.
OwnerOnce ==
    /\ \A g \in geneses : \E owner, lease : g = Genesis(owner, lease)
    /\ \A g, h \in geneses :
           g.record.policy.sequencer = Owner
               /\ h.record.policy.sequencer = Owner => g = h

\* Records are of their shape.
RecordsShaped ==
    \A c \in records :
        /\ c = [record |-> c.record, head |-> c.head]
        /\ c.record = [revision |-> c.record.revision,
                       parent |-> c.record.parent,
                       epoch |-> c.record.epoch,
                       operation |-> c.record.operation,
                       policy |-> c.record.policy,
                       message |-> c.record.message]

\* What was adopted names its head as it should; at revision 0 it is the
\* owner's genesis.
AdoptedShaped ==
    \A a \in adopted :
        /\ a.head = HeadOf(a.record)
        /\ a.record.revision \in Nat
        /\ a.record.revision = 0 =>
               a \in geneses /\ a.record.policy.sequencer = Owner

\* What an honest key signed is a child of what some honest device adopted.
SignedChildren ==
    \A s \in signatures :
        /\ ValidPolicy(s[2].record.policy)
        /\ Sound(s[2].record.policy)
        /\ \E k \in adopted :
               /\ s[2].record.parent = k.head
               /\ s[2].record.revision = k.record.revision + 1

\* The sequencer of a record signed one child of it.
OnePerParent ==
    \A s, t \in signatures : \A p \in adopted :
        (/\ s[1] = t[1]
         /\ s[1] = p.record.policy.sequencer
         /\ s[2].record.parent = p.head
         /\ t[2].record.parent = p.head)
            => s = t

\* AdoptedWasApproved, with the revision of the record before.
Approved ==
    \A a \in adopted : a.record.revision > 0 =>
        \E p \in adopted :
            /\ a.record.parent = p.head
            /\ a.record.revision = p.record.revision + 1
            /\ <<p.record.policy.sequencer, a>> \in signatures
            /\ p.record.policy.sequencer \in Honest

ChainInv ==
    /\ TypeOK
    /\ OwnerOnce
    /\ RecordsShaped
    /\ AdoptedShaped
    /\ SignedChildren
    /\ OnePerParent
    /\ Approved
    /\ OneChain

----------------------------------------------------------------------------
(* Lemmas *)

\* The owner's genesis is a policy a chain can go on from.
LEMMA GenesisSound ==
    ASSUME NEW lease
    PROVE  /\ ValidPolicy(GenesisPolicy(Owner, lease))
           /\ Sound(GenesisPolicy(Owner, lease))
<1>1. Cardinality({Owner}) = 1
  BY FS_Singleton
<1>2. {Owner} \intersect Bad = {}
  BY KeysAssumption
<1>3. Cardinality({Owner} \intersect Bad) = 0
  BY <1>2, FS_EmptySet
<1>. QED  BY <1>1, <1>3, KeysAssumption
          DEF ValidPolicy, Sound, GenesisPolicy

\* Two records with one head have one revision and one policy.
LEMMA HeadsNamePolicies ==
    ASSUME NEW a, NEW b, HeadOf(a) = HeadOf(b)
    PROVE  a.revision = b.revision /\ a.policy = b.policy
BY DEF HeadOf

\* Adopted records with one head are one, as a head names revision and all.
LEMMA SameHeadSameRecord ==
    ASSUME ChainInv, NEW a \in adopted, NEW b \in adopted, a.head = b.head
    PROVE  a = b
BY HeadsNamePolicies DEF ChainInv, AdoptedShaped, OneChain

\* What a quorum under an adopted policy shows, its honest sequencer signed.
LEMMA QuorumSigned ==
    ASSUME NEW policy, NEW candidate, Quorum(candidate, policy), Sound(policy)
    PROVE  /\ policy.sequencer \in Honest
           /\ <<policy.sequencer, candidate>> \in signatures
BY KeysAssumption DEF Quorum, SignersOf, Sound

\* At the start nothing was signed or adopted.
LEMMA ChainInit == Init => ChainInv
BY DEF Init, ChainInv, TypeOK, OwnerOnce, RecordsShaped, AdoptedShaped,
       SignedChildren, OnePerParent, Approved, OneChain

----------------------------------------------------------------------------
(* The steps *)

\* The owner signs one genesis; the genesis of another owner pins nobody.
LEMMA SignGenesisStep ==
    ASSUME ChainInv, NEW owner, NEW lease, SignGenesis(owner, lease)
    PROVE  ChainInv'
<1>1. /\ geneses' = geneses \union {Genesis(owner, lease)}
      /\ UNCHANGED <<records, signatures, checkpoints, adopted, requests,
                     proofs, used>>
      /\ owner = Owner =>
             \A g \in geneses : g.record.policy.sequencer # Owner
  BY DEF SignGenesis
<1>2. Genesis(owner, lease).record.policy.sequencer = owner
  BY DEF Genesis, GenesisPolicy
<1>3. OwnerOnce'
  <2>. DEFINE made == Genesis(owner, lease)
  <2>1. \A g \in geneses' : \E o, l : g = Genesis(o, l)
    BY <1>1 DEF ChainInv, OwnerOnce
  <2>. HIDE DEF made
  <2>2. ASSUME NEW g \in geneses', NEW h \in geneses',
               g.record.policy.sequencer = Owner,
               h.record.policy.sequencer = Owner
        PROVE  g = h
    <3>1. geneses' = geneses \union {made}
              /\ made.record.policy.sequencer = owner
      BY <1>1, <1>2 DEF made
    <3>. QED  BY <1>1, <2>2, <3>1 DEF ChainInv, OwnerOnce
  <2>. QED  BY <2>1, <2>2 DEF OwnerOnce
<1>4. TypeOK'
  BY <1>1 DEF ChainInv, TypeOK
<1>5. AdoptedShaped'
  BY <1>1 DEF ChainInv, AdoptedShaped
<1>. QED
  BY <1>1, <1>3, <1>4, <1>5, ZenonT(60)
     DEF ChainInv, RecordsShaped, SignedChildren, OnePerParent, Approved,
         OneChain

\* Adopting another record with a head of its own changes nobody's part.
LEMMA AdoptionKeepsOnePerParent ==
    ASSUME AdoptedShaped, SignedChildren, OnePerParent, NEW c,
           c.head = HeadOf(c.record), adopted' = adopted \union {c},
           signatures' = signatures
    PROVE  OnePerParent'
<1>1. ASSUME NEW s \in signatures, NEW t \in signatures,
             s[1] = t[1], s[1] = c.record.policy.sequencer,
             s[2].record.parent = c.head, t[2].record.parent = c.head
      PROVE  s = t
  <2>1. PICK k \in adopted : s[2].record.parent = k.head
    BY DEF SignedChildren
  <2>2. HeadOf(k.record) = HeadOf(c.record)
    BY <1>1, <2>1 DEF AdoptedShaped
  <2>3. k.record.policy = c.record.policy
    BY <2>2, HeadsNamePolicies
  <2>4. /\ s[1] = k.record.policy.sequencer
        /\ s[2].record.parent = k.head
        /\ t[2].record.parent = k.head
    BY <1>1, <2>1, <2>3
  <2>. QED  BY <1>1, <2>4 DEF OnePerParent
<1>2. ASSUME NEW s \in signatures', NEW t \in signatures', NEW p \in adopted',
             s[1] = t[1], s[1] = p.record.policy.sequencer,
             s[2].record.parent = p.head, t[2].record.parent = p.head
      PROVE  s = t
  <2>1. CASE p \in adopted
    BY <1>2, <2>1 DEF OnePerParent
  <2>2. CASE p = c
    BY <1>1, <1>2, <2>2
  <2>. QED  BY <2>1, <2>2
<1>. QED  BY <1>2 DEF OnePerParent

\* Whoever pins, pins the one genesis of the owner.
LEMMA PinStep ==
    ASSUME ChainInv, NEW d \in Honest, NEW g \in geneses, Pin(d, g)
    PROVE  ChainInv'
<1>1. /\ adopted' = adopted \union {g}
      /\ checkpoints' = [checkpoints EXCEPT ![d] = g]
      /\ UNCHANGED <<geneses, records, signatures, requests, proofs, used>>
      /\ g.record.policy.sequencer = Owner
  BY DEF Pin, GenesisVerifies
<1>2. PICK owner, lease : g = Genesis(owner, lease)
  BY DEF ChainInv, OwnerOnce
<1>3. /\ g.head = HeadOf(g.record)
      /\ g.record.revision = 0
      /\ g.record.policy = GenesisPolicy(Owner, lease)
  BY <1>1, <1>2 DEF Genesis, GenesisPolicy
<1>4. ValidPolicy(g.record.policy) /\ Sound(g.record.policy)
  BY <1>3, GenesisSound
<1>5. \A a \in adopted : a.record.revision = 0 => a = g
  BY <1>1 DEF ChainInv, AdoptedShaped, OwnerOnce
<1>6. TypeOK'
  BY <1>1, <1>4 DEF ChainInv, TypeOK
<1>7. OneChain'
  BY <1>1, <1>3, <1>5 DEF ChainInv, OneChain
<1>8. AdoptedShaped'
  BY <1>1, <1>3 DEF ChainInv, AdoptedShaped
<1>9. Approved'
  <2>1. \A a \in adopted' : a.record.revision > 0 => a \in adopted
    BY <1>1, <1>3
  <2>2. adopted \subseteq adopted' /\ signatures' = signatures
    BY <1>1
  <2>. QED  BY <2>1, <2>2 DEF ChainInv, Approved
<1>10. SignedChildren'
  BY <1>1 DEF ChainInv, SignedChildren
<1>11. OnePerParent'
  BY <1>1, <1>3, AdoptionKeepsOnePerParent DEF ChainInv
<1>12. OwnerOnce' /\ RecordsShaped'
  BY <1>1 DEF ChainInv, OwnerOnce, RecordsShaped
<1>. QED  BY <1>6, <1>7, <1>8, <1>9, <1>10, <1>11, <1>12 DEF ChainInv

\* A record made by anyone is neither signed by an honest key nor adopted.
LEMMA ProposeStep ==
    ASSUME ChainInv, NEW parent, NEW revision \in 1..MaxRevision,
           NEW operation, NEW message, NEW policy, NEW lies \in BOOLEAN,
           Propose(parent, revision, operation, message, policy, lies)
    PROVE  ChainInv'
<1>. DEFINE record == [revision |-> revision, parent |-> parent.head,
                       epoch |-> revision, operation |-> operation,
                       policy |-> policy, message |-> message]
            made == [record |-> record,
                     head |-> IF lies THEN parent.head ELSE HeadOf(record)]
<1>1. /\ records' = records \union {made}
      /\ UNCHANGED <<geneses, signatures, checkpoints, adopted, requests,
                     proofs, used>>
  BY DEF Propose
<1>2. /\ made = [record |-> made.record, head |-> made.head]
      /\ made.record = [revision |-> made.record.revision,
                        parent |-> made.record.parent,
                        epoch |-> made.record.epoch,
                        operation |-> made.record.operation,
                        policy |-> made.record.policy,
                        message |-> made.record.message]
  OBVIOUS
<1>. HIDE DEF made
<1>3. RecordsShaped'
  BY <1>1, <1>2 DEF ChainInv, RecordsShaped
<1>. QED
  BY <1>1, <1>3 DEF ChainInv, TypeOK, OwnerOnce, AdoptedShaped,
                    SignedChildren, OnePerParent, Approved, OneChain

\* An honest sequencer signs one child of its checkpoint, and only one.
LEMMA SignStep ==
    ASSUME ChainInv, NEW d \in Honest, NEW c \in records, Sign(d, c)
    PROVE  ChainInv'
<1>. DEFINE k == checkpoints[d]
<1>1. /\ signatures' = signatures \union {<<d, c>>}
      /\ UNCHANGED <<geneses, records, checkpoints, adopted, requests,
                     proofs, used>>
      /\ k # None
      /\ Sound(c.record.policy)
      /\ d = k.record.policy.sequencer =>
             \A s \in signatures :
                 s[1] = d => s[2].record.parent # c.record.parent
  BY DEF Sign
<1>2. /\ c.record.parent = k.head
      /\ c.record.revision = k.record.revision + 1
      /\ ValidPolicy(c.record.policy)
  BY DEF Sign, Valid, Extends
<1>3. k \in adopted
  BY <1>1 DEF ChainInv, TypeOK
<1>. HIDE DEF k
<1>4. SignedChildren'
  BY <1>1, <1>2, <1>3 DEF ChainInv, SignedChildren
<1>5. OnePerParent'
  <2>1. ASSUME NEW p \in adopted, NEW s \in signatures, s[1] = d,
               d = p.record.policy.sequencer,
               s[2].record.parent = p.head, c.record.parent = p.head
        PROVE  FALSE
    <3>1. p = k
      BY <1>2, <1>3, <2>1, SameHeadSameRecord
    <3>. QED  BY <1>1, <2>1, <3>1
  <2>2. ASSUME NEW s \in signatures', NEW t \in signatures',
               NEW p \in adopted',
               s[1] = t[1], s[1] = p.record.policy.sequencer,
               s[2].record.parent = p.head, t[2].record.parent = p.head
        PROVE  s = t
    <3>. DEFINE new == <<d, c>>
    <3>1. /\ new[1] = d /\ new[2] = c
          /\ signatures' = signatures \union {new}
          /\ p \in adopted
      BY <1>1
    <3>. HIDE DEF new
    <3>2. CASE s = new /\ t # new
      BY <2>1, <2>2, <3>1, <3>2
    <3>3. CASE s # new /\ t = new
      BY <2>1, <2>2, <3>1, <3>3
    <3>4. CASE s # new /\ t # new
      BY <2>2, <3>1, <3>4 DEF ChainInv, OnePerParent
    <3>. QED  BY <3>2, <3>3, <3>4
  <2>. QED  BY <2>2 DEF OnePerParent
<1>6. TypeOK'
  BY <1>1 DEF ChainInv, TypeOK
<1>. QED
  BY <1>1, <1>4, <1>5, <1>6 DEF ChainInv, OwnerOnce, RecordsShaped,
                                AdoptedShaped, Approved, OneChain

\* The record adopted is a child of the checkpoint, signed by the sequencer of
\* that one; another of its revision would be a second child.
LEMMA AdoptStep ==
    ASSUME ChainInv, NEW d \in Honest, NEW c \in records, NEW operation,
           NEW head, NEW message, Adopt(d, c, operation, head, message)
    PROVE  /\ ChainInv'
           /\ checkpoints[d] # None
           /\ checkpoints' = [checkpoints EXCEPT ![d] = c]
           /\ c.record.revision = checkpoints[d].record.revision + 1
<1>. DEFINE k == checkpoints[d]
<1>1. /\ k # None
      /\ Quorum(c, k.record.policy)
      /\ Valid(c, k, operation, message)
      /\ checkpoints' = [checkpoints EXCEPT ![d] =
             [c EXCEPT !.record.operation = operation,
                       !.record.message = message]]
      /\ adopted' = adopted \union {checkpoints'[d]}
      /\ UNCHANGED <<geneses, records, signatures, requests, proofs, used>>
  BY DEF Adopt, Authenticates
<1>2. /\ c.record.parent = k.head
      /\ c.record.revision = k.record.revision + 1
      /\ ValidPolicy(c.record.policy)
      /\ c.head = HeadOf(c.record)
      /\ c.record.operation = operation
      /\ c.record.message = message
  BY <1>1 DEF Valid, Extends, HashesMatch
<1>3. [c EXCEPT !.record.operation = operation,
                !.record.message = message] = c
  BY <1>2 DEF ChainInv, RecordsShaped
<1>4. /\ checkpoints' = [checkpoints EXCEPT ![d] = c]
      /\ adopted' = adopted \union {c}
  <2>1. checkpoints' = [checkpoints EXCEPT ![d] = c]
    BY <1>1, <1>3
  <2>2. checkpoints'[d] = c
    BY <2>1 DEF ChainInv, TypeOK
  <2>. QED  BY <1>1, <2>1, <2>2
<1>5. k \in adopted /\ Sound(k.record.policy)
  BY <1>1 DEF ChainInv, TypeOK
<1>6. /\ k.record.policy.sequencer \in Honest
      /\ <<k.record.policy.sequencer, c>> \in signatures
  BY <1>1, <1>5, QuorumSigned
<1>. DEFINE seal == <<k.record.policy.sequencer, c>>
<1>7. /\ seal \in signatures
      /\ seal[1] = k.record.policy.sequencer
      /\ seal[2] = c
  BY <1>6
<1>8. Sound(c.record.policy)
  BY <1>7 DEF ChainInv, SignedChildren
<1>9. k.record.revision \in Nat
  BY <1>5 DEF ChainInv, AdoptedShaped
<1>. HIDE DEF k, seal
<1>10. TypeOK'
  BY <1>1, <1>2, <1>4, <1>8 DEF ChainInv, TypeOK
<1>11. AdoptedShaped'
  BY <1>1, <1>2, <1>4, <1>9 DEF ChainInv, AdoptedShaped
<1>12. SignedChildren'
  BY <1>1, <1>4 DEF ChainInv, SignedChildren
<1>13. OnePerParent'
  BY <1>1, <1>2, <1>4, AdoptionKeepsOnePerParent DEF ChainInv
<1>14. Approved'
  <2>1. ASSUME NEW a \in adopted', a.record.revision > 0
        PROVE  \E p \in adopted :
                   /\ a.record.parent = p.head
                   /\ a.record.revision = p.record.revision + 1
                   /\ <<p.record.policy.sequencer, a>> \in signatures
                   /\ p.record.policy.sequencer \in Honest
    <3>1. CASE a \in adopted
      BY <2>1, <3>1 DEF ChainInv, Approved
    <3>2. CASE a = c
      BY <1>2, <1>5, <1>6, <3>2
    <3>. QED  BY <1>4, <3>1, <3>2
  <2>. QED  BY <1>1, <1>4, <2>1 DEF Approved
<1>15. OneChain'
  <2>1. ASSUME NEW b \in adopted, b.record.revision = c.record.revision
        PROVE  b = c
    <3>1. b.record.revision > 0
      BY <1>2, <1>9, <2>1
    <3>2. PICK q \in adopted :
              /\ b.record.parent = q.head
              /\ b.record.revision = q.record.revision + 1
              /\ <<q.record.policy.sequencer, b>> \in signatures
      BY <3>1 DEF ChainInv, Approved
    <3>3. q.record.revision = k.record.revision
      BY <1>2, <1>9, <2>1, <3>2 DEF ChainInv, AdoptedShaped
    <3>4. q = k
      BY <1>5, <3>3 DEF ChainInv, OneChain
    <3>. DEFINE other == <<q.record.policy.sequencer, b>>
    <3>5. other \in signatures /\ other[1] = q.record.policy.sequencer
              /\ other[2] = b
      BY <3>2
    <3>. HIDE DEF other
    <3>6. other = seal
      BY <1>2, <1>5, <1>7, <3>2, <3>4, <3>5 DEF ChainInv, OnePerParent
    <3>. QED  BY <1>7, <3>5, <3>6
  <2>. QED  BY <1>4, <2>1 DEF ChainInv, OneChain
<1>16. OwnerOnce' /\ RecordsShaped'
  BY <1>1 DEF ChainInv, OwnerOnce, RecordsShaped
<1>. QED
  BY <1>1, <1>2, <1>4, <1>10, <1>11, <1>12, <1>13, <1>14, <1>15, <1>16
     DEF ChainInv, k

\* Asking and vouching touch no chain.
LEMMA FreshnessStep ==
    ASSUME ChainInv,
           UNCHANGED <<geneses, records, signatures, checkpoints, adopted>>,
           TypeOK'
    PROVE  ChainInv'
BY ZenonT(60) DEF ChainInv, OwnerOnce, RecordsShaped, AdoptedShaped, SignedChildren,
       OnePerParent, Approved, OneChain

\* What a device asks its freshness authority.
RequestOf(d, nonce) ==
    LET authority == checkpoints[d].record.policy.freshness
    IN  [nonce |-> nonce, head |-> checkpoints[d].head,
         revision |-> checkpoints[d].record.revision,
         signer |-> authority,
         floor |-> IF checkpoints[authority] = None THEN 0
                   ELSE checkpoints[authority].record.revision]

\* A request changes nothing of the chain.
LEMMA AskStep ==
    ASSUME ChainInv, NEW d \in Honest, NEW nonce, Ask(d, nonce)
    PROVE  ChainInv'
<1>1. requests' = [requests EXCEPT ![d] = RequestOf(d, nonce)]
          /\ RequestOf(d, nonce).nonce = nonce
  BY DEF Ask, RequestOf
<1>2. /\ used' = used \union {nonce}
      /\ UNCHANGED <<geneses, records, signatures, checkpoints, adopted,
                     proofs>>
  BY DEF Ask
<1>3. TypeOK'
  BY <1>1, <1>2 DEF ChainInv, TypeOK
<1>. QED  BY <1>2, <1>3, FreshnessStep

\* Neither does a request that is answered or given up.
LEMMA ForgottenStep ==
    ASSUME ChainInv, NEW d \in Honest,
           requests' = [requests EXCEPT ![d] = None],
           UNCHANGED <<geneses, records, signatures, checkpoints, adopted,
                       used>>
    PROVE  ChainInv'
<1>1. TypeOK'
  BY DEF ChainInv, TypeOK
<1>. QED  BY <1>1, FreshnessStep

\* Every step keeps ChainInv.
LEMMA ChainInductive == ChainInv /\ [Next]_vars => ChainInv'
<1>. SUFFICES ASSUME ChainInv, [Next]_vars  PROVE ChainInv'
  OBVIOUS
<1>1. ASSUME NEW owner \in Keys, NEW policy \in Policies,
             SignGenesis(owner, policy.lease)
      PROVE  ChainInv'
  BY <1>1, SignGenesisStep
<1>2. ASSUME NEW parent \in geneses \union records,
             NEW revision \in 1..MaxRevision, NEW operation \in Operations,
             NEW message \in Messages, NEW policy \in Policies,
             NEW lies \in BOOLEAN,
             Propose(parent, revision, operation, message, policy, lies)
      PROVE  ChainInv'
  BY <1>2, ProposeStep
<1>3. ASSUME NEW d \in Honest, NEW candidate \in geneses, Pin(d, candidate)
      PROVE  ChainInv'
  BY <1>3, PinStep
<1>4. ASSUME NEW d \in Honest, NEW candidate \in records, Sign(d, candidate)
      PROVE  ChainInv'
  BY <1>4, SignStep
<1>5. ASSUME NEW d \in Honest, NEW candidate \in records,
             NEW operation \in Operations, NEW message \in Messages,
             Adopt(d, candidate, operation, candidate.head, message)
      PROVE  ChainInv'
  BY <1>5, AdoptStep
<1>6. ASSUME NEW d \in Honest, NEW nonce \in Nonces, Ask(d, nonce)
      PROVE  ChainInv'
  BY <1>6, AskStep
<1>7. ASSUME NEW d \in Honest, NEW nonce \in Nonces, Vouch(d, nonce)
      PROVE  ChainInv'
  <2>1. TypeOK'
    BY <1>7 DEF Vouch, ChainInv, TypeOK
  <2>. QED  BY <1>7, <2>1, FreshnessStep DEF Vouch
<1>8. ASSUME NEW d \in Honest, NEW proof \in proofs, Confirm(d, proof)
      PROVE  ChainInv'
  BY <1>8, ForgottenStep DEF Confirm
<1>9. ASSUME NEW d \in Honest, GiveUp(d)  PROVE ChainInv'
  BY <1>9, ForgottenStep DEF GiveUp
<1>10. ASSUME UNCHANGED vars  PROVE ChainInv'
  <2>1. TypeOK'
    BY <1>10 DEF vars, ChainInv, TypeOK
  <2>. QED  BY <1>10, <2>1, FreshnessStep DEF vars
<1>. QED
  BY <1>1, <1>2, <1>3, <1>4, <1>5, <1>6, <1>7, <1>8, <1>9, <1>10 DEF Next

\* The conjunction holds in every state: of the records of one parent at most
\* one carries its honest sequencer's signature, and every adopted record is
\* such a child of an adopted one.
THEOREM ChainInvariant == Spec => []ChainInv
BY ChainInit, ChainInductive, PTL DEF Spec

\* Every state is of its type, and every policy in force keeps the scope with
\* its honest devices.
THEOREM TypeCorrect == Spec => []TypeOK
<1>1. ChainInv => TypeOK
  BY DEF ChainInv
<1>. QED  BY <1>1, ChainInvariant, PTL

\* Honest devices at one revision adopted one record, whatever bad keys sign
\* and whatever they are shown, as long as the sequencer is honest: the size
\* of the quorum does not matter.
THEOREM OneChainOnly == Spec => []OneChain
<1>1. ChainInv => OneChain
  BY DEF ChainInv
<1>. QED  BY <1>1, ChainInvariant, PTL

\* Nothing is adopted that the sequencer of the record before did not sign.
THEOREM AdoptedApproved == Spec => []AdoptedWasApproved
<1>1. ChainInv => AdoptedWasApproved
  BY DEF ChainInv, Approved, AdoptedWasApproved
<1>. QED  BY <1>1, ChainInvariant, PTL

----------------------------------------------------------------------------
(* Freshness *)

\* The authority a request asks is at least as far as when it was asked.
AuthorityReached(request) ==
    /\ request.signer \in Honest
    /\ request.floor \in Nat
    /\ request.floor > 0 =>
           /\ checkpoints[request.signer] # None
           /\ checkpoints[request.signer].record.revision >= request.floor

\* So is whatever it vouches for with the nonce of the request.
VouchedReached(request) ==
    \A proof \in proofs :
        proof.nonce = request.nonce /\ proof.signer = request.signer
            => proof.revision >= request.floor

FreshInv ==
    /\ \A proof \in proofs : proof.nonce \in used /\ proof.revision \in Nat
    /\ \A d \in Honest : requests[d] # None =>
           AuthorityReached(requests[d]) /\ VouchedReached(requests[d])

\* None, which says that nothing was adopted, is no record.
NoneIsNoRecord == \A r, h : [record |-> r, head |-> h] # None

\* Every step keeps FreshInv: nonces are used once, and checkpoints only grow.
LEMMA FreshInductive ==
    ASSUME NoneIsNoRecord
    PROVE  ChainInv /\ FreshInv /\ [Next]_vars => FreshInv'
<1>. SUFFICES ASSUME ChainInv, FreshInv, [Next]_vars  PROVE FreshInv'
  OBVIOUS
<1>. /\ checkpoints \in [Honest -> adopted \union {None}]
     /\ DOMAIN requests = Honest
     /\ \A a \in adopted : a.record.revision \in Nat
                               /\ a.record.policy.freshness \in Honest
     /\ \A d \in Honest : requests[d] # None => requests[d].nonce \in used
  BY DEF ChainInv, TypeOK, AdoptedShaped, Sound
<1>1. ASSUME UNCHANGED <<checkpoints, requests, proofs, used>>
      PROVE  FreshInv'
  BY <1>1 DEF FreshInv, AuthorityReached, VouchedReached
<1>2. ASSUME NEW d \in Honest, NEW c,
             checkpoints' = [checkpoints EXCEPT ![d] = c],
             c # None, c.record.revision \in Nat,
             checkpoints[d] # None =>
                 c.record.revision >= checkpoints[d].record.revision,
             UNCHANGED <<requests, proofs, used>>
      PROVE  FreshInv'
  <2>1. ASSUME NEW e \in Honest, requests[e] # None
        PROVE  AuthorityReached(requests[e])'
    <3>1. AuthorityReached(requests[e])
      BY <2>1 DEF FreshInv
    <3>. DEFINE signer == requests[e].signer
    <3>2. CASE signer = d
      BY <1>2, <3>1, <3>2 DEF AuthorityReached
    <3>3. CASE signer # d
      BY <1>2, <3>1, <3>3 DEF AuthorityReached
    <3>. QED  BY <3>2, <3>3
  <2>. QED  BY <1>2, <2>1 DEF FreshInv, VouchedReached
<1>3. ASSUME NEW d \in Honest, requests' = [requests EXCEPT ![d] = None],
             UNCHANGED <<checkpoints, proofs, used>>
      PROVE  FreshInv'
  BY <1>3 DEF FreshInv, AuthorityReached, VouchedReached
<1>4. ASSUME NEW d \in Honest, NEW nonce \in Nonces, Ask(d, nonce)
      PROVE  FreshInv'
  <2>. DEFINE request == RequestOf(d, nonce)
  <2>1. /\ requests' = [requests EXCEPT ![d] = request]
        /\ checkpoints[d] # None
        /\ nonce \notin used
        /\ used' = used \union {nonce}
        /\ UNCHANGED <<checkpoints, proofs>>
    BY <1>4 DEF Ask, RequestOf
  <2>2. request.nonce = nonce
    BY DEF RequestOf
  <2>3. AuthorityReached(request)
    BY <2>1 DEF AuthorityReached, RequestOf
  <2>. HIDE DEF request
  <2>4. VouchedReached(request)
    BY <2>1, <2>2 DEF FreshInv, VouchedReached
  <2>5. ASSUME NEW e \in Honest, requests'[e] # None
        PROVE  AuthorityReached(requests'[e]) /\ VouchedReached(requests'[e])
    BY <2>1, <2>3, <2>4, <2>5 DEF FreshInv
  <2>6. ASSUME NEW r
        PROVE  /\ AuthorityReached(r) => AuthorityReached(r)'
               /\ VouchedReached(r) => VouchedReached(r)'
    BY <2>1 DEF AuthorityReached, VouchedReached
  <2>7. ASSUME NEW e \in Honest, requests'[e] # None
        PROVE  /\ AuthorityReached(requests[e])'
               /\ VouchedReached(requests[e])'
    BY <2>1, <2>5, <2>7 DEF AuthorityReached, VouchedReached
  <2>. QED  BY <2>1, <2>7 DEF FreshInv
<1>5. ASSUME NEW d \in Honest, NEW nonce \in Nonces, Vouch(d, nonce)
      PROVE  FreshInv'
  <2>1. /\ checkpoints[d] # None
        /\ nonce \in used
        /\ proofs' = proofs \union
              {[nonce |-> nonce, head |-> checkpoints[d].head,
                revision |-> checkpoints[d].record.revision, signer |-> d]}
        /\ UNCHANGED <<checkpoints, requests, used>>
    BY <1>5 DEF Vouch
  <2>2. checkpoints[d].record.revision \in Nat
    BY <2>1
  <2>3. ASSUME NEW e \in Honest, requests[e] # None
        PROVE  AuthorityReached(requests[e])' /\ VouchedReached(requests[e])'
    <3>1. AuthorityReached(requests[e]) /\ VouchedReached(requests[e])
      BY <2>3 DEF FreshInv
    <3>. QED  BY <2>1, <2>2, <3>1 DEF AuthorityReached, VouchedReached
  <2>. QED  BY <2>1, <2>2, <2>3 DEF FreshInv
<1>6. ASSUME NEW d \in Honest, NEW g \in geneses, Pin(d, g)  PROVE FreshInv'
  <2>1. /\ checkpoints' = [checkpoints EXCEPT ![d] = g]
        /\ checkpoints[d] = None
        /\ UNCHANGED <<requests, proofs, used>>
    BY <1>6 DEF Pin
  <2>2. PICK owner, lease : g = Genesis(owner, lease)
    BY DEF ChainInv, OwnerOnce
  <2>3. g.record.revision \in Nat /\ g # None
    BY <2>2 DEF NoneIsNoRecord, Genesis
  <2>. QED  BY <1>2, <2>1, <2>3
<1>7. ASSUME NEW d \in Honest, NEW c \in records, NEW operation \in Operations,
             NEW message \in Messages, Adopt(d, c, operation, c.head, message)
      PROVE  FreshInv'
  <2>1. /\ checkpoints' = [checkpoints EXCEPT ![d] = c]
        /\ checkpoints[d] # None
        /\ c.record.revision = checkpoints[d].record.revision + 1
    BY <1>7, AdoptStep
  <2>2. UNCHANGED <<requests, proofs, used>>
    BY <1>7 DEF Adopt
  <2>3. c # None
    BY DEF NoneIsNoRecord, ChainInv, RecordsShaped
  <2>4. checkpoints[d].record.revision \in Nat
    BY <2>1
  <2>5. /\ c.record.revision \in Nat
        /\ c.record.revision >= checkpoints[d].record.revision
    BY <2>1, <2>4
  <2>. QED  BY <1>2, <2>1, <2>2, <2>3, <2>5
<1>8. ASSUME NEW d \in Honest, NEW proof \in proofs, Confirm(d, proof)
      PROVE  FreshInv'
  BY <1>3, <1>8 DEF Confirm
<1>9. ASSUME NEW d \in Honest, GiveUp(d)  PROVE FreshInv'
  BY <1>3, <1>9 DEF GiveUp
<1>10. ASSUME NEW owner \in Keys, NEW policy \in Policies,
              SignGenesis(owner, policy.lease)
       PROVE  FreshInv'
  BY <1>1, <1>10 DEF SignGenesis
<1>11. ASSUME NEW parent \in geneses \union records,
              NEW revision \in 1..MaxRevision, NEW operation \in Operations,
              NEW message \in Messages, NEW policy \in Policies,
              NEW lies \in BOOLEAN,
              Propose(parent, revision, operation, message, policy, lies)
       PROVE  FreshInv'
  BY <1>1, <1>11 DEF Propose
<1>12. ASSUME NEW d \in Honest, NEW c \in records, Sign(d, c)
       PROVE  FreshInv'
  BY <1>1, <1>12 DEF Sign
<1>13. ASSUME UNCHANGED vars  PROVE FreshInv'
  BY <1>1, <1>13 DEF vars
<1>. QED
  BY <1>4, <1>5, <1>6, <1>7, <1>8, <1>9, <1>10, <1>11, <1>12, <1>13 DEF Next

\* What a request is told is current was, when it was asked: the freshness
\* authority vouched for it after that, and it never goes back.
THEOREM ConfirmedCurrent ==
    ASSUME NoneIsNoRecord
    PROVE  Spec => ConfirmedIsCurrent
<1>1. Init => FreshInv
  BY DEF Init, FreshInv
<1>2. ChainInv /\ FreshInv /\ [Next]_vars =>
          [\A d \in Honest :
              requests[d] # None /\ (\E proof \in proofs : Confirm(d, proof)) =>
                  requests[d].floor <= requests[d].revision]_vars
  <2>1. SUFFICES ASSUME ChainInv, FreshInv, NEW d \in Honest,
                        requests[d] # None, NEW proof \in proofs,
                        Confirm(d, proof)
                 PROVE  requests[d].floor <= requests[d].revision
    OBVIOUS
  <2>2. /\ proof.signer = requests[d].signer
        /\ proof.nonce = requests[d].nonce
        /\ proof.revision = requests[d].revision
    BY <2>1 DEF Confirm, MatchesRequest
  <2>3. AuthorityReached(requests[d]) /\ VouchedReached(requests[d])
            /\ proof.revision \in Nat
    BY <2>1 DEF FreshInv
  <2>. QED  BY <2>2, <2>3 DEF AuthorityReached, VouchedReached
<1>3. ChainInv /\ FreshInv /\ [Next]_vars => FreshInv'
  BY FreshInductive
<1>. QED  BY <1>1, <1>2, <1>3, ChainInvariant, PTL DEF Spec, ConfirmedIsCurrent
=============================================================================
