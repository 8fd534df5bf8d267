---------------------------- MODULE SignedForms ----------------------------
(***************************************************************************)
(* The documents this library signs.  Every class of src/src that has a    *)
(* `sign` and a `verify` is a form: the fields it reads, the text it signs *)
(* and whose key must sign it.                                             *)
(*                                                                         *)
(* A document is a record; an optional field that is absent is not in its  *)
(* DOMAIN.  Canonical JSON of the fields present is one-to-one, so the     *)
(* function stands for it; the prefix, or the member that says what the    *)
(* document is, is `domain`.  A digest is what it digests, and a version   *)
(* that can only be one is left out.                                       *)
(***************************************************************************)
EXTENDS Naturals, Sequences

\* PreimageFields.record: a closed shape.
Shaped(form, record) ==
    /\ form.required \subseteq DOMAIN record
    /\ DOMAIN record \subseteq form.required \union form.optional

\* Mutant: the optional fields are read and never signed.
TextOfRequired(form, record) ==
    <<form.domain, [field \in form.required |-> record[field]]>>

\* What is signed: the domain and every field present, by name.
Text(form, record) ==
    <<form.domain, [field \in DOMAIN record |-> record[field]]>>

Form(domain, required, optional, signers) ==
    [domain |-> domain, required |-> required,
     optional |-> optional, signers |-> signers]

\* DeviceCredentialCommitment.of, which names one key.
CommitmentTo(key) == <<"sha256", key>>

----------------------------------------------------------------------------
(* Identities and keychains *)

IdentityForm ==
    Form(<<"pigeon:identity:v1">>,
         {"authorizationRevision", "deviceCredential", "id", "networks",
          "deviceCredentialCommitment", "profile", "recoveryAuthority",
          "timestamp", "version"},
         {"admissionNonce", "mailboxHome",
          "previousIdentityExternalIdentifier"},
         {"id"})

IdentityReads(record) ==
    record.deviceCredentialCommitment = CommitmentTo(record.deviceCredential)

KeychainForm ==
    Form(<<"pigeon:keychain:v1">>,
         {"encryptedPayload", "ownerIdentityId", "timestamp", "version"},
         {"previousKeychainExternalIdentifier"}, {"ownerIdentityId"})

SealedSecretForm ==
    Form(<<"pigeon:device-sealed-secret:v1">>,
         {"authorizationRevision", "generation", "identityId",
          "publisherCredential", "recipientCredential", "sealedSecret"},
         {}, {"publisherCredential"})

\* MlsLeafCredential: both the identity and its device sign.
LeafCredentialForm ==
    Form(<<"pigeon:mls-leaf-credential:v2">>,
         {"deviceCredential", "identityId", "signaturePublicKey"},
         {}, {"deviceCredential", "identityId"})

----------------------------------------------------------------------------
(* Device authorization and pairing *)

PairingFields == {"authorizedAt", "pairingExpiration", "pairingId"}

\* A transition without its proof of possession, and with it.
PossessionForm ==
    Form(<<"pigeon:device-authorization:proof-of-possession:v2">>,
         {"epoch", "identityId", "operation", "operationId",
          "previousRevision", "revision", "targetCredential",
          "targetCredentialCommitment"},
         {"authorCredential", "compromisedCredentials", "compromisedSince"}
             \union PairingFields,
         {"targetCredential"})

TransitionForm ==
    Form(<<"pigeon:device-authorization:transition:v3">>,
         PossessionForm.required,
         PossessionForm.optional \union {"proofOfPossession"},
         {"authorCredential"})

\* DeviceAuthorizationTransitionSignature.operationFieldsMatch
OperationFieldsMatch(record) ==
    /\ record.operation \in {"enroll", "revoke", "recover"}
    /\ "authorCredential" \notin DOMAIN record
           <=> record.operation = "recover"
    /\ PairingFields \intersect DOMAIN record =
           IF record.operation = "enroll" THEN PairingFields ELSE {}
    /\ "compromisedSince" \in DOMAIN record => record.operation = "revoke"
    /\ "compromisedCredentials" \in DOMAIN record
           => record.operation = "recover"

\* DeviceAuthorizationTransitionSignature.compromisedCredentials: some, each
\* since a revision there has been.
CompromisedReads(record) ==
    "compromisedCredentials" \in DOMAIN record =>
        /\ record.compromisedCredentials # {}
        /\ \A entry \in record.compromisedCredentials :
               entry.compromisedSince <= record.previousRevision

\* DeviceAuthorizationTransitionSignature.preimage
PreimageReads(record) ==
    /\ OperationFieldsMatch(record)
    /\ record.revision = record.previousRevision + 1
    /\ record.targetCredentialCommitment =
           CommitmentTo(record.targetCredential)
    /\ "compromisedSince" \in DOMAIN record =>
           record.compromisedSince <= record.previousRevision
    /\ CompromisedReads(record)

\* ...proofText: a revocation is proved by nobody.
PossessionReads(record) ==
    PreimageReads(record) /\ record.operation # "revoke"

\* ...signingText: every other operation comes with a proof.
TransitionReads(record) ==
    /\ PreimageReads(record)
    /\ "proofOfPossession" \notin DOMAIN record
           <=> record.operation = "revoke"

\* What the proof of possession of a transition is about.
Proved(record) ==
    [field \in DOMAIN record \ {"proofOfPossession"} |-> record[field]]

\* DevicePairingPreimage: the payload is a member named for what it is.
PairingForm(member, required, signer) ==
    Form(<<"pigeon:device-pairing", member>>, required, {}, {signer})

PairingInvitationForm ==
    PairingForm("invitation",
                {"authorCredential", "epoch", "expiresAt", "identityId",
                 "pairingId", "revision"},
                "authorCredential")

PairingRequestForm ==
    PairingForm("request",
                {"authorizedAt", "invitation", "operationId",
                 "proofOfPossession", "targetCredential",
                 "transportPublicKey"},
                "targetCredential")

PairingCompletionForm ==
    PairingForm("completion",
                {"authorCredential", "encryptedMaterial", "epoch",
                 "identityId", "operationId", "pairingId", "revision"},
                "authorCredential")

----------------------------------------------------------------------------
(* Public mutations, requests and communities *)

\* The author of a mutation is a record of its own; its fields are here.
MutationForm ==
    Form(<<"pigeon:public-mutation:v2">>,
         {"authorizationRevision", "deviceCredential", "identityId", "kind",
          "operationId", "payloadDigest", "predecessor", "recordId",
          "sequence", "store"},
         {"frontier"}, {"deviceCredential"})

\* PublicMutationSignature.body: only the first mutation has no predecessor
\* (null is 0), and a frontier has a head.
MutationReads(record) ==
    /\ record.predecessor = 0 <=> record.sequence = 0
    /\ record.kind \in {"put", "delete"}
    /\ "frontier" \in DOMAIN record => record.frontier # {}

\* SignedHttpRequestSignature: the caller names the key.
RequestForm ==
    Form(<<"pigeon:signed-http-request:v1">>,
         {"bodyHash", "method", "path", "timestamp"}, {}, {})

CommunityOperationForm ==
    Form(<<"pigeon:community-operation:v1">>, {"recordId"}, {}, {})

\* CommunityInvitationPreimage.content, under the domain of either proof.
InvitationForm(domain, signers) ==
    Form(domain, {"communityId", "identityId", "invitationId", "networkId"},
         {}, signers)

ConsentForm ==
    InvitationForm(<<"pigeon:community-invitation-consent:v1">>,
                   {"identityId"})

\* Only CommunityInvitationKey signs it; the verifier names the key.
InvitationPossessionForm ==
    InvitationForm(<<"pigeon:community-invitation-possession:v1">>, {})

\* GroupMailboxControlLetter: what the sender signs inside what it seals.
LetterForm ==
    Form(<<"pigeon:group-mailbox-control-letter:v1",
           "group-mailbox-control-letter">>,
         {"conversationId", "payload", "recipientIdentityId",
          "senderIdentityId", "sentAt"},
         {}, {"senderIdentityId"})

----------------------------------------------------------------------------
(* Relay records, which carry no domain: the role tells them apart.  Other *)
(* members are not read, and are not here                                  *)

PublicRelayForm ==
    Form(<<>>, {"expiresAt", "issuedAt", "multiaddrs", "peerId",
                "publicKey", "role", "version"},
         {}, {"publicKey"})

\* RelayRecordEncoding.isLifetime
Lives(record) == record.issuedAt < record.expiresAt

\* The addresses are sorted, so that a set of them is signed.
PublicRelayReads(record) ==
    Lives(record) /\ record.multiaddrs # {} /\ record.role = "relay"
        /\ record.version = 1

CallRelayForm ==
    Form(<<>>, {"expiresAt", "issuedAt", "peerId", "publicKey", "role",
                "urls", "version"},
         {}, {"publicKey"})

CallRelayReads(record) ==
    Lives(record) /\ record.urls # {} /\ record.role = "call-relay"
        /\ record.version \in {1, 2}

----------------------------------------------------------------------------
(* Private operations and delivery schedules *)

OperationForm ==
    Form(<<"pigeon.private-operation.v1">>,
         {"operationId", "scopeId", "authorizationRevision",
          "authorDeviceKey", "kind", "previousOperationIds", "payload"},
         {}, {"authorDeviceKey"})

ScheduleForm ==
    Form(<<"pigeon.private-delivery-schedule.v1">>,
         {"descriptors", "signerIdentity", "signerPublicKey"},
         {}, {"signerPublicKey"})

GenesisForm ==
    Form(<<"pigeon.private-genesis.v1">>,
         {"headHash", "mlsContextHash", "policyHash", "scopeId"}, {}, {})

ControlForm ==
    Form(<<"pigeon.private-control.v2">>,
         {"headHash", "mlsContextHash", "mlsEpoch", "mlsMessageHash",
          "operationBindingHash", "parentHeadHash", "policyHash",
          "revision", "scopeId"}, {}, {})

FreshnessForm ==
    Form(<<"pigeon.private-freshness.v1">>,
         {"batchCommitment", "headHash", "nonce", "revision", "scopeId",
          "signerKey"},
         {}, {"signerKey"})

\* Every form, by the kind of document it reads.
SignedForms ==
    [identity |-> IdentityForm, keychain |-> KeychainForm,
     sealedSecret |-> SealedSecretForm, leaf |-> LeafCredentialForm,
     possession |-> PossessionForm, transition |-> TransitionForm,
     pairingInvitation |-> PairingInvitationForm,
     pairingRequest |-> PairingRequestForm,
     pairingCompletion |-> PairingCompletionForm,
     mutation |-> MutationForm, request |-> RequestForm,
     communityOperation |-> CommunityOperationForm,
     consent |-> ConsentForm,
     invitationPossession |-> InvitationPossessionForm,
     letter |-> LetterForm, publicRelay |-> PublicRelayForm,
     callRelay |-> CallRelayForm, operation |-> OperationForm,
     schedule |-> ScheduleForm, genesis |-> GenesisForm,
     control |-> ControlForm, freshness |-> FreshnessForm]

\* Whether the class that reads this kind takes the document.
SignedReads(kind, record) ==
    /\ Shaped(SignedForms[kind], record)
    /\ kind = "identity" => IdentityReads(record)
    /\ kind = "possession" => PossessionReads(record)
    /\ kind = "transition" => TransitionReads(record)
    /\ kind = "mutation" => MutationReads(record)
    /\ kind = "publicRelay" => PublicRelayReads(record)
    /\ kind = "callRelay" => CallRelayReads(record)
    /\ kind = "schedule" => record.descriptors # {}

\* Whose keys a document itself names.  A recovery names nobody: the
\* recovery authority is the verifier's to know.  The first version of a call
\* relay's record is also authenticated with the secret of its pool.
NamedSigners(kind, record) ==
    LET fields == SignedForms[kind].signers
    IN  {record[field] : field \in fields \intersect DOMAIN record}
            \union IF kind = "callRelay" /\ record.version = 1
                   THEN {"pool"} ELSE {}
=============================================================================
