---------------------------- MODULE SealedForms ----------------------------
(***************************************************************************)
(* What this library seals under a secret, or authenticates with one: the  *)
(* label its key is derived with and the data authenticated beside the     *)
(* ciphertext are the text, as for a signature.  The opener names the      *)
(* context; what it opens is the payload.  Keys derived with two labels    *)
(* are two keys, so a label is a domain.                                   *)
(***************************************************************************)
EXTENDS SignedForms

Sealed(domain, fields) == Form(domain, fields, {}, {})

\* RootProtectedEnvelope, under the domain of each class that uses it.
RootProtected(domain) ==
    Sealed(<<"v1.hkdf-sha256.aes-256-gcm", domain>>, {"plaintext"})

GroupStateForm == RootProtected("pigeon.mls-group-state-protection.v1")

JoinPackageForm == RootProtected("pigeon.mls-join-package-protection.v1")

DeviceIdentityForm ==
    RootProtected("pigeon.mls-device-identity-protection.v1")

KeyScheduleForm == RootProtected("pigeon.private-delivery-key-schedule.v1")

\* DeviceRootRowKeys: the rows of a device and the canary that says a root is
\* the right one share a key, and only their purpose is different.
RowForm ==
    Sealed(<<"v1">>, {"label", "identityId", "purpose", "scope", "plaintext"})

CanaryForm == RowForm

RowTagForm == Sealed(<<"tag:v1">>, {"label", "identityId", "parts"})

\* Mutant: a row may have any purpose.
AnyRowReads(record) == "purpose" \in DOMAIN record

\* DeviceRootRowKeys.rowAad
RowReads(record) == record.purpose # "canary"

\* DeviceRootRowKeys.opensCanary: whatever opens with this data.
CanaryReads(record) == record.purpose = "canary" /\ record.scope = <<>>

HistoryForm ==
    Sealed(<<"pigeon-swarm:history-backup:v1", "pigeon-swarm-backup">>,
           {"identityId", "plaintext"})

\* ConversationDraft: the draft key is a digest of the conversation, which is
\* also inside the draft and checked against it.
DraftForm ==
    Sealed(<<"pigeon/conversation-draft/v1">>, {"conversationId", "content"})

AuthorshipForm == Sealed(<<"pigeon/mailbox/own-record/v2">>, {"record"})

\* MailboxEnvelope: both identifiers have one length each.
EnvelopeForm == Sealed(<<>>, {"mailboxId", "envelopeId", "plaintext"})

\* PrivateNetworkSealedEnvelope, under a key derived from the network's.
NetworkSealed(label, fields) == Sealed(<<label>>, fields)

PubSubForm ==
    NetworkSealed("pigeon.private-network.pubsub.v2",
                  {"networkId", "topic", "payload"})

NetworkRelayForm ==
    NetworkSealed("pigeon.private-network.relay-record.v2",
                  {"expiresAt", "issuedAt", "multiaddrs", "peerId", "role",
                   "version"})

\* PrivateNetworkRelayRecordEnvelope.isRecord
NetworkRelayReads(record) == PublicRelayReads(record)

\* ProtectedUserRootKey: the secret is the password with the second factor.
UserRootKeyForm ==
    Sealed(<<"pigeon.user-root-key-protection.v1", "v1.scrypt.N262144">>,
           {"rootKey"})

EncryptedPrivateKeyForm == Sealed(<<"v3.scrypt.N16384">>, {"privateKey"})

\* SymmetricKey.encrypt without data of the caller's.
PayloadForm == Sealed(<<"v1.aes-256-gcm">>, {"payload"})

SealedForms ==
    [groupState |-> GroupStateForm, joinPackage |-> JoinPackageForm,
     deviceIdentity |-> DeviceIdentityForm, keySchedule |-> KeyScheduleForm,
     row |-> RowForm, canary |-> CanaryForm, rowTag |-> RowTagForm,
     history |-> HistoryForm, draft |-> DraftForm,
     authorship |-> AuthorshipForm, envelope |-> EnvelopeForm,
     pubSub |-> PubSubForm, networkRelay |-> NetworkRelayForm,
     userRootKey |-> UserRootKeyForm,
     encryptedPrivateKey |-> EncryptedPrivateKeyForm,
     payload |-> PayloadForm]

SealedReads(kind, record) ==
    /\ Shaped(SealedForms[kind], record)
    /\ kind = "row" => RowReads(record)
    /\ kind = "canary" => CanaryReads(record)
    /\ kind = "networkRelay" => NetworkRelayReads(record)
=============================================================================
