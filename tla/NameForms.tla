----------------------------- MODULE NameForms -----------------------------
(***************************************************************************)
(* What this library derives a name from: identifiers and digests anyone   *)
(* computes, and the keys, tokens and subjects whoever holds a secret      *)
(* derives.  Their texts are often parts put end to end, so here a part is *)
(* a sequence of characters, and what a part may hold decides whether two  *)
(* records share a text.  A digest or a derived key is the text it is made *)
(* from, also where the code keeps some of its bytes or digits.            *)
(***************************************************************************)
EXTENDS Naturals, SequencesExt

\* A mark no character of the text is.
Without(mark, text) == \A i \in DOMAIN text : text[i] # mark

Joined(mark, first, second) == first \o <<mark>> \o second

\* A length or an epoch, in as many bytes whatever it is: what a class takes
\* fits in them.
Count(n) == <<"count", n>>

\* A text under the label, prefix or namespace that says what it is.  Where
\* the code puts none before a text, what sets a kind apart may be the form of
\* its identifier: a UUID ("call"), a short identifier ("short"), the text of
\* an extension that is not hashed ("roster"), a list and not a record
\* ("frontiers"), or a keyed digest ("blob-owner").
Named(domain, body) == <<<<domain>>, body>>

\* The prefix of a text that has none.
NoPrefix == ""

LengthPrefixed(text) == <<Count(Len(text))>> \o text

\* Two texts in an order that does not depend on which comes first.
Sorted(first, second) ==
    CHOOSE pair \in {<<first, second>>, <<second, first>>} : TRUE

----------------------------------------------------------------------------
(* CommitmentId *)

\* `${creator}:${nonce}`; a nonce has no colon.
CallName(record) ==
    Named("call", Joined(":", record.creator, record.nonce))

CallReads(record) ==
    record.creator # <<>> /\ Without(":", record.nonce)

\* Mutant: a participant may hold a colon.
AnyPairReads(record) ==
    record.first # <<>> /\ record.second # <<>> /\ record.network # <<>>

\* CommitmentId.oneToOneConversation
OneToOneReads(record) ==
    /\ record.first # <<>> /\ Without(":", record.first)
    /\ record.second # <<>> /\ Without(":", record.second)
    /\ record.network # <<>>

OneToOneName(record) ==
    LET pair == Sorted(record.first, record.second)
    IN  Named("one-to-one",
                Joined(":", Joined(":", pair[1], pair[2]), record.network))

\* Canonical JSON of the fields, under the prefix of the identifier, if any.
CommunityName(record) == Named(NoPrefix, record)

GroupName(record) == Named("group", record)

InvitationName(record) == Named("invitation", record)

\* An empty recipient is no recipient.
RecordName(record) ==
    IF "recipientIdentityId" \in DOMAIN record
            /\ record.recipientIdentityId = ""
        THEN Named(NoPrefix,
                   [field \in DOMAIN record \ {"recipientIdentityId"} |->
                        record[field]])
        ELSE Named(NoPrefix, record)

\* The short identifiers are digests of JSON arrays, all under one prefix.
ChannelName(record) ==
    Named("short", <<"channel", record.communityId, record.creatorIdentityId,
                     record.createdAt>>)

RoleName(record) ==
    Named("short", <<"role", record.communityId, record.creatorIdentityId,
                     record.createdAt>>)

CommunityRequestName(record) ==
    Named("short", <<record.communityId, record.type,
                     record.creatorIdentityId, record.identityId,
                     record.createdAt>>)

ModerationName(record) ==
    Named("short", <<record.communityId, record.actorIdentityId,
                     record.action, record.targetType, record.targetId,
                     record.createdAt>>)

\* CommitmentId.groupMessageTag; the nonce is base64url.
MessageName(record) ==
    Named("pigeon-group-message-id",
          Joined("NUL", record.author, record.nonce))

MessageReads(record) == record.author # <<>> /\ Without("NUL", record.nonce)

\* CommitmentId.privateBlobOwner: the salt is the key of a digest.
BlobOwnerName(record) ==
    Named("blob-owner", <<record.salt, record.identityId>>)

----------------------------------------------------------------------------
(* Proofs of work: what the work is done for *)

AdmissionName(record) ==
    LET networks == SetToSeq(record.networkIds)
    IN  Named("pigeon-identity-admission:v2",
              LengthPrefixed(record.identityId)
                  \o <<Count(Len(networks))>>
                  \o FlattenSeq([i \in DOMAIN networks |->
                                     LengthPrefixed(networks[i])]))

MailboxCreationName(record) ==
    Named("pigeon-mailbox-creation:v2",
      LengthPrefixed(record.mailboxId)
          \o LengthPrefixed(record.postTokenHash)
          \o LengthPrefixed(record.readTokenHash))

----------------------------------------------------------------------------
(* What people compare, and digests of state *)

SafetyReads(record) ==
    Without("\n", record.first) /\ Without("\n", record.second)

SafetyName(record) ==
    LET pair == Sorted(record.first, record.second)
    IN  Named("pigeon-swarm:safety-number:v1", Joined("\n", pair[1], pair[2]))

VerificationName(record) ==
    Named("pigeon:device-pairing:verification:v1", record)

FingerprintOfSecret(record) ==
    Named("pigeon-swarm:key-fingerprint:v1", record.secret)

\* The key's own bytes, with nothing before them.  A key of 32 bytes in its
\* fixed encoding is not a text that begins with the domain of a secret.
FingerprintOfKey(record) == Named(NoPrefix, record)

\* The hash a bearer token is known by.
BearerName(record) == Named(NoPrefix, record)

\* StateDigest.of, of any record: one with the fields of an identifier would
\* have that identifier's text, and is not asked about; nor are the bytes
\* StateDigest.ofBytes digests, which may be any.
StateName(record) == Named(NoPrefix, record)

\* StateDigest.communityFrontiers: one sorted list of heads per community.
FrontiersName(record) == Named("frontiers", record.frontiers)

\* MlsRosterFrontier.encode: the heads in order.
RosterFrontierName(record) ==
    Named("pigeon:community-frontier:v1", record.heads)

\* GroupMailboxRosterExtension.valid
RosterReads(record) ==
    /\ record.creatorId \in record.memberIds \ record.adminIds
    /\ record.adminIds \subseteq record.memberIds

RosterName(record) == Named("roster", record)

----------------------------------------------------------------------------
(* Keys, tokens and subjects, derived with a secret *)

\* MailboxKeySchedule.schedule: the epoch is always of one length.
InboxName(label, record) ==
    Named(label, record.recipient \o <<Count(record.epoch)>>)

\* MailboxKeySchedule.contactPresence: the schedule of another secret.
PresenceName(record) ==
    Named("pigeon/contact-presence/v1",
      InboxName("pigeon/mailbox/id/v1", [recipient |-> record.recipient,
                                         epoch |-> 0]))

\* MailboxKeySchedule.groupInbox: first a slot, then each key of the slot.
GroupInboxName(label, record) ==
    Named(label, <<"pigeon/group-mailbox/slot/v1", record.member>>)

ReadTokenName(record) == Named("pigeon/mailbox/read/v1", record.mailboxId)

DeviceReadTokenName(record) ==
    Named("pigeon/mailbox/device-read/v1",
      LengthPrefixed(record.mailboxId) \o record.deviceCredential)

\* PrivateNetworkKeys, which derives nothing but by its label.
NetworkKeyName(label, record) == Named(label, record.networkKey)

\* CommunityInvitationKey.fromSecret: the key of a link.
LinkKeyName(record) ==
    Named("pigeon:community-invitation-key:v1", record.secret)

\* DeviceUnlockFactor.context: three parts without a line end.
UnlockReads(record) ==
    \A part \in {record.identityId, record.deviceId, record.secretHandle} :
        Without("\n", part)

UnlockName(record) ==
    Named("pigeon-swarm:device-unlock-factor:v1",
      Joined("\n", Joined("\n", record.identityId, record.deviceId),
             record.secretHandle))

\* TurnRestCredential.issue: `${expiresAtSeconds}:${user}`, a user without a
\* colon.
TurnReads(record) == Without(":", record.user)

TurnName(record) ==
    Named("hmac-sha1", Joined(":", record.expiresAtSeconds, record.user))

TurnSubjectName(record) == Named("pigeon.turn.subject.v2", record.peerId)

\* RecoveryKit.derive: the authority's salt is a digest of the identity that
\* the same recovery key derives.
RecoveryName(info, record) == Named(info, record.recoveryKey)

\* CallMediaFrameContext.info: the sealer's identifier is of one length.
FrameContextName(record) ==
    Named("call-media-frame",
      LengthPrefixed(record.callId) \o LengthPrefixed(record.senderId)
          \o <<Count(record.epoch), record.sealerId>>)

----------------------------------------------------------------------------

\* The text a record is named by.
NameOf(kind, record) ==
    CASE kind = "call" -> CallName(record)
      [] kind = "oneToOne" -> OneToOneName(record)
      [] kind = "community" -> CommunityName(record)
      [] kind = "group" -> GroupName(record)
      [] kind = "invitation" -> InvitationName(record)
      [] kind = "mlsRecord" -> RecordName(record)
      [] kind = "channel" -> ChannelName(record)
      [] kind = "role" -> RoleName(record)
      [] kind = "communityRequest" -> CommunityRequestName(record)
      [] kind = "moderation" -> ModerationName(record)
      [] kind = "groupMessage" -> MessageName(record)
      [] kind = "blobOwner" -> BlobOwnerName(record)
      [] kind = "admission" -> AdmissionName(record)
      [] kind = "mailboxCreation" -> MailboxCreationName(record)
      [] kind = "safetyNumber" -> SafetyName(record)
      [] kind = "verificationCode" -> VerificationName(record)
      [] kind = "secretFingerprint" -> FingerprintOfSecret(record)
      [] kind = "keyFingerprint" -> FingerprintOfKey(record)
      [] kind = "bearer" -> BearerName(record)
      [] kind = "state" -> StateName(record)
      [] kind = "frontiers" -> FrontiersName(record)
      [] kind = "rosterFrontier" -> RosterFrontierName(record)
      [] kind = "roster" -> RosterName(record)
      [] kind = "mailboxId" -> InboxName("pigeon/mailbox/id/v1", record)
      [] kind = "postToken" -> InboxName("pigeon/mailbox/post/v1", record)
      [] kind = "envelopeKey" ->
             InboxName("pigeon/mailbox/envelope/v1", record)
      [] kind = "presence" -> PresenceName(record)
      [] kind = "groupMailboxId" ->
             GroupInboxName("pigeon/group-mailbox/id/v1", record)
      [] kind = "groupPostToken" ->
             GroupInboxName("pigeon/group-mailbox/post/v1", record)
      [] kind = "groupEnvelopeKey" ->
             GroupInboxName("pigeon/group-mailbox/envelope/v1", record)
      [] kind = "readToken" -> ReadTokenName(record)
      [] kind = "deviceReadToken" -> DeviceReadTokenName(record)
      [] kind = "networkFingerprint" ->
             NetworkKeyName("pigeon.private-network.fingerprint.v2", record)
      [] kind = "relayLookup" ->
             NetworkKeyName("pigeon.private-network.relay-lookup.v2", record)
      [] kind = "swarmKey" ->
             NetworkKeyName("pigeon.private-network.swarm-psk.v2", record)
      [] kind = "linkKey" -> LinkKeyName(record)
      [] kind = "unlockFactor" -> UnlockName(record)
      [] kind = "turnUser" -> TurnName(record)
      [] kind = "turnSubject" -> TurnSubjectName(record)
      [] kind = "recoveryIdentity" ->
             RecoveryName("pigeon-swarm:recovery-identity-signing:v1", record)
      [] kind = "recoveryRoot" ->
             RecoveryName("pigeon-swarm:recovery-user-root:v1", record)
      [] kind = "recoveryAuthority" ->
             RecoveryName("pigeon-swarm:recovery-authority:v1", record)
      [] kind = "frameContext" -> FrameContextName(record)

\* The fields of each kind, but for those that may be absent.
NameFields ==
    [call |-> {"creator", "nonce"},
     oneToOne |-> {"first", "second", "network"},
     community |-> {"networkId", "nonce", "ownerIdentityId"},
     group |-> {"creatorIdentityId", "networkId", "nonce"},
     invitation |-> {"inviterIdentityId", "nonce", "recipientIdentityId"},
     mlsRecord |-> {"groupId", "kind", "payload"},
     channel |-> {"communityId", "creatorIdentityId", "createdAt"},
     role |-> {"communityId", "creatorIdentityId", "createdAt"},
     communityRequest |-> {"communityId", "type", "creatorIdentityId",
                           "identityId", "createdAt"},
     moderation |-> {"communityId", "actorIdentityId", "action",
                     "targetType", "targetId", "createdAt"},
     groupMessage |-> {"author", "nonce"},
     blobOwner |-> {"salt", "identityId"},
     admission |-> {"identityId", "networkIds"},
     mailboxCreation |-> {"mailboxId", "postTokenHash", "readTokenHash"},
     safetyNumber |-> {"first", "second"},
     verificationCode |-> {"operationId", "pairingId", "targetCredential",
                           "transportPublicKey"},
     secretFingerprint |-> {"secret"}, keyFingerprint |-> {"key"},
     bearer |-> {"token"}, frontiers |-> {"frontiers"},
     rosterFrontier |-> {"heads"},
     roster |-> {"adminIds", "conversationId", "creatorId", "memberIds",
                 "name", "version"},
     mailboxId |-> {"recipient", "epoch"},
     postToken |-> {"recipient", "epoch"},
     envelopeKey |-> {"recipient", "epoch"}, presence |-> {"recipient"},
     groupMailboxId |-> {"member"}, groupPostToken |-> {"member"},
     groupEnvelopeKey |-> {"member"}, readToken |-> {"mailboxId"},
     deviceReadToken |-> {"mailboxId", "deviceCredential"},
     networkFingerprint |-> {"networkKey"}, relayLookup |-> {"networkKey"},
     swarmKey |-> {"networkKey"},
     linkKey |-> {"secret"},
     unlockFactor |-> {"identityId", "deviceId", "secretHandle"},
     turnUser |-> {"expiresAtSeconds", "user"}, turnSubject |-> {"peerId"},
     recoveryIdentity |-> {"recoveryKey"}, recoveryRoot |-> {"recoveryKey"},
     recoveryAuthority |-> {"recoveryKey"},
     frameContext |-> {"callId", "senderId", "epoch", "sealerId"}]

\* The fields that are part of a text put end to end.
TextParts ==
    [call |-> {"creator", "nonce"},
     oneToOne |-> {"first", "second", "network"},
     groupMessage |-> {"author", "nonce"}, admission |-> {"identityId"},
     mailboxCreation |-> {"mailboxId", "postTokenHash", "readTokenHash"},
     safetyNumber |-> {"first", "second"}, mailboxId |-> {"recipient"},
     postToken |-> {"recipient"}, envelopeKey |-> {"recipient"},
     presence |-> {"recipient"},
     deviceReadToken |-> {"mailboxId", "deviceCredential"},
     unlockFactor |-> {"identityId", "deviceId", "secretHandle"},
     turnUser |-> {"expiresAtSeconds", "user"},
     frameContext |-> {"callId", "senderId"}]

MayBeAbsent(kind) ==
    CASE kind = "mlsRecord" -> {"epoch", "recipientIdentityId"}
      [] kind = "invitation" -> {"subjectId"}
      [] OTHER -> {}

\* Whether the class that names this kind takes the record.
NameReads(kind, record) ==
    /\ kind # "state" =>
           DOMAIN record \ MayBeAbsent(kind) = NameFields[kind]
    /\ kind = "call" => CallReads(record)
    /\ kind = "oneToOne" => OneToOneReads(record)
    /\ kind = "groupMessage" => MessageReads(record)
    /\ kind = "safetyNumber" => SafetyReads(record)
    /\ kind = "admission" => record.networkIds # {}
    /\ kind = "roster" => RosterReads(record)
    /\ kind = "unlockFactor" => UnlockReads(record)
    /\ kind = "turnUser" => TurnReads(record)
    /\ kind = "communityRequest" => record.type \in {"invitation", "request"}

\* What a record says: which participant comes first says nothing, nor does
\* an empty recipient.
Meaning(kind, record) ==
    CASE kind \in {"oneToOne", "safetyNumber"} ->
             [record EXCEPT !.first = {record.first, record.second},
                            !.second = {}]
      [] kind = "mlsRecord" -> RecordName(record)[2]
      [] OTHER -> record
=============================================================================
