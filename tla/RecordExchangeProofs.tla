------------------------ MODULE RecordExchangeProofs ------------------------
(***************************************************************************)
(* Theorems about RecordExchange, whatever the records, the keys, the bad  *)
(* keys, the clock's bound and the skew.                                   *)
(*                                                                         *)
(* That a document counts for one kind only rests on SameText: the domain  *)
(* tells the kinds apart but for three relay and mailbox forms and the     *)
(* rows of a device, which their fields or their purpose tell apart, and a *)
(* text holds the whole record.  That no request is served twice needs the *)
(* strengthening ForgottenIsOld: what the server served it still           *)
(* remembers, or it is too old to be fresh again.                          *)
(***************************************************************************)
EXTENDS RecordExchange, NumberLemmas, SequenceTheorems, FiniteSetTheorems,
        TLAPS

FormKinds == DOMAIN SignedForms \union DOMAIN SealedForms

FormOf(kind) ==
    IF kind \in DOMAIN SignedForms THEN SignedForms[kind]
                                   ELSE SealedForms[kind]

----------------------------------------------------------------------------
(* Domains *)

\* No kind is both signed and sealed, nor a name.
LEMMA KindsApart ==
    /\ DOMAIN SignedForms \intersect DOMAIN SealedForms = {}
    /\ FormKinds \intersect NameKinds = {}
BY DEF SignedForms, SealedForms, FormKinds, NameKinds, NameFields

\* Signed kinds have a domain each, but for the two relay records.
LEMMA SignedApart ==
    ASSUME NEW one \in DOMAIN SignedForms, NEW other \in DOMAIN SignedForms,
           SignedForms[one].domain = SignedForms[other].domain
    PROVE  one = other \/ {one, other} \subseteq {"publicRelay", "callRelay"}
BY DEF SignedForms, IdentityForm, KeychainForm, SealedSecretForm,
       LeafCredentialForm, PossessionForm, TransitionForm, PairingForm,
       PairingInvitationForm, PairingRequestForm, PairingCompletionForm,
       MutationForm, RequestForm, CommunityOperationForm, InvitationForm,
       ConsentForm, InvitationPossessionForm, LetterForm, PublicRelayForm,
       CallRelayForm, OperationForm, ScheduleForm, GenesisForm, ControlForm,
       FreshnessForm, Form

\* So have sealed kinds, but for a row and the canary among the rows.
LEMMA SealedApart ==
    ASSUME NEW one \in DOMAIN SealedForms, NEW other \in DOMAIN SealedForms,
           SealedForms[one].domain = SealedForms[other].domain
    PROVE  one = other \/ {one, other} \subseteq {"row", "canary"}
BY DEF Form, SealedForms, Sealed, RootProtected, GroupStateForm,
       JoinPackageForm, DeviceIdentityForm, KeyScheduleForm, RowForm,
       CanaryForm, RowTagForm, HistoryForm, DraftForm, AuthorshipForm,
       EnvelopeForm, PubSubForm, NetworkSealed, NetworkRelayForm,
       UserRootKeyForm, EncryptedPrivateKeyForm, PayloadForm

\* A relay record and an envelope are the only ones of both sorts to share one.
LEMMA SignedSealedApart ==
    ASSUME NEW one \in DOMAIN SignedForms, NEW other \in DOMAIN SealedForms,
           SignedForms[one].domain = SealedForms[other].domain
    PROVE  one \in {"publicRelay", "callRelay"} /\ other = "envelope"
BY SMTT(60) DEF SignedForms, IdentityForm, KeychainForm, SealedSecretForm,
       LeafCredentialForm, PossessionForm, TransitionForm, PairingForm,
       PairingInvitationForm, PairingRequestForm, PairingCompletionForm,
       MutationForm, RequestForm, CommunityOperationForm, InvitationForm,
       ConsentForm, InvitationPossessionForm, LetterForm, PublicRelayForm,
       CallRelayForm, OperationForm, ScheduleForm, GenesisForm, ControlForm,
       FreshnessForm, Form,
       SealedForms, Sealed, RootProtected, GroupStateForm,
       JoinPackageForm, DeviceIdentityForm, KeyScheduleForm, RowForm,
       CanaryForm, RowTagForm, HistoryForm, DraftForm, AuthorshipForm,
       EnvelopeForm, PubSubForm, NetworkSealed, NetworkRelayForm,
       UserRootKeyForm, EncryptedPrivateKeyForm, PayloadForm

\* Two kinds with one domain are one kind, two records of relays or
\* mailboxes, or a row and a canary.
LEMMA FormsApart ==
    ASSUME NEW one \in FormKinds, NEW other \in FormKinds,
           FormOf(one).domain = FormOf(other).domain
    PROVE  \/ one = other
           \/ {one, other} \subseteq {"publicRelay", "callRelay", "envelope"}
           \/ {one, other} \subseteq {"row", "canary"}
<1>1. CASE one \in DOMAIN SignedForms /\ other \in DOMAIN SignedForms
  BY <1>1, SignedApart DEF FormOf
<1>2. CASE one \notin DOMAIN SignedForms /\ other \notin DOMAIN SignedForms
  BY <1>2, SealedApart DEF FormOf, FormKinds
<1>3. CASE one \in DOMAIN SignedForms /\ other \notin DOMAIN SignedForms
  BY <1>3, SignedSealedApart DEF FormOf, FormKinds
<1>4. CASE one \notin DOMAIN SignedForms /\ other \in DOMAIN SignedForms
  BY <1>4, SignedSealedApart DEF FormOf, FormKinds
<1>. QED  BY <1>1, <1>2, <1>3, <1>4

\* The label the names of each kind begin with.
LabelOf ==
    [call |-> "call", oneToOne |-> "one-to-one", community |-> NoPrefix,
     group |-> "group", invitation |-> "invitation", mlsRecord |-> NoPrefix,
     channel |-> "short", role |-> "short", communityRequest |-> "short",
     moderation |-> "short", groupMessage |-> "pigeon-group-message-id",
     blobOwner |-> "blob-owner", admission |-> "pigeon-identity-admission:v2",
     mailboxCreation |-> "pigeon-mailbox-creation:v2",
     safetyNumber |-> "pigeon-swarm:safety-number:v1",
     verificationCode |-> "pigeon:device-pairing:verification:v1",
     secretFingerprint |-> "pigeon-swarm:key-fingerprint:v1",
     keyFingerprint |-> NoPrefix, bearer |-> NoPrefix, state |-> NoPrefix,
     frontiers |-> "frontiers",
     rosterFrontier |-> "pigeon:community-frontier:v1", roster |-> "roster",
     mailboxId |-> "pigeon/mailbox/id/v1",
     postToken |-> "pigeon/mailbox/post/v1",
     envelopeKey |-> "pigeon/mailbox/envelope/v1",
     presence |-> "pigeon/contact-presence/v1",
     groupMailboxId |-> "pigeon/group-mailbox/id/v1",
     groupPostToken |-> "pigeon/group-mailbox/post/v1",
     groupEnvelopeKey |-> "pigeon/group-mailbox/envelope/v1",
     readToken |-> "pigeon/mailbox/read/v1",
     deviceReadToken |-> "pigeon/mailbox/device-read/v1",
     networkFingerprint |-> "pigeon.private-network.fingerprint.v2",
     relayLookup |-> "pigeon.private-network.relay-lookup.v2",
     swarmKey |-> "pigeon.private-network.swarm-psk.v2",
     linkKey |-> "pigeon:community-invitation-key:v1",
     unlockFactor |-> "pigeon-swarm:device-unlock-factor:v1",
     turnUser |-> "hmac-sha1", turnSubject |-> "pigeon.turn.subject.v2",
     recoveryIdentity |-> "pigeon-swarm:recovery-identity-signing:v1",
     recoveryRoot |-> "pigeon-swarm:recovery-user-root:v1",
     recoveryAuthority |-> "pigeon-swarm:recovery-authority:v1",
     frameContext |-> "call-media-frame"]

\* Digests of canonical JSON, under no prefix.
Digests == {"community", "mlsRecord", "keyFingerprint", "bearer", "state"}

\* Identifiers digested from JSON arrays, under one prefix.
Shorts == {"channel", "role", "communityRequest", "moderation"}

NamePrefixes ==
    {"call", "one-to-one", "group", "invitation", "short",
     "pigeon-group-message-id", "blob-owner",
     "pigeon-identity-admission:v2", "pigeon-mailbox-creation:v2",
     "pigeon-swarm:safety-number:v1",
     "pigeon:device-pairing:verification:v1",
     "pigeon-swarm:key-fingerprint:v1", "frontiers",
     "pigeon:community-frontier:v1", "roster", "pigeon/mailbox/id/v1",
     "pigeon/mailbox/post/v1", "pigeon/mailbox/envelope/v1",
     "pigeon/contact-presence/v1", "pigeon/group-mailbox/id/v1",
     "pigeon/group-mailbox/post/v1",
     "pigeon/group-mailbox/envelope/v1", "pigeon/mailbox/read/v1",
     "pigeon/mailbox/device-read/v1",
     "pigeon.private-network.fingerprint.v2",
     "pigeon.private-network.relay-lookup.v2",
     "pigeon.private-network.swarm-psk.v2",
     "pigeon:community-invitation-key:v1",
     "pigeon-swarm:device-unlock-factor:v1", "hmac-sha1",
     "pigeon.turn.subject.v2",
     "pigeon-swarm:recovery-identity-signing:v1",
     "pigeon-swarm:recovery-user-root:v1",
     "pigeon-swarm:recovery-authority:v1", "call-media-frame"}

NameLabels == NamePrefixes \union {NoPrefix}

\* Only a digest has no prefix.
LEMMA LabelsOfKinds ==
    ASSUME NEW kind \in NameKinds
    PROVE  IF kind \in Digests THEN LabelOf[kind] = NoPrefix
                               ELSE LabelOf[kind] \in NamePrefixes
<1>1. NameKinds = DOMAIN LabelOf
  BY DEF LabelOf, NameKinds, NameFields
<1>2. \A other \in DOMAIN LabelOf :
          IF other \in Digests THEN LabelOf[other] = NoPrefix
                               ELSE LabelOf[other] \in NamePrefixes
  BY DEF LabelOf, NamePrefixes, Digests
<1>. QED  BY <1>1, <1>2

\* Names with one label are of one kind, digests, or short identifiers.
LEMMA NamesApart ==
    ASSUME NEW one \in NameKinds, NEW other \in NameKinds,
           LabelOf[one] = LabelOf[other]
    PROVE  \/ one = other
           \/ {one, other} \subseteq Digests
           \/ {one, other} \subseteq Shorts
<1>1. NameKinds = DOMAIN LabelOf
  BY DEF LabelOf, NameKinds, NameFields
<1>2. NoPrefix \notin NamePrefixes
  BY Zenon DEF NoPrefix, NamePrefixes
<1>3. one \in Digests <=> other \in Digests
  BY <1>2, LabelsOfKinds
<1>4. \A first, second \in DOMAIN LabelOf \ Digests :
          LabelOf[first] = LabelOf[second] =>
              first = second \/ {first, second} \subseteq Shorts
  BY DEF LabelOf, Digests, Shorts
<1>. QED  BY <1>1, <1>3, <1>4

\* The text of a name starts with the label of its kind.
LEMMA NamesLabelled ==
    ASSUME NEW kind \in NameKinds, NEW record
    PROVE  NameOf(kind, record)[1] = <<LabelOf[kind]>>
<1>. USE DEF NameOf, Named, LabelOf
<1>1. CASE kind = "call"  BY <1>1 DEF CallName
<1>2. CASE kind = "oneToOne"  BY <1>2 DEF OneToOneName
<1>3. CASE kind = "community"  BY <1>3 DEF CommunityName
<1>4. CASE kind = "group"  BY <1>4 DEF GroupName
<1>5. CASE kind = "invitation"  BY <1>5 DEF InvitationName
<1>6. CASE kind = "mlsRecord"  BY <1>6 DEF RecordName
<1>7. CASE kind = "channel"  BY <1>7 DEF ChannelName
<1>8. CASE kind = "role"  BY <1>8 DEF RoleName
<1>9. CASE kind = "communityRequest"  BY <1>9 DEF CommunityRequestName
<1>10. CASE kind = "moderation"  BY <1>10 DEF ModerationName
<1>11. CASE kind = "groupMessage"  BY <1>11 DEF MessageName
<1>12. CASE kind = "blobOwner"  BY <1>12 DEF BlobOwnerName
<1>13. CASE kind = "admission"  BY <1>13 DEF AdmissionName
<1>14. CASE kind = "mailboxCreation"  BY <1>14 DEF MailboxCreationName
<1>15. CASE kind = "safetyNumber"  BY <1>15 DEF SafetyName
<1>16. CASE kind = "verificationCode"  BY <1>16 DEF VerificationName
<1>17. CASE kind = "secretFingerprint"  BY <1>17 DEF FingerprintOfSecret
<1>18. CASE kind = "keyFingerprint"  BY <1>18 DEF FingerprintOfKey
<1>19. CASE kind = "bearer"  BY <1>19 DEF BearerName
<1>20. CASE kind = "state"  BY <1>20 DEF StateName
<1>21. CASE kind = "frontiers"  BY <1>21 DEF FrontiersName
<1>22. CASE kind = "rosterFrontier"  BY <1>22 DEF RosterFrontierName
<1>23. CASE kind = "roster"  BY <1>23 DEF RosterName
<1>24. CASE kind = "mailboxId"  BY <1>24 DEF InboxName
<1>25. CASE kind = "postToken"  BY <1>25 DEF InboxName
<1>26. CASE kind = "envelopeKey"  BY <1>26 DEF InboxName
<1>27. CASE kind = "presence"  BY <1>27 DEF PresenceName
<1>28. CASE kind = "groupMailboxId"  BY <1>28 DEF GroupInboxName
<1>29. CASE kind = "groupPostToken"  BY <1>29 DEF GroupInboxName
<1>30. CASE kind = "groupEnvelopeKey"  BY <1>30 DEF GroupInboxName
<1>31. CASE kind = "readToken"  BY <1>31 DEF ReadTokenName
<1>32. CASE kind = "deviceReadToken"  BY <1>32 DEF DeviceReadTokenName
<1>33. CASE kind = "networkFingerprint"  BY <1>33 DEF NetworkKeyName
<1>34. CASE kind = "relayLookup"  BY <1>34 DEF NetworkKeyName
<1>35. CASE kind = "swarmKey"  BY <1>35 DEF NetworkKeyName
<1>36. CASE kind = "linkKey"  BY <1>36 DEF LinkKeyName
<1>37. CASE kind = "unlockFactor"  BY <1>37 DEF UnlockName
<1>38. CASE kind = "turnUser"  BY <1>38 DEF TurnName
<1>39. CASE kind = "turnSubject"  BY <1>39 DEF TurnSubjectName
<1>40. CASE kind = "recoveryIdentity"  BY <1>40 DEF RecoveryName
<1>41. CASE kind = "recoveryRoot"  BY <1>41 DEF RecoveryName
<1>42. CASE kind = "recoveryAuthority"  BY <1>42 DEF RecoveryName
<1>43. CASE kind = "frameContext"  BY <1>43 DEF FrameContextName
<1>. QED
  BY ZenonT(60), <1>1, <1>2, <1>3, <1>4, <1>5, <1>6, <1>7, <1>8, <1>9,
     <1>10, <1>11, <1>12, <1>13, <1>14, <1>15, <1>16, <1>17, <1>18, <1>19,
     <1>20, <1>21, <1>22, <1>23, <1>24, <1>25, <1>26, <1>27, <1>28, <1>29,
     <1>30, <1>31, <1>32, <1>33, <1>34, <1>35, <1>36, <1>37, <1>38, <1>39,
     <1>40, <1>41, <1>42, <1>43
     DEF NameKinds, NameFields

\* The first part of every domain that has one.
FormLabels ==
    {"pigeon:identity:v1", "pigeon:keychain:v1",
     "pigeon:device-sealed-secret:v1", "pigeon:mls-leaf-credential:v2",
     "pigeon:device-authorization:proof-of-possession:v2",
     "pigeon:device-authorization:transition:v3", "pigeon:device-pairing",
     "pigeon:public-mutation:v2", "pigeon:signed-http-request:v1",
     "pigeon:community-operation:v1",
     "pigeon:community-invitation-consent:v1",
     "pigeon:community-invitation-possession:v1",
     "pigeon:group-mailbox-control-letter:v1", "pigeon.private-operation.v1",
     "pigeon.private-delivery-schedule.v1", "pigeon.private-genesis.v1",
     "pigeon.private-control.v2", "pigeon.private-freshness.v1",
     "v1.hkdf-sha256.aes-256-gcm", "v1", "tag:v1",
     "pigeon-swarm:history-backup:v1", "pigeon/conversation-draft/v1",
     "pigeon/mailbox/own-record/v2", "pigeon.private-network.pubsub.v2",
     "pigeon.private-network.relay-record.v2",
     "pigeon.user-root-key-protection.v1", "v3.scrypt.N16384",
     "v1.aes-256-gcm"}

\* No label of a name is the domain of a form.
LEMMA LabelsApart ==
    ASSUME NEW kind \in FormKinds, NEW label \in NameLabels
    PROVE  FormOf(kind).domain # <<label>>
<1>1. ASSUME NEW signed \in DOMAIN SignedForms
      PROVE  \/ SignedForms[signed].domain = <<>>
             \/ SignedForms[signed].domain[1] \in FormLabels
  BY DEF FormLabels, SignedForms, IdentityForm, KeychainForm,
         SealedSecretForm, LeafCredentialForm, PossessionForm,
         TransitionForm, PairingForm, PairingInvitationForm,
         PairingRequestForm, PairingCompletionForm, MutationForm,
         RequestForm, CommunityOperationForm, InvitationForm, ConsentForm,
         InvitationPossessionForm, LetterForm, PublicRelayForm,
         CallRelayForm, OperationForm, ScheduleForm, GenesisForm,
         ControlForm, FreshnessForm, Form
<1>2. ASSUME NEW sealed \in DOMAIN SealedForms
      PROVE  \/ SealedForms[sealed].domain = <<>>
             \/ SealedForms[sealed].domain[1] \in FormLabels
  BY DEF FormLabels, Form, SealedForms, Sealed, RootProtected,
         GroupStateForm, JoinPackageForm, DeviceIdentityForm,
         KeyScheduleForm, RowForm, CanaryForm, RowTagForm, HistoryForm,
         DraftForm, AuthorshipForm, EnvelopeForm, PubSubForm, NetworkSealed,
         NetworkRelayForm, UserRootKeyForm, EncryptedPrivateKeyForm,
         PayloadForm
<1>3. label \notin FormLabels
  <2>1. NoPrefix \notin FormLabels
    BY Zenon DEF NoPrefix, FormLabels
  <2>2. NamePrefixes \intersect FormLabels = {}
    BY DEF NamePrefixes, FormLabels
  <2>. QED  BY <2>1, <2>2 DEF NameLabels
<1>4. <<label>> # <<>> /\ <<label>>[1] = label
  OBVIOUS
<1>. QED  BY <1>1, <1>2, <1>3, <1>4 DEF FormKinds, FormOf

----------------------------------------------------------------------------
(* Texts *)

\* The text of an entry that is signed or sealed is its domain and its whole
\* record; a class refuses a record that is not of its form.
LEMMA FormText ==
    ASSUME NEW entry \in Readable, KindOf(entry) # "named"
    PROVE  /\ entry.kind \in FormKinds
           /\ TextOf(entry) = <<FormOf(entry.kind).domain, entry.record>>
           /\ Shaped(FormOf(entry.kind), entry.record)
<1>1. entry.record = [field \in DOMAIN entry.record |-> entry.record[field]]
  BY EntriesAssumption DEF Readable
<1>2. CASE entry.kind \in DOMAIN SignedForms
  <2>1. KindOf(entry) = "signed"
    BY <1>2, KindsApart DEF KindOf
  <2>2. TextOf(entry) = Text(SignedForms[entry.kind], entry.record)
    BY <2>1 DEF TextOf
  <2>3. SignedReads(entry.kind, entry.record)
    BY <2>1 DEF Readable, Reads
  <2>. QED  BY <1>1, <1>2, <2>2, <2>3
            DEF Text, FormOf, FormKinds, SignedReads
<1>3. CASE entry.kind \notin DOMAIN SignedForms
  <2>1. entry.kind \in DOMAIN SealedForms
    BY <1>3 DEF KindOf
  <2>2. KindOf(entry) = "sealed"
    BY <1>3, <2>1 DEF KindOf
  <2>3. TextOf(entry) = Text(SealedForms[entry.kind], entry.record)
    BY <2>2 DEF TextOf
  <2>4. SealedReads(entry.kind, entry.record)
    BY <2>2 DEF Readable, Reads
  <2>. QED  BY <1>1, <1>3, <2>1, <2>3, <2>4
            DEF Text, FormOf, FormKinds, SealedReads
<1>. QED  BY <1>2, <1>3

\* A record of no form is that of a name, and its text starts so.
LEMMA NamedText ==
    ASSUME NEW entry \in Readable, KindOf(entry) = "named"
    PROVE  /\ entry.kind \in NameKinds
           /\ TextOf(entry)[1] \in {<<label>> : label \in NameLabels}
<1>1. entry.kind \notin FormKinds
  BY DEF KindOf, FormKinds
<1>2. entry.kind \in NameKinds
  BY <1>1, EntriesAssumption DEF Readable, FormKinds
<1>3. TextOf(entry) = NameOf(entry.kind, entry.record)
  BY <1>1 DEF TextOf, KindOf, FormKinds
<1>4. LabelOf[entry.kind] \in NameLabels
  BY <1>2, LabelsOfKinds DEF NameLabels
<1>. QED  BY <1>2, <1>3, <1>4, NamesLabelled

\* A text that a form and a name could both have there is not.
LEMMA TextsOfForms ==
    ASSUME NEW entry \in Readable, NEW kind \in FormKinds, NEW record,
           TextOf(entry) = <<FormOf(kind).domain, record>>
    PROVE  KindOf(entry) # "named"
<1>1. TextOf(entry)[1] = FormOf(kind).domain
  OBVIOUS
<1>2. SUFFICES ASSUME KindOf(entry) = "named"  PROVE FALSE
  OBVIOUS
<1>3. PICK label \in NameLabels : FormOf(kind).domain = <<label>>
  BY <1>1, <1>2, NamedText
<1>. QED  BY <1>3, LabelsApart

\* The forms that share a domain have fields the others have not, or a
\* purpose of their own.
LEMMA FieldsApart ==
    ASSUME NEW one, NEW other, NEW record,
           \/ {one, other} \subseteq {"publicRelay", "callRelay", "envelope"}
           \/ {one, other} \subseteq {"row", "canary"},
           one = "row" => record.purpose # "canary",
           other = "row" => record.purpose # "canary",
           one = "canary" => record.purpose = "canary",
           other = "canary" => record.purpose = "canary",
           Shaped(FormOf(one), record), Shaped(FormOf(other), record)
    PROVE  one = other
<1>1. /\ "urls" \notin FormOf("publicRelay").required
                           \union FormOf("publicRelay").optional
      /\ "urls" \in FormOf("callRelay").required
      /\ "role" \in FormOf("publicRelay").required
      /\ "role" \in FormOf("callRelay").required
      /\ "role" \notin FormOf("envelope").required
                           \union FormOf("envelope").optional
  BY DEF FormOf, SignedForms, SealedForms, PublicRelayForm, CallRelayForm,
         EnvelopeForm, Sealed, Form
<1>2. CASE {one, other} \subseteq {"publicRelay", "callRelay", "envelope"}
  BY <1>1, <1>2 DEF Shaped
<1>3. CASE {one, other} \subseteq {"row", "canary"}
  BY <1>3
<1>. QED  BY <1>2, <1>3

\* Two entries with one text, one of which is signed or sealed, say the same.
LEMMA SameText ==
    ASSUME NEW one \in Readable, NEW other \in Readable,
           KindOf(one) # "named", TextOf(one) = TextOf(other)
    PROVE  one.kind = other.kind /\ one.record = other.record
<1>1. /\ one.kind \in FormKinds
      /\ TextOf(one) = <<FormOf(one.kind).domain, one.record>>
      /\ Shaped(FormOf(one.kind), one.record)
  BY FormText
<1>2. KindOf(other) # "named"
  BY <1>1, TextsOfForms
<1>3. /\ other.kind \in FormKinds
      /\ TextOf(other) = <<FormOf(other.kind).domain, other.record>>
      /\ Shaped(FormOf(other.kind), other.record)
  BY <1>2, FormText
<1>4. <<FormOf(one.kind).domain, one.record>>
          = <<FormOf(other.kind).domain, other.record>>
  BY <1>1, <1>3
<1>5. /\ one.record = other.record
      /\ FormOf(one.kind).domain = FormOf(other.kind).domain
  BY ONLY <1>4, Zenon
<1>6. ASSUME NEW entry \in {one, other}
      PROVE  /\ entry.kind = "row" => entry.record.purpose # "canary"
             /\ entry.kind = "canary" => entry.record.purpose = "canary"
  <2>1. KindOf(entry) # "named" /\ entry \in Readable
    BY <1>2
  <2>2. SUFFICES ASSUME entry.kind \in {"row", "canary"}
                 PROVE  SealedReads(entry.kind, entry.record)
    BY DEF SealedReads, RowReads, CanaryReads
  <2>3. entry.kind \notin DOMAIN SignedForms
    BY <2>2 DEF SignedForms
  <2>4. entry.kind \in DOMAIN SealedForms
    BY <2>1, <2>3 DEF KindOf
  <2>5. KindOf(entry) = "sealed"
    BY <2>3, <2>4 DEF KindOf
  <2>. QED  BY <2>1, <2>5 DEF Readable, Reads
<1>7. one.kind = other.kind
  BY <1>1, <1>3, <1>5, <1>6, FormsApart, FieldsApart
<1>. QED  BY <1>5, <1>7

----------------------------------------------------------------------------
(* Texts put end to end *)

\* What stands where in two texts put end to end.
Appended(a, b, text) ==
    /\ Len(a) \in Nat /\ Len(b) \in Nat
    /\ Len(text) = Len(a) + Len(b)
    /\ \A i \in 1..Len(a) : text[i] = a[i]
    /\ \A i \in 1..Len(b) : text[Len(a) + i] = b[i]

\* Two texts put end to end are a text, in which each stands in its place.
LEMMA EndToEnd ==
    ASSUME NEW S, NEW a \in Seq(S), NEW b \in Seq(S)
    PROVE  a \o b \in Seq(S) /\ Appended(a, b, a \o b)
<1>1. Len(a) \in Nat /\ Len(b) \in Nat
  OBVIOUS
<1>2. /\ a \o b \in Seq(S) /\ Len(a \o b) = Len(a) + Len(b)
      /\ \A i \in 1..Len(a) + Len(b) :
             (a \o b)[i] = IF i <= Len(a) THEN a[i] ELSE b[i - Len(a)]
  BY ConcatProperties
<1>3. ASSUME NEW i \in 1..Len(a)  PROVE (a \o b)[i] = a[i]
  BY <1>1, <1>2
<1>4. ASSUME NEW i \in 1..Len(b)  PROVE (a \o b)[Len(a) + i] = b[i]
  <2>1. /\ Len(a) + i \in 1..Len(a) + Len(b) /\ ~(Len(a) + i <= Len(a))
        /\ (Len(a) + i) - Len(a) = i
    BY <1>1
  <2>. QED  BY <1>2, <2>1
<1>. QED  BY <1>1, <1>2, <1>3, <1>4 DEF Appended

\* Two texts put end to end, the first of one length: both are the same.
LEMMA SplitAt ==
    ASSUME NEW S, NEW a \in Seq(S), NEW b \in Seq(S),
           NEW c \in Seq(S), NEW d \in Seq(S),
           a \o b = c \o d, Len(a) = Len(c)
    PROVE  a = c /\ b = d
<1>1. Appended(a, b, a \o b) /\ Appended(c, d, c \o d)
  BY EndToEnd
<1>. DEFINE text == a \o b
<1>2. Appended(a, b, text) /\ Appended(c, d, text)
  BY <1>1
<1>. HIDE DEF text
<1>3. Len(b) = Len(d)
  BY <1>2 DEF Appended
<1>4. (\A i \in 1..Len(a) : a[i] = c[i]) /\ \A i \in 1..Len(b) : b[i] = d[i]
  BY <1>2, <1>3 DEF Appended
<1>. QED  BY <1>3, <1>4, SeqEqual

\* What stands where in two texts with a mark between them.
Marked(mark, a, b, joined) ==
    /\ Len(a) \in Nat /\ Len(b) \in Nat
    /\ Len(joined) = Len(a) + 1 + Len(b)
    /\ \A i \in 1..Len(a) : joined[i] = a[i]
    /\ joined[Len(a) + 1] = mark
    /\ \A i \in 1..Len(b) : joined[Len(a) + 1 + i] = b[i]
    /\ joined = a \o (<<mark>> \o b)

\* Two texts with a mark between are a text, in which the mark stands between.
LEMMA JoinedMarked ==
    ASSUME NEW S, NEW mark \in S, NEW a \in Seq(S), NEW b \in Seq(S)
    PROVE  /\ Joined(mark, a, b) \in Seq(S)
           /\ <<mark>> \o b \in Seq(S)
           /\ <<mark>> \in Seq(S)
           /\ Marked(mark, a, b, Joined(mark, a, b))
<1>1. <<mark>> \in Seq(S) /\ Len(<<mark>>) = 1 /\ <<mark>>[1] = mark
  OBVIOUS
<1>2. Joined(mark, a, b) = a \o (<<mark>> \o b)
  BY <1>1, ConcatAssociative DEF Joined
<1>3. /\ <<mark>> \o b \in Seq(S)
      /\ Appended(<<mark>>, b, <<mark>> \o b)
  BY <1>1, EndToEnd
<1>. DEFINE c == <<mark>> \o b
<1>4. /\ c \in Seq(S) /\ Len(c) = 1 + Len(b) /\ Len(b) \in Nat
      /\ c[1] = mark
      /\ \A i \in 1..Len(b) : c[1 + i] = b[i]
  BY <1>1, <1>3 DEF Appended
<1>5. Joined(mark, a, b) = a \o c
  BY <1>2
<1>. HIDE DEF c
<1>6. /\ a \o c \in Seq(S)
      /\ Appended(a, c, a \o c)
  BY <1>4, EndToEnd
<1>. USE DEF Appended
<1>7. (a \o c)[Len(a) + 1] = mark
  BY <1>4, <1>6
<1>8. ASSUME NEW i \in 1..Len(b)  PROVE (a \o c)[Len(a) + 1 + i] = b[i]
  <2>1. 1 + i \in 1..Len(c) /\ Len(a) + (1 + i) = Len(a) + 1 + i
    BY <1>4, <1>6
  <2>. QED  BY <1>4, <1>6, <2>1
<1>9. Len(a \o c) = Len(a) + 1 + Len(b)
  BY <1>4, <1>6
<1>. QED  BY <1>1, <1>2, <1>3, <1>4, <1>5, <1>6, <1>7, <1>8, <1>9 DEF Marked

\* Two texts with a mark after as many characters are the same.
LEMMA JoinedAlike ==
    ASSUME NEW S, NEW mark \in S, NEW a \in Seq(S), NEW b \in Seq(S),
           NEW c \in Seq(S), NEW d \in Seq(S), Len(a) = Len(c),
           Joined(mark, a, b) = Joined(mark, c, d)
    PROVE  a = c /\ b = d
<1>1. /\ <<mark>> \o b \in Seq(S) /\ <<mark>> \in Seq(S)
      /\ Marked(mark, a, b, Joined(mark, a, b))
  BY JoinedMarked
<1>2. /\ <<mark>> \o d \in Seq(S)
      /\ Marked(mark, c, d, Joined(mark, c, d))
  BY JoinedMarked
<1>3. a = c /\ <<mark>> \o b = <<mark>> \o d
  <2>1. a \o (<<mark>> \o b) = c \o (<<mark>> \o d)
    BY <1>1, <1>2 DEF Marked
  <2>. QED  BY <1>1, <1>2, <2>1, SplitAt
<1>4. b = d
  <2>. DEFINE m == <<mark>>
  <2>1. m \in Seq(S) /\ m \o b = m \o d
    BY <1>1, <1>3
  <2>. HIDE DEF m
  <2>. QED  BY <2>1, SplitAt
<1>. QED  BY <1>3, <1>4

\* A mark that is not in what follows it is found from the end.
LEMMA JoinedByLast ==
    ASSUME NEW S, NEW mark \in S, NEW a \in Seq(S), NEW b \in Seq(S),
           NEW c \in Seq(S), NEW d \in Seq(S),
           Without(mark, b), Without(mark, d),
           Joined(mark, a, b) = Joined(mark, c, d)
    PROVE  a = c /\ b = d
<1>. DEFINE joined == Joined(mark, a, b)
<1>1. Marked(mark, a, b, joined) /\ Marked(mark, c, d, joined)
  BY JoinedMarked
<1>. HIDE DEF joined
<1>2. ASSUME Len(a) < Len(c)  PROVE FALSE
  <2>. DEFINE i == Len(c) - Len(a)
  <2>1. i \in 1..Len(b) /\ Len(a) + 1 + i = Len(c) + 1
    BY <1>1, <1>2 DEF Marked
  <2>. HIDE DEF i
  <2>2. b[i] = mark
    BY <1>1, <2>1 DEF Marked
  <2>. QED  BY <2>1, <2>2 DEF Without
<1>3. ASSUME Len(c) < Len(a)  PROVE FALSE
  <2>. DEFINE i == Len(a) - Len(c)
  <2>1. i \in 1..Len(d) /\ Len(c) + 1 + i = Len(a) + 1
    BY <1>1, <1>3 DEF Marked
  <2>. HIDE DEF i
  <2>2. d[i] = mark
    BY <1>1, <2>1 DEF Marked
  <2>. QED  BY <2>1, <2>2 DEF Without
<1>4. Len(a) = Len(c)
  BY <1>1, <1>2, <1>3 DEF Marked
<1>. QED  BY <1>4, JoinedAlike

\* A mark that is not in what is before it is found from the start.
LEMMA JoinedByFirst ==
    ASSUME NEW S, NEW mark \in S, NEW a \in Seq(S), NEW b \in Seq(S),
           NEW c \in Seq(S), NEW d \in Seq(S),
           Without(mark, a), Without(mark, c),
           Joined(mark, a, b) = Joined(mark, c, d)
    PROVE  a = c /\ b = d
<1>. DEFINE joined == Joined(mark, a, b)
<1>1. Marked(mark, a, b, joined) /\ Marked(mark, c, d, joined)
  BY JoinedMarked
<1>. HIDE DEF joined
<1>2. ASSUME Len(a) < Len(c)  PROVE FALSE
  <2>1. Len(a) + 1 \in 1..Len(c)
    BY <1>1, <1>2 DEF Marked
  <2>2. c[Len(a) + 1] = mark
    BY <1>1, <2>1 DEF Marked
  <2>. QED  BY <2>1, <2>2 DEF Without
<1>3. ASSUME Len(c) < Len(a)  PROVE FALSE
  <2>1. Len(c) + 1 \in 1..Len(a)
    BY <1>1, <1>3 DEF Marked
  <2>2. a[Len(c) + 1] = mark
    BY <1>1, <2>1 DEF Marked
  <2>. QED  BY <2>1, <2>2 DEF Without
<1>4. Len(a) = Len(c)
  BY <1>1, <1>2, <1>3 DEF Marked
<1>. QED  BY <1>4, JoinedAlike

\* It does not matter which two of three texts are put together first.
Regroups(a, b, c) == (a \o b) \o c = a \o (b \o c)

\* Texts put end to end are one text however they are grouped.
LEMMA Regroup ==
    ASSUME NEW S, NEW a \in Seq(S), NEW b \in Seq(S), NEW c \in Seq(S)
    PROVE  Regroups(a, b, c)
BY DEF Regroups

Counts(S) == \A n \in Nat : Count(n) \in S

\* A part under its length, and a rest.
Prefixing(a, b) == LengthPrefixed(a) \o b

\* A part under its length ends where it says.
LEMMA PrefixingSplit ==
    ASSUME NEW S, Counts(S),
           NEW a \in Seq(S), NEW b \in Seq(S),
           NEW c \in Seq(S), NEW d \in Seq(S),
           Prefixing(a, b) = Prefixing(c, d)
    PROVE  a = c /\ b = d
<1>1. Len(a) \in Nat /\ Len(c) \in Nat
  OBVIOUS
<1>. DEFINE p == <<Count(Len(a))>>  q == <<Count(Len(c))>>
<1>2. /\ p \in Seq(S) /\ Len(p) = 1 /\ q \in Seq(S) /\ Len(q) = 1
      /\ p[1] = Count(Len(a)) /\ q[1] = Count(Len(c))
  BY <1>1 DEF Counts
<1>. HIDE DEF p, q
<1>3. (p \o a) \o b = (q \o c) \o d
  BY DEF Prefixing, LengthPrefixed, p, q
<1>4. p \o (a \o b) = q \o (c \o d)
  <2>1. p \in Seq(S) /\ q \in Seq(S)
    BY <1>2
  <2>2. Regroups(p, a, b) /\ Regroups(q, c, d)
    BY <2>1, Regroup
  <2>. QED  BY <1>3, <2>2 DEF Regroups
<1>5. a \o b \in Seq(S) /\ c \o d \in Seq(S)
  OBVIOUS
<1>6. p = q /\ a \o b = c \o d
  BY <1>2, <1>4, <1>5, SplitAt
<1>7. Len(a) = Len(c)
  BY <1>2, <1>6 DEF Count
<1>. QED  BY <1>6, <1>7, SplitAt

\* The same, of the text itself.
LEMMA PrefixedSplit ==
    ASSUME NEW S, Counts(S),
           NEW a \in Seq(S), NEW b \in Seq(S),
           NEW c \in Seq(S), NEW d \in Seq(S),
           LengthPrefixed(a) \o b = LengthPrefixed(c) \o d
    PROVE  a = c /\ b = d
<1>1. Prefixing(a, b) = Prefixing(c, d)
  BY DEF Prefixing
<1>. QED  BY <1>1, PrefixingSplit

\* The lists of texts put end to end, up to each of them.
Flattens(list, n, f) ==
    f = [i \in 1..n |-> IF i = 1 THEN list[i] ELSE f[i - 1] \o list[i]]

\* Every list of texts is put end to end, up to each of them, in some way.
LEMMA FlattensExists ==
    ASSUME NEW S, NEW n \in Nat \ {0}, NEW list \in [1..n -> Seq(S)]
    PROVE  \E f \in [1..n -> Seq(S)] : Flattens(list, n, f)
<1>. DEFINE Short == {k \in 1..n : ~ \E f \in [1..k -> Seq(S)] :
                                            Flattens(list, k, f)}
<1>1. SUFFICES ASSUME Short # {}  PROVE FALSE
  OBVIOUS
<1>2. PICK k \in Short : \A j \in Short : k <= j
  <2>1. Short \in SUBSET Nat
    OBVIOUS
  <2>. HIDE DEF Short
  <2>. QED  BY <1>1, <2>1, LeastNumber
<1>3. CASE k = 1
  <2>. DEFINE f == [i \in 1..1 |-> list[1]]
  <2>1. f \in [1..1 -> Seq(S)] /\ Flattens(list, 1, f)
    BY DEF Flattens
  <2>. QED  BY <1>3, <2>1
<1>4. CASE k # 1
  <2>1. k - 1 \in 1..n /\ k - 1 \notin Short /\ k \in 1..n
    BY SMTT(60), <1>2, <1>4
  <2>2. PICK g \in [1..k - 1 -> Seq(S)] : Flattens(list, k - 1, g)
    BY <2>1
  <2>. DEFINE f == [i \in 1..k |-> IF i = k THEN g[k - 1] \o list[k]
                                              ELSE g[i]]
  <2>3. f \in [1..k -> Seq(S)]
    <3>1. g[k - 1] \o list[k] \in Seq(S)
      BY <2>1
    <3>. QED  BY <2>1, <3>1
  <2>4. ASSUME NEW i \in 1..k
        PROVE  f[i] = IF i = 1 THEN list[i] ELSE f[i - 1] \o list[i]
    <3>1. CASE i = k
      <4>1. k - 1 \in 1..k /\ k - 1 # k /\ k \in 1..k
        BY <2>1
      <4>2. f[k - 1] = g[k - 1] /\ f[k] = g[k - 1] \o list[k]
        BY <4>1
      <4>. QED  BY <1>4, <3>1, <4>2
    <3>2. CASE i # k
      <4>1. i \in 1..k - 1 /\ f[i] = g[i] /\ (i # 1 => f[i - 1] = g[i - 1])
        BY <2>1, <3>2
      <4>2. g[i] = IF i = 1 THEN list[i] ELSE g[i - 1] \o list[i]
        BY <2>2, <4>1 DEF Flattens
      <4>. QED  BY <4>1, <4>2
    <3>. QED  BY <3>1, <3>2
  <2>5. Flattens(list, k, f)
    <3>. HIDE DEF f
    <3>1. f = [i \in 1..k |-> f[i]]
      BY <2>3
    <3>. QED  BY <2>4, <3>1 DEF Flattens
  <2>6. k \notin Short
    BY <2>3, <2>5
  <2>. QED  BY <1>2, <2>6
<1>. QED  BY <1>3, <1>4

\* A list is flattened by putting its texts end to end one by one.
LEMMA FlattenedBySteps ==
    ASSUME NEW S, NEW n \in Nat \ {0}, NEW list \in [1..n -> Seq(S)]
    PROVE  \E f \in [1..n -> Seq(S)] :
               Flattens(list, n, f) /\ FlattenSeq(list) = f[n]
<1>1. Len(list) = n /\ n # 0
  OBVIOUS
<1>. DEFINE f == CHOOSE f : Flattens(list, n, f)
<1>2. Flattens(list, n, f)
  BY FlattensExists
<1>3. FlattenSeq(list) = f[n]
  BY <1>1 DEF FlattenSeq, Flattens
<1>. HIDE DEF f
<1>4. /\ \A i \in 1..n :
             f[i] = IF i = 1 THEN list[i] ELSE f[i - 1] \o list[i]
      /\ f = [i \in 1..n |-> f[i]]
  BY <1>2 DEF Flattens
<1>. DEFINE Others == {k \in 1..n : f[k] \notin Seq(S)}
<1>5. ASSUME Others # {}  PROVE FALSE
  <2>1. Others \in SUBSET Nat
    OBVIOUS
  <2>2. PICK k \in Others : \A j \in Others : k <= j
    <3>. HIDE DEF Others
    <3>. QED  BY <1>5, <2>1, LeastNumber
  <2>3. k # 1
    BY <1>4
  <2>4. k - 1 \in 1..n /\ k \in 1..n /\ ~(k <= k - 1)
    BY <2>3
  <2>5. f[k - 1] \in Seq(S)
    BY <2>2, <2>4
  <2>6. f[k] = f[k - 1] \o list[k] /\ list[k] \in Seq(S)
    BY <1>4, <2>3, <2>4
  <2>7. \A u, v \in Seq(S) : u \o v \in Seq(S)
    OBVIOUS
  <2>8. f[k] \in Seq(S)
    BY ONLY <2>5, <2>6, <2>7
  <2>. QED  BY <2>8
<1>6. f \in [1..n -> Seq(S)]
  BY <1>4, <1>5
<1>. QED  BY <1>2, <1>3, <1>6


\* Lists of as many parts, each under its length, and what follows them: the
\* parts are the same.
LEMMA FlattenedAlike ==
    ASSUME NEW S, Counts(S), NEW n \in Nat \ {0},
           NEW x \in [1..n -> Seq(S)], NEW y \in [1..n -> Seq(S)],
           FlattenSeq([i \in 1..n |-> LengthPrefixed(x[i])])
               = FlattenSeq([i \in 1..n |-> LengthPrefixed(y[i])])
    PROVE  x = y
<1>. DEFINE xs == [i \in 1..n |-> LengthPrefixed(x[i])]
            ys == [i \in 1..n |-> LengthPrefixed(y[i])]
<1>0. \A i, j, k, l \in Seq(S) :
          LengthPrefixed(i) \o j = LengthPrefixed(k) \o l => i = k /\ j = l
  BY PrefixedSplit
<1>1. ASSUME NEW a \in Seq(S)  PROVE LengthPrefixed(a) \in Seq(S)
  <2>1. <<Count(Len(a))>> \in Seq(S)
    BY DEF Counts
  <2>. QED  BY <2>1 DEF LengthPrefixed
<1>2. xs \in [1..n -> Seq(S)] /\ ys \in [1..n -> Seq(S)]
  BY <1>1
<1>3. /\ \A i \in 1..n : xs[i] = LengthPrefixed(x[i])
      /\ \A i \in 1..n : ys[i] = LengthPrefixed(y[i])
  OBVIOUS
<1>. HIDE DEF xs, ys
<1>4. ASSUME NEW i \in 1..n, NEW v \in Seq(S), NEW w \in Seq(S),
             xs[i] \o v = ys[i] \o w
      PROVE  x[i] = y[i] /\ v = w
  <2>1. x[i] \in Seq(S) /\ y[i] \in Seq(S)
    OBVIOUS
  <2>2. LengthPrefixed(x[i]) \o v = LengthPrefixed(y[i]) \o w
    BY <1>3, <1>4
  <2>. QED  BY <1>0, <2>1, <2>2, Zenon
<1>5. PICK f \in [1..n -> Seq(S)] :
          Flattens(xs, n, f) /\ FlattenSeq(xs) = f[n]
  BY <1>2, FlattenedBySteps
<1>6. PICK g \in [1..n -> Seq(S)] :
          Flattens(ys, n, g) /\ FlattenSeq(ys) = g[n]
  BY <1>2, FlattenedBySteps
<1>7. /\ \A i \in 1..n : f[i] = IF i = 1 THEN xs[i] ELSE f[i - 1] \o xs[i]
      /\ \A i \in 1..n : g[i] = IF i = 1 THEN ys[i] ELSE g[i - 1] \o ys[i]
  BY <1>5, <1>6 DEF Flattens
<1>. DEFINE Alike(k) ==
         \A r \in Seq(S), t \in Seq(S) :
             f[k] \o r = g[k] \o t => (\A i \in 1..k : x[i] = y[i]) /\ r = t
            Others == {k \in 1..n : ~ Alike(k)}
<1>8. ASSUME Others # {}  PROVE FALSE
  <2>1. PICK k \in Others : \A j \in Others : k <= j
    <3>1. Others \in SUBSET Nat
      OBVIOUS
    <3>. HIDE DEF Others
    <3>. QED  BY <1>8, <3>1, LeastNumber
  <2>2. k \in 1..n
    OBVIOUS
  <2>3. ASSUME NEW r \in Seq(S), NEW t \in Seq(S), f[k] \o r = g[k] \o t
        PROVE  (\A i \in 1..k : x[i] = y[i]) /\ r = t
    <3>1. xs[k] \in Seq(S) /\ ys[k] \in Seq(S)
      BY <1>2, <2>2
    <3>2. CASE k = 1
      <4>1. xs[k] \o r = ys[k] \o t
        BY <1>7, <2>2, <2>3, <3>2
      <4>2. x[k] = y[k] /\ r = t
        BY <1>4, <2>2, <4>1
      <4>. QED  BY <3>2, <4>2
    <3>3. CASE k # 1
      <4>1. k - 1 \in 1..n /\ ~(k <= k - 1)
        BY <2>2, <3>3
      <4>2. Alike(k - 1)
        BY <2>1, <4>1
      <4>. DEFINE u == f[k - 1]  v == g[k - 1]  xk == xs[k]  yk == ys[k]
      <4>3. f[k] = u \o xk /\ g[k] = v \o yk
        BY <1>7, <2>2, <3>3
      <4>4. u \in Seq(S) /\ v \in Seq(S) /\ xk \in Seq(S) /\ yk \in Seq(S)
        BY <3>1, <4>1
      <4>5. (u \o xk) \o r = (v \o yk) \o t
        BY <2>3, <4>3
      <4>. HIDE DEF u, v, xk, yk, Others
      <4>6. Regroups(u, xk, r) /\ Regroups(v, yk, t)
        BY <4>4, Regroup
      <4>7. u \o (xk \o r) = v \o (yk \o t)
        BY <4>5, <4>6 DEF Regroups
      <4>8. xk \o r \in Seq(S) /\ yk \o t \in Seq(S)
        BY <4>4
      <4>9. (\A i \in 1..k - 1 : x[i] = y[i]) /\ xk \o r = yk \o t
        BY <4>2, <4>7, <4>8 DEF u, v
      <4>10. x[k] = y[k] /\ r = t
        <5>1. xs[k] \o r = ys[k] \o t
          BY <4>9 DEF xk, yk
        <5>. QED  BY <1>4, <2>2, <5>1
      <4>11. \A i \in 1..k : i \in 1..k - 1 \/ i = k
        BY <2>2
      <4>. QED  BY <4>9, <4>10, <4>11
    <3>. QED  BY <3>2, <3>3
  <2>4. Alike(k)
    BY <2>3
  <2>. QED  BY <2>1, <2>4
<1>9. Alike(n)
  <2>1. n \in 1..n
    OBVIOUS
  <2>2. n \notin Others
    BY <1>8
  <2>. HIDE DEF Alike
  <2>. QED  BY <2>1, <2>2
<1>10. f[n] \o <<>> = g[n] \o <<>> /\ <<>> \in Seq(S)
  <2>1. f[n] = g[n]
    BY <1>5, <1>6 DEF xs, ys
  <2>. QED  BY <2>1
<1>11. \A i \in 1..n : x[i] = y[i]
  BY <1>9, <1>10
<1>. QED  BY <1>11

\* Of three texts with marks between, the marks around the second are found
\* if it and the first have none.
LEMMA JoinedNests ==
    ASSUME NEW S, NEW mark \in S,
           NEW a \in Seq(S), NEW b \in Seq(S), NEW c \in Seq(S)
    PROVE  /\ Joined(mark, Joined(mark, a, b), c)
                  = Joined(mark, a, Joined(mark, b, c))
           /\ Joined(mark, b, c) \in Seq(S)
<1>. DEFINE m == <<mark>>
<1>1. m \in Seq(S)
  OBVIOUS
<1>2. /\ Joined(mark, Joined(mark, a, b), c) = (((a \o m) \o b) \o m) \o c
      /\ Joined(mark, a, Joined(mark, b, c)) = (a \o m) \o ((b \o m) \o c)
      /\ Joined(mark, b, c) = (b \o m) \o c
  BY DEF Joined
<1>. HIDE DEF m
<1>. DEFINE am == a \o m  bm == b \o m
<1>3. am \in Seq(S) /\ bm \in Seq(S) /\ bm \o c \in Seq(S)
         /\ am \o b \in Seq(S)
  BY <1>1
<1>4. Regroups(am, b, m) /\ Regroups(am, bm, c)
  <2>. HIDE DEF am, bm
  <2>. QED  BY <1>1, <1>3, Regroup
<1>5. ((am \o b) \o m) \o c = am \o (bm \o c)
  BY <1>4 DEF Regroups
<1>. QED  BY <1>2, <1>3, <1>5

\* Three parts with marks between, the first two of which are without it.
LEMMA JoinedThree ==
    ASSUME NEW S, NEW mark \in S,
           NEW a \in Seq(S), NEW b \in Seq(S), NEW c \in Seq(S),
           NEW d \in Seq(S), NEW e \in Seq(S), NEW f \in Seq(S),
           Without(mark, a), Without(mark, b),
           Without(mark, d), Without(mark, e),
           Joined(mark, Joined(mark, a, b), c)
               = Joined(mark, Joined(mark, d, e), f)
    PROVE  a = d /\ b = e /\ c = f
<1>. DEFINE g == Joined(mark, b, c)  h == Joined(mark, e, f)
<1>1. Joined(mark, Joined(mark, a, b), c) = Joined(mark, a, g) /\ g \in Seq(S)
  BY JoinedNests
<1>2. Joined(mark, Joined(mark, d, e), f) = Joined(mark, d, h) /\ h \in Seq(S)
  BY JoinedNests
<1>. HIDE DEF g, h
<1>3. a = d /\ g = h
  BY ZenonT(60), <1>1, <1>2, JoinedByFirst
<1>4. Joined(mark, b, c) = Joined(mark, e, f)
  BY <1>3 DEF g, h
<1>5. b = e /\ c = f
  BY <1>4, JoinedByFirst
<1>. QED  BY <1>3, <1>5

\* Two in order are these two.
LEMMA SortedSame ==
    ASSUME NEW a, NEW b, NEW c, NEW d,
           Sorted(a, b)[1] = Sorted(c, d)[1], Sorted(a, b)[2] = Sorted(c, d)[2]
    PROVE  {a, b} = {c, d}
<1>1. Sorted(a, b) \in {<<a, b>>, <<b, a>>}
  BY DEF Sorted
<1>2. Sorted(c, d) \in {<<c, d>>, <<d, c>>}
  BY DEF Sorted
<1>. QED  BY <1>1, <1>2

\* The parts of a sorted pair are those of the pair.
LEMMA SortedParts ==
    ASSUME NEW a, NEW b
    PROVE  \/ Sorted(a, b)[1] = a /\ Sorted(a, b)[2] = b
           \/ Sorted(a, b)[1] = b /\ Sorted(a, b)[2] = a
<1>1. Sorted(a, b) \in {<<a, b>>, <<b, a>>}
  BY DEF Sorted
<1>. QED  BY <1>1

\* A part followed by a length or an epoch of its own.
LEMMA CountedSplit ==
    ASSUME NEW S, NEW a \in Seq(S), NEW b \in Seq(S), NEW m, NEW n,
           Count(m) \in S, Count(n) \in S,
           a \o <<Count(m)>> = b \o <<Count(n)>>
    PROVE  a = b /\ m = n
<1>. DEFINE p == <<Count(m)>>  q == <<Count(n)>>
<1>1. /\ p \in Seq(S) /\ q \in Seq(S) /\ Len(p) = 1 /\ Len(q) = 1
      /\ p[1] = Count(m) /\ q[1] = Count(n)
  OBVIOUS
<1>2. a \o p = b \o q
  OBVIOUS
<1>. HIDE DEF p, q
<1>3. Appended(a, p, a \o p) /\ Appended(b, q, b \o q)
  BY <1>1, EndToEnd
<1>4. Len(a) = Len(b)
  BY <1>1, <1>2, <1>3 DEF Appended
<1>5. a = b /\ p = q
  BY <1>1, <1>2, <1>4, SplitAt
<1>. QED  BY <1>1, <1>5 DEF Count

\* A set as a sequence is a sequence of the whole set.
LEMMA SetInSequence ==
    ASSUME NEW T, IsFiniteSet(T)
    PROVE  /\ Cardinality(T) \in Nat
           /\ SetToSeq(T) \in [1..Cardinality(T) -> T]
           /\ \A t \in T : \E i \in 1..Cardinality(T) : SetToSeq(T)[i] = t
<1>. DEFINE n == Cardinality(T)  f == SetToSeq(T)
<1>1. n \in Nat /\ ExistsBijection(1..n, T)
  BY FS_CardinalityType
<1>2. \E g \in [1..n -> T] : IsInjective(g)
  BY <1>1 DEF ExistsBijection, Bijection, Injection
<1>3. f \in [1..n -> T] /\ IsInjective(f)
  BY <1>2 DEF SetToSeq
<1>. HIDE DEF f
<1>4. f \in Injection(1..n, T)
  BY <1>3 DEF Injection
<1>5. IsFiniteSet(1..n) /\ Cardinality(1..n) = n
  BY <1>1, FS_Interval
<1>6. f \in Surjection(1..n, T)
  BY <1>4, <1>5, FS_Injection
<1>7. \A t \in T : \E i \in 1..n : f[i] = t
  BY <1>6 DEF Surjection
<1>. QED  BY <1>1, <1>3, <1>7 DEF f

\* The networks of an admission are told apart, however many.
LEMMA NetworksAlike ==
    ASSUME NEW S, Counts(S), NEW T, NEW U, IsFiniteSet(T), IsFiniteSet(U),
           T \subseteq Seq(S), U \subseteq Seq(S), T # {}, U # {},
           NEW a \in Seq(S), NEW b \in Seq(S),
           AdmissionName([identityId |-> a, networkIds |-> T])
               = AdmissionName([identityId |-> b, networkIds |-> U])
    PROVE  a = b /\ T = U
<1>. DEFINE x == SetToSeq(T)  n == Cardinality(T)
            y == SetToSeq(U)  k == Cardinality(U)
<1>1. /\ n \in Nat /\ x \in [1..n -> T]
      /\ \A t \in T : \E i \in 1..n : x[i] = t
  BY SetInSequence
<1>2. /\ k \in Nat /\ y \in [1..k -> U]
      /\ \A t \in U : \E i \in 1..k : y[i] = t
  BY SetInSequence
<1>. DEFINE xs == [i \in 1..n |-> LengthPrefixed(x[i])]
            ys == [i \in 1..k |-> LengthPrefixed(y[i])]
            p == <<Count(n)>>  q == <<Count(k)>>
            la == LengthPrefixed(a)  lb == LengthPrefixed(b)
<1>3. (la \o p) \o FlattenSeq(xs) = (lb \o q) \o FlattenSeq(ys)
  <2>. DEFINE c == [identityId |-> a, networkIds |-> T]
              d == [identityId |-> b, networkIds |-> U]
  <2>1. /\ DOMAIN x = 1..n /\ DOMAIN y = 1..k
        /\ Len(x) = n /\ Len(y) = k
    <3>. HIDE DEF x, y, n, k
    <3>. QED  BY <1>1, <1>2
  <2>2. AdmissionName(c)[2] = (la \o p) \o FlattenSeq(xs)
    BY <2>1 DEF AdmissionName, Named
  <2>3. AdmissionName(d)[2] = (lb \o q) \o FlattenSeq(ys)
    BY <2>1 DEF AdmissionName, Named
  <2>. QED  BY <2>2, <2>3
<1>. HIDE DEF x, y, n, k
<1>4. n \in Nat \ {0} /\ k \in Nat \ {0}
  BY <1>1, <1>2
<1>5. x \in [1..n -> Seq(S)] /\ y \in [1..k -> Seq(S)]
  BY <1>1, <1>2
<1>6. ASSUME NEW c \in Seq(S)  PROVE LengthPrefixed(c) \in Seq(S)
  <2>1. <<Count(Len(c))>> \in Seq(S)
    BY DEF Counts
  <2>. QED  BY <2>1 DEF LengthPrefixed
<1>7. /\ xs \in [1..n -> Seq(S)] /\ ys \in [1..k -> Seq(S)]
      /\ la \in Seq(S) /\ lb \in Seq(S)
  BY <1>5, <1>6
<1>8. /\ p \in Seq(S) /\ q \in Seq(S) /\ Len(p) = 1 /\ Len(q) = 1
      /\ p[1] = Count(n) /\ q[1] = Count(k)
  BY <1>4 DEF Counts
<1>. HIDE DEF xs, ys, p, q, la, lb
<1>9. FlattenSeq(xs) \in Seq(S) /\ FlattenSeq(ys) \in Seq(S)
  <2>1. PICK f \in [1..n -> Seq(S)] : FlattenSeq(xs) = f[n]
    BY <1>4, <1>7, FlattenedBySteps
  <2>2. PICK g \in [1..k -> Seq(S)] : FlattenSeq(ys) = g[k]
    BY <1>4, <1>7, FlattenedBySteps
  <2>3. n \in 1..n /\ k \in 1..k
    BY <1>4
  <2>4. f[n] \in Seq(S) /\ g[k] \in Seq(S)
    BY ONLY <2>3, f \in [1..n -> Seq(S)], g \in [1..k -> Seq(S)], Zenon
  <2>. QED  BY <2>1, <2>2, <2>4
<1>. DEFINE r == FlattenSeq(xs)  t == FlattenSeq(ys)
<1>10. Regroups(la, p, r) /\ Regroups(lb, q, t)
  <2>. HIDE DEF r, t
  <2>. QED  BY <1>7, <1>8, <1>9, Regroup DEF r, t
<1>11. p \o r \in Seq(S) /\ q \o t \in Seq(S)
  <2>1. r \in Seq(S) /\ t \in Seq(S)
    BY <1>9
  <2>. HIDE DEF r, t
  <2>. QED  BY <1>8, <2>1
<1>12. LengthPrefixed(a) \o (p \o r) = LengthPrefixed(b) \o (q \o t)
  BY <1>3, <1>10 DEF Regroups, la, lb
<1>13. a = b /\ p \o r = q \o t
  <2>. DEFINE pr == p \o r  qt == q \o t
  <2>1. pr \in Seq(S) /\ qt \in Seq(S)
    BY <1>11
  <2>2. LengthPrefixed(a) \o pr = LengthPrefixed(b) \o qt
    BY <1>12
  <2>. HIDE DEF pr, qt
  <2>3. a = b /\ pr = qt
    BY ZenonT(60), <2>1, <2>2, PrefixedSplit
  <2>. QED  BY <2>3 DEF pr, qt
<1>14. p = q /\ r = t
  <2>1. r \in Seq(S) /\ t \in Seq(S)
    BY <1>9
  <2>. HIDE DEF r, t
  <2>. QED  BY <1>8, <1>13, <2>1, SplitAt
<1>15. n = k
  BY <1>8, <1>14 DEF Count
<1>16. x = y
  <2>1. y \in [1..n -> Seq(S)]
    BY <1>5, <1>15
  <2>2. FlattenSeq([i \in 1..n |-> LengthPrefixed(x[i])])
            = FlattenSeq([i \in 1..n |-> LengthPrefixed(y[i])])
    BY <1>14, <1>15 DEF xs, ys
  <2>. QED  BY <1>4, <1>5, <2>1, <2>2, FlattenedAlike
<1>17. T = U
  <2>1. ASSUME NEW e  PROVE e \in T <=> \E i \in 1..n : x[i] = e
    BY <1>1
  <2>2. ASSUME NEW e  PROVE e \in U <=> \E i \in 1..k : y[i] = e
    BY <1>2
  <2>. HIDE DEF r, t
  <2>. QED  BY <1>15, <1>16, <2>1, <2>2
<1>. QED  BY <1>13, <1>17

----------------------------------------------------------------------------
(* Names *)

\* A record is a function of its fields.
IsRecord(record) == record = [field \in DOMAIN record |-> record[field]]

\* What is put end to end in its name is characters.
IsTextual(kind, record) ==
    /\ kind \in DOMAIN TextParts =>
           \A part \in TextParts[kind] : record[part] \in Seq(STRING)
    /\ kind = "admission" =>
           /\ IsFiniteSet(record.networkIds)
           /\ record.networkIds \subseteq Seq(STRING)

\* A record that has a name of this kind.
HasName(kind, record) ==
    /\ kind \in NameKinds
    /\ IsRecord(record)
    /\ IsTextual(kind, record)
    /\ NameReads(kind, record)

\* The text of an entry that is neither signed nor sealed is its name.
LEMMA NamedEntry ==
    ASSUME NEW entry \in Readable, KindOf(entry) = "named"
    PROVE  /\ TextOf(entry) = NameOf(entry.kind, entry.record)
           /\ HasName(entry.kind, entry.record)
<1>1. entry.kind \notin FormKinds /\ entry.kind \in NameKinds
  BY NamedText DEF KindOf, FormKinds
<1>2. TextOf(entry) = NameOf(entry.kind, entry.record)
  BY <1>1 DEF TextOf, KindOf, FormKinds
<1>3. NameReads(entry.kind, entry.record)
  BY <1>1 DEF Readable, Reads, KindOf, FormKinds
<1>4. IsRecord(entry.record)
  BY EntriesAssumption DEF Readable, IsRecord
<1>5. IsTextual(entry.kind, entry.record)
  <2>1. DOMAIN TextParts \subseteq DOMAIN NameFields
    BY DEF TextParts, NameFields
  <2>2. \A kind \in DOMAIN TextParts :
            /\ TextParts[kind] \subseteq NameFields[kind]
            /\ kind # "state"
    BY DEF TextParts, NameFields
  <2>3. "networkIds" \in NameFields["admission"]
    BY DEF NameFields
  <2>4. entry.kind # "state" =>
            NameFields[entry.kind] \subseteq DOMAIN entry.record
    BY <1>3 DEF NameReads
  <2>. QED  BY <2>2, <2>3, <2>4, PartsAssumption DEF Readable, IsTextual
<1>. QED  BY <1>1, <1>2, <1>3, <1>4, <1>5 DEF HasName

\* A record of a kind whose fields may not be absent has all its fields.
LEMMA FieldsOfKind ==
    ASSUME NEW kind, NEW record, HasName(kind, record),
           kind \notin {"state", "mlsRecord", "invitation"}
    PROVE  DOMAIN record = NameFields[kind]
BY DEF HasName, NameReads, MayBeAbsent

\* Records with the same fields and the same values are one record.
LEMMA SameFields ==
    ASSUME NEW one, NEW other, IsRecord(one), IsRecord(other),
           DOMAIN one = DOMAIN other,
           \A field \in DOMAIN one : one[field] = other[field]
    PROVE  one = other
BY DEF IsRecord

\* Characters, counts and whatever else these two texts hold.
LEMMA Alphabet ==
    ASSUME NEW p, NEW q, NEW r, NEW s
    PROVE  \E S : /\ Counts(S) /\ p \in S /\ q \in S /\ r \in S /\ s \in S
                  /\ \A text \in Seq(STRING) : text \in Seq(S)
<1>. DEFINE S == STRING \union {Count(n) : n \in Nat} \union {p, q, r, s}
<1>1. Counts(S) /\ {p, q, r, s} \subseteq S
  BY DEF Counts
<1>2. STRING \subseteq S
  OBVIOUS
<1>. HIDE DEF S
<1>3. \A text \in Seq(STRING) : text \in Seq(S)
  BY <1>2, SeqMonotonic
<1>. QED  BY <1>1, <1>3

\* Digests of other kinds are of other fields.
LEMMA DigestsApart ==
    ASSUME StatesApart, NEW one \in Readable, NEW other \in Readable,
           KindOf(one) = "named", KindOf(other) = "named",
           {one.kind, other.kind} \subseteq Digests,
           TextOf(one) = TextOf(other)
    PROVE  one.kind = other.kind
<1>. DEFINE Body(entry) == NameOf(entry.kind, entry.record)[2]
            Rest(entry, kind) == DOMAIN Body(entry) \ MayBeAbsent(kind)
<1>1. ASSUME NEW entry \in {one, other}
      PROVE  /\ Rest(entry, entry.kind)
                    = DOMAIN entry.record \ MayBeAbsent(entry.kind)
             /\ entry.kind \in Digests \ {"mlsRecord"} =>
                    Body(entry) = entry.record
  <2>1. CASE entry.kind = "mlsRecord"
    BY <2>1 DEF NameOf, RecordName, Named, MayBeAbsent
  <2>2. CASE entry.kind # "mlsRecord"
    <3>1. Body(entry) = entry.record
      BY <2>2 DEF Digests, NameOf, CommunityName, FingerprintOfKey,
                  BearerName, StateName, Named
    <3>. QED  BY <2>2, <3>1
  <2>. QED  BY <2>1, <2>2
<1>2. Body(one) = Body(other)
  BY NamedEntry
<1>3. ASSUME NEW entry \in {one, other}, entry.kind # "state"
      PROVE  Rest(entry, entry.kind) = NameFields[entry.kind]
  BY <1>1, <1>3, NamedEntry DEF HasName, NameReads
<1>4. ASSUME NEW entry \in {one, other}, entry.kind = "state",
             NEW kind \in Digests \ {"state"}
      PROVE  Rest(entry, kind) # NameFields[kind]
  <2>1. Body(entry) = entry.record /\ entry \in Entries
    BY <1>1, <1>4 DEF Readable, Digests
  <2>. QED  BY <1>4, <2>1 DEF StatesApart, Digests
<1>5. \A kind, like \in Digests \ {"state"} : \A fields :
          /\ fields \ MayBeAbsent(kind) = NameFields[kind]
          /\ fields \ MayBeAbsent(like) = NameFields[like]
          => kind = like
  BY DEF Digests, NameFields, MayBeAbsent
<1>. HIDE DEF Body
<1>6. CASE one.kind # "state" /\ other.kind # "state"
  BY <1>2, <1>3, <1>5, <1>6
<1>7. CASE one.kind = "state" \/ other.kind = "state"
  BY <1>2, <1>3, <1>4, <1>7
<1>. QED  BY <1>6, <1>7

\* Short identifiers of other kinds are of another number of parts, or begin
\* with another.
LEMMA ShortsApart ==
    ASSUME NEW kind \in Shorts, NEW like \in Shorts, NEW one, NEW other,
           NameOf(kind, one) = NameOf(like, other)
    PROVE  kind = like
<1>. DEFINE Body(k, r) == NameOf(k, r)[2]
<1>1. \A r :
      /\ Len(Body("channel", r)) = 4 /\ Body("channel", r)[1] = "channel"
      /\ Len(Body("role", r)) = 4 /\ Body("role", r)[1] = "role"
      /\ Len(Body("communityRequest", r)) = 5
      /\ Len(Body("moderation", r)) = 6
  BY DEF NameOf, Named, ChannelName, RoleName, CommunityRequestName,
         ModerationName
<1>2. Body(kind, one) = Body(like, other)
  OBVIOUS
<1>. HIDE DEF Body
<1>. QED  BY <1>1, <1>2 DEF Shorts

\* A digest of the whole record.
LEMMA WholeRecords ==
    ASSUME NEW kind \in {"community", "group", "invitation", "mlsRecord",
                         "verificationCode", "keyFingerprint", "bearer",
                         "state", "roster"},
           NEW one, NEW other, NameOf(kind, one) = NameOf(kind, other)
    PROVE  Meaning(kind, one) = Meaning(kind, other)
<1>1. CASE kind = "mlsRecord"
  BY <1>1 DEF NameOf, Meaning
<1>2. CASE kind # "mlsRecord"
  <2>1. \A r : NameOf(kind, r)[2] = r
    BY ZenonT(60), <1>2
       DEF NameOf, Named, CommunityName, GroupName, InvitationName,
           VerificationName, FingerprintOfKey, BearerName, StateName,
           RosterName
  <2>. QED  BY <2>1
<1>. QED  BY <1>1, <1>2

OneField ==
    {"secretFingerprint", "frontiers", "rosterFrontier", "groupMailboxId",
     "groupPostToken", "groupEnvelopeKey", "readToken", "networkFingerprint",
     "relayLookup", "swarmKey", "linkKey", "turnSubject", "recoveryIdentity",
     "recoveryRoot", "recoveryAuthority"}

\* A record of one field.
LEMMA SingleFields ==
    ASSUME NEW kind \in OneField,
           NEW one, NEW other, HasName(kind, one), HasName(kind, other),
           NameOf(kind, one) = NameOf(kind, other)
    PROVE  one = other
<1>1. DOMAIN one = NameFields[kind] /\ DOMAIN other = NameFields[kind]
  BY FieldsOfKind DEF OneField
<1>2. IsRecord(one) /\ IsRecord(other)
  BY DEF HasName
<1>3. SUFFICES \A field \in NameFields[kind] : one[field] = other[field]
  BY <1>1, <1>2, SameFields
<1>4. NameOf(kind, one)[2] = NameOf(kind, other)[2]
  OBVIOUS
<1>5. CASE kind \in {"groupMailboxId", "groupPostToken", "groupEnvelopeKey"}
  <2>1. NameFields[kind] = {"member"}
    BY <1>5 DEF NameFields
  <2>2. \A r : NameOf(kind, r)[2]
                   = <<"pigeon/group-mailbox/slot/v1", r.member>>
    BY <1>5 DEF NameOf, Named, GroupInboxName
  <2>. QED  BY <1>4, <2>1, <2>2
<1>6. CASE kind \in {"secretFingerprint", "linkKey"}
  <2>1. NameFields[kind] = {"secret"}
    BY <1>6 DEF NameFields
  <2>2. \A r : NameOf(kind, r)[2] = r.secret
    BY <1>6 DEF NameOf, Named, FingerprintOfSecret, LinkKeyName
  <2>. QED  BY <1>4, <2>1, <2>2
<1>7. CASE kind \in {"networkFingerprint", "relayLookup", "swarmKey"}
  <2>1. NameFields[kind] = {"networkKey"}
    BY <1>7 DEF NameFields
  <2>2. \A r : NameOf(kind, r)[2] = r.networkKey
    BY <1>7 DEF NameOf, Named, NetworkKeyName
  <2>. QED  BY <1>4, <2>1, <2>2
<1>8. CASE kind \in {"recoveryIdentity", "recoveryRoot", "recoveryAuthority"}
  <2>1. NameFields[kind] = {"recoveryKey"}
    BY <1>8 DEF NameFields
  <2>2. \A r : NameOf(kind, r)[2] = r.recoveryKey
    BY <1>8 DEF NameOf, Named, RecoveryName
  <2>. QED  BY <1>4, <2>1, <2>2
<1>9. CASE kind = "frontiers"
  <2>1. NameFields[kind] = {"frontiers"}
    BY <1>9 DEF NameFields
  <2>2. \A r : NameOf(kind, r)[2] = r.frontiers
    BY <1>9 DEF NameOf, Named, FrontiersName
  <2>. QED  BY <1>4, <2>1, <2>2
<1>10. CASE kind = "rosterFrontier"
  <2>1. NameFields[kind] = {"heads"}
    BY <1>10 DEF NameFields
  <2>2. \A r : NameOf(kind, r)[2] = r.heads
    BY <1>10 DEF NameOf, Named, RosterFrontierName
  <2>. QED  BY <1>4, <2>1, <2>2
<1>11. CASE kind = "readToken"
  <2>1. NameFields[kind] = {"mailboxId"}
    BY <1>11 DEF NameFields
  <2>2. \A r : NameOf(kind, r)[2] = r.mailboxId
    BY <1>11 DEF NameOf, Named, ReadTokenName
  <2>. QED  BY <1>4, <2>1, <2>2
<1>12. CASE kind = "turnSubject"
  <2>1. NameFields[kind] = {"peerId"}
    BY <1>12 DEF NameFields
  <2>2. \A r : NameOf(kind, r)[2] = r.peerId
    BY <1>12 DEF NameOf, Named, TurnSubjectName
  <2>. QED  BY <1>4, <2>1, <2>2
<1>. QED
  BY <1>5, <1>6, <1>7, <1>8, <1>9, <1>10, <1>11, <1>12 DEF OneField

\* An array of the fields.
LEMMA FieldArrays ==
    ASSUME NEW kind \in Shorts \union {"blobOwner"},
           NEW one, NEW other, HasName(kind, one), HasName(kind, other),
           NameOf(kind, one) = NameOf(kind, other)
    PROVE  one = other
<1>1. DOMAIN one = NameFields[kind] /\ DOMAIN other = NameFields[kind]
  BY FieldsOfKind DEF Shorts
<1>2. IsRecord(one) /\ IsRecord(other)
  BY DEF HasName
<1>3. SUFFICES \A field \in NameFields[kind] : one[field] = other[field]
  BY <1>1, <1>2, SameFields
<1>4. NameOf(kind, one)[2] = NameOf(kind, other)[2]
  OBVIOUS
<1>5. CASE kind = "channel"
  BY <1>4, <1>5 DEF NameFields, NameOf, Named, ChannelName
<1>6. CASE kind = "role"
  BY <1>4, <1>6 DEF NameFields, NameOf, Named, RoleName
<1>7. CASE kind = "communityRequest"
  BY <1>4, <1>7 DEF NameFields, NameOf, Named, CommunityRequestName
<1>8. CASE kind = "moderation"
  BY <1>4, <1>8 DEF NameFields, NameOf, Named, ModerationName
<1>9. CASE kind = "blobOwner"
  BY <1>4, <1>9 DEF NameFields, NameOf, Named, BlobOwnerName
<1>. QED  BY <1>5, <1>6, <1>7, <1>8, <1>9 DEF Shorts

JoinedTexts == {"call", "groupMessage", "turnUser"}

\* Two parts with a mark between, the second of which is without it.
LEMMA JoinedPairs ==
    ASSUME NEW kind \in JoinedTexts,
           NEW one, NEW other, HasName(kind, one), HasName(kind, other),
           NameOf(kind, one) = NameOf(kind, other)
    PROVE  one = other
<1>1. DOMAIN one = NameFields[kind] /\ DOMAIN other = NameFields[kind]
  BY FieldsOfKind DEF JoinedTexts
<1>2. /\ IsRecord(one) /\ IsRecord(other)
      /\ IsTextual(kind, one) /\ IsTextual(kind, other)
      /\ NameReads(kind, one) /\ NameReads(kind, other)
  BY DEF HasName
<1>3. SUFFICES \A field \in NameFields[kind] : one[field] = other[field]
  BY <1>1, <1>2, SameFields
<1>4. NameOf(kind, one)[2] = NameOf(kind, other)[2]
  OBVIOUS
<1>5. ASSUME NEW mark, NEW a \in Seq(STRING), NEW b \in Seq(STRING),
             NEW c \in Seq(STRING), NEW d \in Seq(STRING),
             Without(mark, b), Without(mark, d),
             Joined(mark, a, b) = Joined(mark, c, d)
      PROVE  a = c /\ b = d
  <2>1. PICK S : /\ mark \in S
                 /\ \A text \in Seq(STRING) : text \in Seq(S)
    BY Alphabet
  <2>. QED  BY <1>5, <2>1, JoinedByLast
<1>6. CASE kind = "call"
  BY <1>2, <1>4, <1>5, <1>6
     DEF NameFields, TextParts, IsTextual, NameReads, CallReads, NameOf,
         Named, CallName
<1>7. CASE kind = "groupMessage"
  BY <1>2, <1>4, <1>5, <1>7
     DEF NameFields, TextParts, IsTextual, NameReads, MessageReads, NameOf,
         Named, MessageName
<1>8. CASE kind = "turnUser"
  BY <1>2, <1>4, <1>5, <1>8
     DEF NameFields, TextParts, IsTextual, NameReads, TurnReads, NameOf,
         Named, TurnName
<1>. QED  BY <1>6, <1>7, <1>8 DEF JoinedTexts

\* Three parts with a mark between, the first two without it.
LEMMA UnlockFactors ==
    ASSUME NEW one, NEW other,
           HasName("unlockFactor", one), HasName("unlockFactor", other),
           NameOf("unlockFactor", one) = NameOf("unlockFactor", other)
    PROVE  one = other
<1>. DEFINE kind == "unlockFactor"
<1>1. DOMAIN one = NameFields[kind] /\ DOMAIN other = NameFields[kind]
  BY FieldsOfKind
<1>2. /\ IsRecord(one) /\ IsRecord(other)
      /\ IsTextual(kind, one) /\ IsTextual(kind, other)
      /\ NameReads(kind, one) /\ NameReads(kind, other)
  BY DEF HasName
<1>3. NameOf(kind, one)[2] = NameOf(kind, other)[2]
  OBVIOUS
<1>4. ASSUME NEW r \in {one, other}
      PROVE  /\ r.identityId \in Seq(STRING) /\ r.deviceId \in Seq(STRING)
             /\ r.secretHandle \in Seq(STRING)
             /\ Without("\n", r.identityId) /\ Without("\n", r.deviceId)
  BY <1>2 DEF NameReads, UnlockReads, TextParts, IsTextual
<1>5. Joined("\n", Joined("\n", one.identityId, one.deviceId),
             one.secretHandle)
      = Joined("\n", Joined("\n", other.identityId, other.deviceId),
               other.secretHandle)
  BY <1>3 DEF NameOf, Named, UnlockName
<1>6. PICK S : /\ "\n" \in S
               /\ \A text \in Seq(STRING) : text \in Seq(S)
  BY Alphabet
<1>7. /\ one.identityId = other.identityId
      /\ one.deviceId = other.deviceId
      /\ one.secretHandle = other.secretHandle
  BY <1>4, <1>5, <1>6, JoinedThree
<1>. QED  BY <1>1, <1>2, <1>7, SameFields DEF NameFields

\* Records of the same fields, but for which of two participants is first.
LEMMA SameMeaning ==
    ASSUME NEW kind \in {"oneToOne", "safetyNumber"}, NEW one, NEW other,
           IsRecord(one), IsRecord(other),
           DOMAIN one = NameFields[kind], DOMAIN other = NameFields[kind],
           {one.first, one.second} = {other.first, other.second},
           kind = "oneToOne" => one.network = other.network
    PROVE  Meaning(kind, one) = Meaning(kind, other)
<1>1. DOMAIN one \subseteq {"first", "second", "network"}
  BY DEF NameFields
<1>2. "network" \in DOMAIN one => kind = "oneToOne"
  BY DEF NameFields
<1>. QED BY <1>1, <1>2 DEF Meaning, IsRecord

\* A sorted pair is the pair, or the other way round.
LEMMA SortedPair ==
    ASSUME NEW S, NEW mark, NEW a \in Seq(S), NEW b \in Seq(S),
           Without(mark, a), Without(mark, b)
    PROVE  /\ Sorted(a, b)[1] \in Seq(S) /\ Sorted(a, b)[2] \in Seq(S)
           /\ Without(mark, Sorted(a, b)[1]) /\ Without(mark, Sorted(a, b)[2])
BY SortedParts

\* A conversation of two has one name whichever of them comes first, and no
\* other conversation has it.
LEMMA OneToOnes ==
    ASSUME NEW one, NEW other,
           HasName("oneToOne", one), HasName("oneToOne", other),
           NameOf("oneToOne", one) = NameOf("oneToOne", other)
    PROVE  Meaning("oneToOne", one) = Meaning("oneToOne", other)
<1>. DEFINE kind == "oneToOne"
            p == Sorted(one.first, one.second)
            q == Sorted(other.first, other.second)
<1>1. DOMAIN one = NameFields[kind] /\ DOMAIN other = NameFields[kind]
  BY FieldsOfKind
<1>2. /\ IsRecord(one) /\ IsRecord(other)
      /\ IsTextual(kind, one) /\ IsTextual(kind, other)
      /\ NameReads(kind, one) /\ NameReads(kind, other)
  BY DEF HasName
<1>3. NameOf(kind, one)[2] = NameOf(kind, other)[2]
  OBVIOUS
<1>4. ASSUME NEW r \in {one, other}
      PROVE  /\ r.first \in Seq(STRING) /\ r.second \in Seq(STRING)
             /\ r.network \in Seq(STRING)
             /\ Without(":", r.first) /\ Without(":", r.second)
  BY <1>2 DEF NameReads, OneToOneReads, TextParts, IsTextual
<1>5. Joined(":", Joined(":", p[1], p[2]), one.network)
      = Joined(":", Joined(":", q[1], q[2]), other.network)
  BY <1>3 DEF NameOf, Named, OneToOneName
<1>6. PICK S : /\ ":" \in S
               /\ \A text \in Seq(STRING) : text \in Seq(S)
  BY Alphabet
<1>7. /\ p[1] \in Seq(STRING) /\ p[2] \in Seq(STRING)
      /\ q[1] \in Seq(STRING) /\ q[2] \in Seq(STRING)
      /\ Without(":", p[1]) /\ Without(":", p[2])
      /\ Without(":", q[1]) /\ Without(":", q[2])
  BY <1>4, SortedPair
<1>. HIDE DEF p, q
<1>8. p[1] = q[1] /\ p[2] = q[2] /\ one.network = other.network
  <2>1. /\ one.network \in Seq(S) /\ other.network \in Seq(S)
        /\ p[1] \in Seq(S) /\ p[2] \in Seq(S)
        /\ q[1] \in Seq(S) /\ q[2] \in Seq(S)
    BY <1>4, <1>6, <1>7
  <2>. QED  BY ONLY <1>5, <1>6, <1>7, <2>1, JoinedThree
<1>9. {one.first, one.second} = {other.first, other.second}
  BY <1>8, SortedSame DEF p, q
<1>. QED  BY <1>1, <1>2, <1>8, <1>9, SameMeaning

\* So has a safety number.
LEMMA SafetyNumbers ==
    ASSUME NEW one, NEW other,
           HasName("safetyNumber", one), HasName("safetyNumber", other),
           NameOf("safetyNumber", one) = NameOf("safetyNumber", other)
    PROVE  Meaning("safetyNumber", one) = Meaning("safetyNumber", other)
<1>. DEFINE kind == "safetyNumber"
            p == Sorted(one.first, one.second)
            q == Sorted(other.first, other.second)
<1>1. DOMAIN one = NameFields[kind] /\ DOMAIN other = NameFields[kind]
  BY FieldsOfKind
<1>2. /\ IsRecord(one) /\ IsRecord(other)
      /\ IsTextual(kind, one) /\ IsTextual(kind, other)
      /\ NameReads(kind, one) /\ NameReads(kind, other)
  BY DEF HasName
<1>3. NameOf(kind, one)[2] = NameOf(kind, other)[2]
  OBVIOUS
<1>4. ASSUME NEW r \in {one, other}
      PROVE  /\ r.first \in Seq(STRING) /\ r.second \in Seq(STRING)
             /\ Without("\n", r.first) /\ Without("\n", r.second)
  BY <1>2 DEF NameReads, SafetyReads, TextParts, IsTextual
<1>5. Joined("\n", p[1], p[2]) = Joined("\n", q[1], q[2])
  BY <1>3 DEF NameOf, Named, SafetyName
<1>6. PICK S : /\ "\n" \in S
               /\ \A text \in Seq(STRING) : text \in Seq(S)
  BY Alphabet
<1>7. /\ p[1] \in Seq(STRING) /\ p[2] \in Seq(STRING)
      /\ q[1] \in Seq(STRING) /\ q[2] \in Seq(STRING)
      /\ Without("\n", p[1]) /\ Without("\n", q[1])
  BY <1>4, SortedPair
<1>. HIDE DEF p, q
<1>8. p[1] = q[1] /\ p[2] = q[2]
  BY <1>5, <1>6, <1>7, JoinedByFirst
<1>9. {one.first, one.second} = {other.first, other.second}
  BY <1>8, SortedSame DEF p, q
<1>. QED  BY <1>1, <1>2, <1>9, SameMeaning

\* What the records of a kind that is put end to end are.
LEMMA PartsOfKind ==
    ASSUME NEW kind \in DOMAIN TextParts \union {"admission"}, NEW record,
           HasName(kind, record)
    PROVE  /\ DOMAIN record = NameFields[kind]
           /\ IsRecord(record)
           /\ \A part \in TextParts[kind] : record[part] \in Seq(STRING)
<1>1. /\ kind \notin {"state", "mlsRecord", "invitation"}
      /\ kind \in DOMAIN TextParts
  BY DEF TextParts
<1>. QED  BY <1>1, FieldsOfKind DEF HasName, IsTextual

\* An admission is an identity and a set of networks, each under its length.
LEMMA Admissions ==
    ASSUME NEW one, NEW other,
           HasName("admission", one), HasName("admission", other),
           NameOf("admission", one) = NameOf("admission", other)
    PROVE  one = other
<1>1. ASSUME NEW r \in {one, other}
      PROVE  /\ DOMAIN r = {"identityId", "networkIds"}
             /\ IsRecord(r)
             /\ r.identityId \in Seq(STRING)
             /\ IsFiniteSet(r.networkIds) /\ r.networkIds # {}
             /\ r.networkIds \subseteq Seq(STRING)
             /\ r = [identityId |-> r.identityId, networkIds |-> r.networkIds]
  <2>1. /\ IsTextual("admission", r) /\ NameReads("admission", r)
        /\ IsRecord(r)
    BY DEF HasName
  <2>2. DOMAIN r = {"identityId", "networkIds"}
    <3>1. NameFields["admission"] = {"identityId", "networkIds"}
      BY DEF NameFields
    <3>. QED  BY <3>1, FieldsOfKind
  <2>3. r = [identityId |-> r.identityId, networkIds |-> r.networkIds]
    BY <2>1, <2>2 DEF IsRecord
  <2>4. r.identityId \in Seq(STRING)
    <3>1. TextParts["admission"] = {"identityId"}
      BY DEF TextParts
    <3>. QED  BY <3>1, PartsOfKind
  <2>5. IsFiniteSet(r.networkIds) /\ r.networkIds \subseteq Seq(STRING)
    BY <2>1 DEF IsTextual
  <2>6. r.networkIds # {}
    BY <2>1 DEF NameReads
  <2>. QED  BY <2>1, <2>2, <2>3, <2>4, <2>5, <2>6
<1>2. AdmissionName(one) = AdmissionName(other)
  BY DEF NameOf
<1>3. PICK S : /\ Counts(S)
               /\ \A text \in Seq(STRING) : text \in Seq(S)
  BY Alphabet
<1>. DEFINE T == one.networkIds  U == other.networkIds
            a == one.identityId  b == other.identityId
<1>4. /\ T \subseteq Seq(S) /\ U \subseteq Seq(S)
      /\ a \in Seq(S) /\ b \in Seq(S)
      /\ IsFiniteSet(T) /\ IsFiniteSet(U) /\ T # {} /\ U # {}
  BY <1>1, <1>3
<1>5. AdmissionName([identityId |-> a, networkIds |-> T])
          = AdmissionName([identityId |-> b, networkIds |-> U])
  BY <1>1, <1>2
<1>6. one = [identityId |-> a, networkIds |-> T]
          /\ other = [identityId |-> b, networkIds |-> U]
  BY <1>1
<1>. HIDE DEF T, U, a, b
<1>7. a = b /\ T = U
  BY ONLY <1>3, <1>4, <1>5, NetworksAlike
<1>. QED  BY <1>6, <1>7

\* A mailbox under its length, and a device.
LEMMA DeviceReadTokens ==
    ASSUME NEW one, NEW other,
           HasName("deviceReadToken", one), HasName("deviceReadToken", other),
           NameOf("deviceReadToken", one) = NameOf("deviceReadToken", other)
    PROVE  one = other
<1>1. ASSUME NEW r \in {one, other}
      PROVE  /\ DOMAIN r = {"mailboxId", "deviceCredential"}
             /\ IsRecord(r)
             /\ r.mailboxId \in Seq(STRING)
             /\ r.deviceCredential \in Seq(STRING)
  <2>1. /\ "deviceReadToken" \in DOMAIN TextParts
        /\ TextParts["deviceReadToken"] = {"mailboxId", "deviceCredential"}
        /\ NameFields["deviceReadToken"] = {"mailboxId", "deviceCredential"}
    BY DEF TextParts, NameFields
  <2>. QED  BY <2>1, PartsOfKind
<1>2. Prefixing(one.mailboxId, one.deviceCredential)
      = Prefixing(other.mailboxId, other.deviceCredential)
  <2>1. NameOf("deviceReadToken", one)[2] = NameOf("deviceReadToken", other)[2]
    OBVIOUS
  <2>. QED  BY <2>1 DEF NameOf, Named, DeviceReadTokenName, Prefixing
<1>3. PICK S : /\ Counts(S)
               /\ \A text \in Seq(STRING) : text \in Seq(S)
  BY Alphabet
<1>4. /\ one.mailboxId \in Seq(S) /\ other.mailboxId \in Seq(S)
      /\ one.deviceCredential \in Seq(S) /\ other.deviceCredential \in Seq(S)
  BY <1>1, <1>3
<1>5. /\ one.mailboxId = other.mailboxId
      /\ one.deviceCredential = other.deviceCredential
  BY ONLY <1>2, <1>3, <1>4, PrefixingSplit
<1>. QED  BY <1>1, <1>5, SameFields

\* A text under its length is a text.
LEMMA PrefixedText ==
    ASSUME NEW S, Counts(S), NEW a \in Seq(S)
    PROVE  LengthPrefixed(a) \in Seq(S)
BY DEF LengthPrefixed, Counts

\* Two parts under their lengths, and a rest.
PrefixingBoth(a, b, c) == (LengthPrefixed(a) \o LengthPrefixed(b)) \o c

\* Two parts under their lengths are a part and a rest.
LEMMA PrefixingPair ==
    ASSUME NEW S, Counts(S),
           NEW a \in Seq(S), NEW b \in Seq(S), NEW c \in Seq(S)
    PROVE  /\ Prefixing(b, c) \in Seq(S)
           /\ PrefixingBoth(a, b, c) = Prefixing(a, Prefixing(b, c))
<1>. DEFINE p == LengthPrefixed(a)  q == LengthPrefixed(b)
<1>1. p \in Seq(S) /\ q \in Seq(S)
  BY PrefixedText
<1>. HIDE DEF p, q
<1>2. Regroups(p, q, c) /\ q \o c \in Seq(S)
  BY <1>1, Regroup
<1>. QED  BY <1>2 DEF Regroups, p, q, Prefixing, PrefixingBoth

\* They end where their lengths say.
LEMMA PrefixingBothSplit ==
    ASSUME NEW S, Counts(S),
           NEW a \in Seq(S), NEW b \in Seq(S), NEW c \in Seq(S),
           NEW d \in Seq(S), NEW e \in Seq(S), NEW f \in Seq(S),
           PrefixingBoth(a, b, c) = PrefixingBoth(d, e, f)
    PROVE  a = d /\ b = e /\ c = f
<1>1. /\ Prefixing(b, c) \in Seq(S) /\ Prefixing(e, f) \in Seq(S)
      /\ Prefixing(a, Prefixing(b, c)) = Prefixing(d, Prefixing(e, f))
  BY PrefixingPair
<1>2. a = d /\ Prefixing(b, c) = Prefixing(e, f)
  BY <1>1, PrefixingSplit
<1>. QED  BY <1>2, PrefixingSplit

\* A text under its length is that of one text only.
LEMMA PrefixedAlike ==
    ASSUME NEW S, Counts(S), NEW a \in Seq(S), NEW b \in Seq(S),
           LengthPrefixed(a) = LengthPrefixed(b)
    PROVE  a = b
<1>1. LengthPrefixed(a) \in Seq(S) /\ LengthPrefixed(b) \in Seq(S)
  BY PrefixedText
<1>2. LengthPrefixed(a) \o <<>> = LengthPrefixed(b) \o <<>>
  OBVIOUS
<1>. QED  BY <1>2, PrefixedSplit, EmptySeq

\* A mailbox and two hashes, each under its length.
LEMMA MailboxCreations ==
    ASSUME NEW one, NEW other,
           HasName("mailboxCreation", one), HasName("mailboxCreation", other),
           NameOf("mailboxCreation", one) = NameOf("mailboxCreation", other)
    PROVE  one = other
<1>1. ASSUME NEW r \in {one, other}
      PROVE  /\ DOMAIN r = {"mailboxId", "postTokenHash", "readTokenHash"}
             /\ IsRecord(r)
             /\ r.mailboxId \in Seq(STRING) /\ r.postTokenHash \in Seq(STRING)
             /\ r.readTokenHash \in Seq(STRING)
  <2>1. /\ "mailboxCreation" \in DOMAIN TextParts
        /\ TextParts["mailboxCreation"] =
               {"mailboxId", "postTokenHash", "readTokenHash"}
        /\ NameFields["mailboxCreation"] =
               {"mailboxId", "postTokenHash", "readTokenHash"}
    BY DEF TextParts, NameFields
  <2>. QED  BY <2>1, PartsOfKind
<1>2. PrefixingBoth(one.mailboxId, one.postTokenHash,
                    LengthPrefixed(one.readTokenHash))
      = PrefixingBoth(other.mailboxId, other.postTokenHash,
                      LengthPrefixed(other.readTokenHash))
  <2>1. NameOf("mailboxCreation", one)[2] = NameOf("mailboxCreation", other)[2]
    OBVIOUS
  <2>. QED  BY <2>1 DEF NameOf, Named, MailboxCreationName, PrefixingBoth
<1>3. PICK S : /\ Counts(S)
               /\ \A text \in Seq(STRING) : text \in Seq(S)
  BY Alphabet
<1>. DEFINE c == LengthPrefixed(one.readTokenHash)
            f == LengthPrefixed(other.readTokenHash)
<1>4. c \in Seq(S) /\ f \in Seq(S)
  BY <1>1, <1>3, PrefixedText
<1>. HIDE DEF c, f
<1>5. /\ one.mailboxId = other.mailboxId
      /\ one.postTokenHash = other.postTokenHash /\ c = f
  <2>1. /\ one.mailboxId \in Seq(S) /\ other.mailboxId \in Seq(S)
        /\ one.postTokenHash \in Seq(S) /\ other.postTokenHash \in Seq(S)
    BY <1>1, <1>3
  <2>2. PrefixingBoth(one.mailboxId, one.postTokenHash, c)
        = PrefixingBoth(other.mailboxId, other.postTokenHash, f)
    BY <1>2 DEF c, f
  <2>. QED  BY ONLY SMTT(60), <1>3, <1>4, <2>1, <2>2, PrefixingBothSplit
<1>6. one.readTokenHash = other.readTokenHash
  BY <1>1, <1>3, <1>5, PrefixedAlike DEF c, f
<1>. QED  BY <1>1, <1>5, <1>6, SameFields

\* A call and a sender under their lengths, an epoch and a sealer.
LEMMA FrameContexts ==
    ASSUME NEW one, NEW other,
           HasName("frameContext", one), HasName("frameContext", other),
           NameOf("frameContext", one) = NameOf("frameContext", other)
    PROVE  one = other
<1>1. ASSUME NEW r \in {one, other}
      PROVE  /\ DOMAIN r = {"callId", "senderId", "epoch", "sealerId"}
             /\ IsRecord(r)
             /\ r.callId \in Seq(STRING) /\ r.senderId \in Seq(STRING)
  <2>1. /\ "frameContext" \in DOMAIN TextParts
        /\ TextParts["frameContext"] = {"callId", "senderId"}
        /\ NameFields["frameContext"] =
               {"callId", "senderId", "epoch", "sealerId"}
    BY DEF TextParts, NameFields
  <2>. QED  BY <2>1, PartsOfKind
<1>. DEFINE c == <<Count(one.epoch), one.sealerId>>
            f == <<Count(other.epoch), other.sealerId>>
<1>2. PrefixingBoth(one.callId, one.senderId, c)
      = PrefixingBoth(other.callId, other.senderId, f)
  <2>1. NameOf("frameContext", one)[2] = NameOf("frameContext", other)[2]
    OBVIOUS
  <2>. QED  BY <2>1 DEF NameOf, Named, FrameContextName, PrefixingBoth
<1>3. PICK S : /\ Counts(S)
               /\ Count(one.epoch) \in S /\ one.sealerId \in S
               /\ Count(other.epoch) \in S /\ other.sealerId \in S
               /\ \A text \in Seq(STRING) : text \in Seq(S)
  <2>. DEFINE p == Count(one.epoch)  q == one.sealerId
              r == Count(other.epoch)  s == other.sealerId
  <2>. HIDE DEF p, q, r, s
  <2>1. \E S : /\ Counts(S) /\ p \in S /\ q \in S /\ r \in S /\ s \in S
               /\ \A text \in Seq(STRING) : text \in Seq(S)
    BY Alphabet
  <2>. QED  BY <2>1 DEF p, q, r, s
<1>4. c \in Seq(S) /\ f \in Seq(S)
  BY <1>3
<1>5. c[1][2] = one.epoch /\ c[2] = one.sealerId
          /\ f[1][2] = other.epoch /\ f[2] = other.sealerId
  BY DEF Count
<1>. HIDE DEF c, f
<1>6. one.callId = other.callId /\ one.senderId = other.senderId /\ c = f
  <2>1. /\ one.callId \in Seq(S) /\ other.callId \in Seq(S)
        /\ one.senderId \in Seq(S) /\ other.senderId \in Seq(S)
    BY <1>1, <1>3
  <2>. QED  BY ONLY SMTT(60), <1>3, <1>4, <1>2, <2>1, PrefixingBothSplit
<1>. QED  BY <1>1, <1>5, <1>6, SameFields

Inboxes == {"mailboxId", "postToken", "envelopeKey"}

\* A recipient and an epoch, which is always of one length.
LEMMA InboxKeys ==
    ASSUME NEW kind \in Inboxes, NEW one, NEW other,
           HasName(kind, one), HasName(kind, other),
           NameOf(kind, one) = NameOf(kind, other)
    PROVE  one = other
<1>1. ASSUME NEW r \in {one, other}
      PROVE  /\ DOMAIN r = {"recipient", "epoch"}
             /\ IsRecord(r)
             /\ r.recipient \in Seq(STRING)
  <2>1. kind \in DOMAIN TextParts /\ TextParts[kind] = {"recipient"}
          /\ NameFields[kind] = {"recipient", "epoch"}
    BY DEF Inboxes, TextParts, NameFields
  <2>. QED  BY <2>1, PartsOfKind
<1>2. one.recipient \o <<Count(one.epoch)>>
          = other.recipient \o <<Count(other.epoch)>>
  <2>1. NameOf(kind, one)[2] = NameOf(kind, other)[2]
    OBVIOUS
  <2>. QED  BY <2>1 DEF Inboxes, NameOf, Named, InboxName
<1>3. PICK S : /\ Count(one.epoch) \in S /\ Count(other.epoch) \in S
               /\ \A text \in Seq(STRING) : text \in Seq(S)
  BY Alphabet
<1>4. one.recipient = other.recipient /\ one.epoch = other.epoch
  BY ZenonT(60), <1>1, <1>2, <1>3, CountedSplit
<1>. QED  BY <1>1, <1>4, SameFields

\* A recipient, in the first epoch of the schedule of another secret.
LEMMA Presences ==
    ASSUME NEW one, NEW other,
           HasName("presence", one), HasName("presence", other),
           NameOf("presence", one) = NameOf("presence", other)
    PROVE  one = other
<1>1. ASSUME NEW r \in {one, other}
      PROVE  /\ DOMAIN r = {"recipient"}
             /\ IsRecord(r)
             /\ r.recipient \in Seq(STRING)
  <2>1. /\ "presence" \in DOMAIN TextParts
        /\ TextParts["presence"] = {"recipient"}
        /\ NameFields["presence"] = {"recipient"}
    BY DEF TextParts, NameFields
  <2>. QED  BY <2>1, PartsOfKind
<1>2. one.recipient \o <<Count(0)>> = other.recipient \o <<Count(0)>>
  <2>1. NameOf("presence", one)[2][2] = NameOf("presence", other)[2][2]
    OBVIOUS
  <2>. QED  BY <2>1 DEF NameOf, Named, PresenceName, InboxName
<1>3. PICK S : /\ Count(0) \in S
               /\ \A text \in Seq(STRING) : text \in Seq(S)
  BY Alphabet
<1>4. one.recipient = other.recipient
  BY <1>1, <1>2, <1>3, CountedSplit
<1>. QED  BY <1>1, <1>4, SameFields

\* Two entries that are named alike say the same.
LEMMA SameName ==
    ASSUME StatesApart, NEW one \in Readable, NEW other \in Readable,
           KindOf(one) = "named", KindOf(other) = "named",
           TextOf(one) = TextOf(other)
    PROVE  Same(one, other)
<1>1. ASSUME NEW entry \in {one, other}
      PROVE  /\ HasName(entry.kind, entry.record)
             /\ entry.kind \in NameKinds
             /\ TextOf(entry) = NameOf(entry.kind, entry.record)
  BY NamedEntry DEF HasName
<1>2. one.kind = other.kind
  <2>1. LabelOf[one.kind] = LabelOf[other.kind]
    <3>1. NameOf(one.kind, one.record)[1] = NameOf(other.kind, other.record)[1]
      BY <1>1
    <3>2. <<LabelOf[one.kind]>> = <<LabelOf[other.kind]>>
      BY <1>1, <3>1, NamesLabelled
    <3>. QED  BY <3>2
  <2>2. CASE {one.kind, other.kind} \subseteq Digests
    BY <2>2, DigestsApart
  <2>3. CASE {one.kind, other.kind} \subseteq Shorts
    BY <1>1, <2>3, ShortsApart
  <2>. QED  BY <1>1, <2>1, <2>2, <2>3, NamesApart
<1>. DEFINE kind == one.kind
<1>3. /\ HasName(kind, one.record) /\ HasName(kind, other.record)
      /\ NameOf(kind, one.record) = NameOf(kind, other.record)
      /\ kind \in NameKinds
  BY <1>1, <1>2
<1>4. SUFFICES Meaning(kind, one.record) = Meaning(kind, other.record)
  BY <1>2 DEF Same
<1>. HIDE DEF kind
<1>5. CASE kind \in {"community", "group", "invitation", "mlsRecord",
                     "verificationCode", "keyFingerprint", "bearer",
                     "state", "roster"}
  BY <1>3, <1>5, WholeRecords
<1>6. CASE kind = "oneToOne"
  BY <1>3, <1>6, OneToOnes
<1>7. CASE kind = "safetyNumber"
  BY <1>3, <1>7, SafetyNumbers
<1>8. CASE one.record = other.record
  BY <1>8
<1>9. CASE kind \in OneField
  BY <1>3, <1>8, <1>9, SingleFields
<1>10. CASE kind \in Shorts \union {"blobOwner"}
  BY <1>3, <1>8, <1>10, FieldArrays
<1>11. CASE kind \in JoinedTexts
  BY <1>3, <1>8, <1>11, JoinedPairs
<1>12. CASE kind = "unlockFactor"
  BY <1>3, <1>8, <1>12, UnlockFactors
<1>13. CASE kind = "admission"
  BY <1>3, <1>8, <1>13, Admissions
<1>14. CASE kind = "mailboxCreation"
  BY <1>3, <1>8, <1>14, MailboxCreations
<1>15. CASE kind = "deviceReadToken"
  BY <1>3, <1>8, <1>15, DeviceReadTokens
<1>16. CASE kind = "frameContext"
  BY <1>3, <1>8, <1>16, FrameContexts
<1>17. CASE kind \in Inboxes
  BY <1>3, <1>8, <1>17, InboxKeys
<1>18. CASE kind = "presence"
  BY <1>3, <1>8, <1>18, Presences
<1>. QED
  BY <1>3, <1>5, <1>6, <1>7, <1>9, <1>10, <1>11, <1>12, <1>13, <1>14, <1>15,
     <1>16, <1>17, <1>18
     DEF NameKinds, NameFields, OneField, Shorts, JoinedTexts, Inboxes

----------------------------------------------------------------------------
(* The type of the state, and the server's memory *)

\* Every state is of its type, whatever the bounds: what the server remembers
\* is what it served, and within its window.
THEOREM TypeCorrect == Spec => []TypeOK
<1>1. Init => TypeOK
  BY WindowAssumption DEF Init, TypeOK
<1>2. TypeOK /\ [Next]_vars => TypeOK'
  <2>. SUFFICES ASSUME TypeOK, [Next]_vars  PROVE TypeOK'
    OBVIOUS
  <2>1. ASSUME NEW entry \in Readable, Make(entry)  PROVE TypeOK'
    BY <2>1 DEF Make, TypeOK
  <2>2. ASSUME NEW entry \in Readable, Take(entry)  PROVE TypeOK'
    BY <2>2 DEF Take, TypeOK
  <2>3. ASSUME NEW entry \in Readable, NEW signing \in {1, 2},
               Serve(entry, signing)
        PROVE  TypeOK'
    <3>. DEFINE Keys == ReplayKeys
    <3>1. ReplayKey(entry, signing) \in Keys
      BY DEF ReplayKeys
    <3>2. served \in Seq(Keys)
      BY DEF TypeOK
    <3>3. /\ served' = Append(served, ReplayKey(entry, signing))
          /\ UNCHANGED <<made, taken, now>>
          /\ seen' = seen \union {[key |-> ReplayKey(entry, signing), at |-> now]}
      BY <2>3 DEF Serve
    <3>. HIDE DEF Keys
    <3>4. served' \in Seq(Keys)
      BY <3>1, <3>2, <3>3
    <3>5. /\ \A i \in DOMAIN served : i \in DOMAIN served'
                                          /\ served'[i] = served[i]
          /\ \E i \in DOMAIN served' : served'[i] = ReplayKey(entry, signing)
      BY <3>1, <3>2, <3>3
    <3>6. seen' \subseteq [key : {served'[i] : i \in DOMAIN served'},
                           at : 0..now]
      <4>1. SUFFICES ASSUME NEW request \in seen'
                     PROVE  request \in
                              [key : {served'[i] : i \in DOMAIN served'},
                               at : 0..now]
        OBVIOUS
      <4>2. CASE request \in seen
        BY <4>2, <3>5 DEF TypeOK
      <4>3. CASE request = [key |-> ReplayKey(entry, signing), at |-> now]
        BY <4>3, <3>5, WindowAssumption DEF TypeOK
      <4>. QED  BY <3>3, <4>2, <4>3
    <3>7. \A request \in seen' : now - request.at <= ReplayWindow
      BY <3>3, WindowAssumption DEF TypeOK
    <3>. QED  BY <3>3, <3>4, <3>6, <3>7 DEF TypeOK, Keys
  <2>4. ASSUME Tick  PROVE TypeOK'
    BY <2>4, WindowAssumption DEF Tick, Remembered, TypeOK
  <2>5. ASSUME UNCHANGED vars  PROVE TypeOK'
    BY <2>5 DEF vars, TypeOK
  <2>. QED  BY <2>1, <2>2, <2>3, <2>4, <2>5 DEF Next
<1>. QED  BY <1>1, <1>2, PTL DEF Spec

----------------------------------------------------------------------------
(* What a verifier takes *)

\* Whoever the key of an entry belongs to made one with its text, unless the
\* key is bad.
LEMMA MadeWithText ==
    ASSUME made \subseteq Readable, NEW entry \in Readable,
           KindOf(entry) # "named", Verifies(entry),
           NEW key \in entry.by \ Bad
    PROVE  MadeBy(key, entry)
<1>1. PICK other \in made : key \in other.by /\ Texts[other] = Texts[entry]
  BY DEF Verifies, Exists
<1>2. TextOf(other) = TextOf(entry)
  BY <1>1 DEF Texts
<1>3. entry.kind = other.kind /\ entry.record = other.record
  BY <1>2, SameText
<1>. QED  BY <1>1, <1>3 DEF MadeBy, Same

\* Whatever is taken for the holder of a key that is not bad, that holder
\* made, as this kind and with this content: for every set of records.
THEOREM AcceptedRecords == Spec => []AcceptedAsMade
<1>1. Init => AcceptedAsMade
  BY DEF Init, AcceptedAsMade
<1>2. TypeOK /\ AcceptedAsMade /\ [Next]_vars => AcceptedAsMade'
  <2>. SUFFICES ASSUME TypeOK, AcceptedAsMade, [Next]_vars
                PROVE  AcceptedAsMade'
    OBVIOUS
  <2>1. ASSUME taken' = taken, made \subseteq made'  PROVE AcceptedAsMade'
    BY <2>1 DEF AcceptedAsMade, MadeBy
  <2>2. ASSUME NEW entry \in Readable, Make(entry)  PROVE AcceptedAsMade'
    BY <2>1, <2>2 DEF Make
  <2>3. ASSUME NEW entry \in Readable, Take(entry)  PROVE AcceptedAsMade'
    <3>1. taken' = entry /\ made' = made /\ Verifies(entry)
      BY <2>3 DEF Take
    <3>2. KindOf(entry) # "named" =>
              \A key \in entry.by \ Bad : MadeBy(key, entry)
      BY <3>1, MadeWithText DEF TypeOK
    <3>3. \A key : MadeBy(key, entry) = MadeBy(key, entry)'
      BY <3>1 DEF MadeBy
    <3>. QED  BY <3>1, <3>2, <3>3 DEF AcceptedAsMade
  <2>4. ASSUME NEW entry \in Readable, NEW signing \in {1, 2},
               Serve(entry, signing)
        PROVE  AcceptedAsMade'
    BY <2>1, <2>4 DEF Serve
  <2>5. ASSUME Tick  PROVE AcceptedAsMade'
    BY <2>1, <2>5 DEF Tick
  <2>6. ASSUME UNCHANGED vars  PROVE AcceptedAsMade'
    BY <2>1, <2>6 DEF vars
  <2>. QED  BY <2>2, <2>3, <2>4, <2>5, <2>6 DEF Next
<1>. QED  BY <1>1, <1>2, TypeCorrect, PTL DEF Spec

\* Whoever derives under a key that is not bad derived a name for a record that
\* says the same, whatever shows it.
LEMMA MadeWithName ==
    ASSUME StatesApart, made \subseteq Readable, NEW entry \in Readable,
           KindOf(entry) = "named", Verifies(entry),
           NEW key \in entry.by \ Bad
    PROVE  MadeBy(key, entry)
<1>1. PICK other \in made : key \in other.by /\ Texts[other] = Texts[entry]
  BY DEF Verifies, Exists
<1>2. other \in Readable /\ TextOf(other) = TextOf(entry)
  BY <1>1 DEF Texts
<1>3. KindOf(other) = "named"
  <2>1. SUFFICES ASSUME KindOf(other) # "named"  PROVE FALSE
    OBVIOUS
  <2>2. /\ other.kind \in FormKinds
        /\ TextOf(entry) = <<FormOf(other.kind).domain, other.record>>
    BY <1>2, <2>1, FormText
  <2>. QED  BY <2>2, TextsOfForms
<1>4. Same(entry, other)
  BY <1>2, <1>3, SameName
<1>. QED  BY <1>1, <1>4 DEF MadeBy

\* No name, token or derived key stands for two records that say different
\* things, whatever the records and the keys, as long as no digest of a state
\* is asked about that has the fields of an identifier: what checks out under a
\* key that is not bad was made under it, for a record that says the same.
THEOREM OneNamePerRecord ==
    ASSUME StatesApart
    PROVE  Spec => []OneRecordPerName
<1>1. Init => OneRecordPerName
  BY DEF Init, OneRecordPerName
<1>2. TypeOK /\ OneRecordPerName /\ [Next]_vars => OneRecordPerName'
  <2>. SUFFICES ASSUME TypeOK, OneRecordPerName, [Next]_vars
                PROVE  OneRecordPerName'
    OBVIOUS
  <2>1. ASSUME taken' = taken, made \subseteq made'  PROVE OneRecordPerName'
    BY <2>1 DEF OneRecordPerName, MadeBy
  <2>2. ASSUME NEW entry \in Readable, Make(entry)  PROVE OneRecordPerName'
    BY <2>1, <2>2 DEF Make
  <2>3. ASSUME NEW entry \in Readable, Take(entry)  PROVE OneRecordPerName'
    <3>1. taken' = entry /\ made' = made /\ Verifies(entry)
      BY <2>3 DEF Take
    <3>2. KindOf(entry) = "named" =>
              \A key \in entry.by \ Bad : MadeBy(key, entry)
      BY <3>1, MadeWithName DEF TypeOK
    <3>3. \A key : MadeBy(key, entry) = MadeBy(key, entry)'
      BY <3>1 DEF MadeBy
    <3>. QED  BY <3>1, <3>2, <3>3 DEF OneRecordPerName
  <2>4. ASSUME NEW entry \in Readable, NEW signing \in {1, 2},
               Serve(entry, signing)
        PROVE  OneRecordPerName'
    BY <2>1, <2>4 DEF Serve
  <2>5. ASSUME Tick  PROVE OneRecordPerName'
    BY <2>1, <2>5 DEF Tick
  <2>6. ASSUME UNCHANGED vars  PROVE OneRecordPerName'
    BY <2>1, <2>6 DEF vars
  <2>. QED  BY <2>2, <2>3, <2>4, <2>5, <2>6 DEF Next
<1>. QED  BY <1>1, <1>2, TypeCorrect, PTL DEF Spec

\* A genuine proof of possession is one the target made over this very
\* transition.
LEMMA PossessionMade ==
    ASSUME made \subseteq Readable, NEW record, Possessed(record),
           record.targetCredential \notin Bad,
           "targetCredential" \in DOMAIN record
    PROVE  \E entry \in made : /\ entry.kind = "possession"
                               /\ entry.by = {record.targetCredential}
                               /\ entry.record = Proved(record)
<1>. DEFINE target == record.targetCredential
<1>1. PICK entry \in made :
          target \in entry.by
              /\ Texts[entry] = Text(PossessionForm, Proved(record))
  BY DEF Possessed, Exists
<1>2. /\ "possession" \in FormKinds
      /\ "possession" \in DOMAIN SignedForms
      /\ FormOf("possession") = PossessionForm
      /\ SignedForms["possession"].signers = {"targetCredential"}
      /\ "targetCredential" \in PossessionForm.required
  BY DEF FormKinds, FormOf, SignedForms, PossessionForm, Form
<1>3. /\ TextOf(entry) = <<PossessionForm.domain, Proved(record)>>
      /\ Proved(record).targetCredential = target
  BY <1>1 DEF Texts, Text, Proved
<1>4. KindOf(entry) # "named"
  BY <1>2, <1>3, TextsOfForms
<1>5. /\ entry.kind \in FormKinds
      /\ TextOf(entry) = <<FormOf(entry.kind).domain, entry.record>>
      /\ Shaped(FormOf(entry.kind), entry.record)
  BY <1>4, FormText
<1>6. <<FormOf(entry.kind).domain, entry.record>>
          = <<PossessionForm.domain, Proved(record)>>
  BY <1>3, <1>5
<1>7. /\ entry.record = Proved(record)
      /\ FormOf(entry.kind).domain = PossessionForm.domain
  BY ONLY <1>6, Zenon
<1>8. entry.kind = "possession"
  BY <1>2, <1>5, <1>7, FormsApart
<1>9. entry.by = {target}
  <2>1. KindOf(entry) = "signed"
    BY <1>2, <1>8, KindsApart DEF KindOf
  <2>2. NamedSigners(entry.kind, entry.record) \in {{}, entry.by}
    BY <2>1 DEF Readable, SignersMatch
  <2>3. "targetCredential" \in DOMAIN entry.record
    BY <1>2, <1>5, <1>8 DEF Shaped
  <2>4. NamedSigners(entry.kind, entry.record) = {target}
    BY <1>2, <1>3, <1>7, <1>8, <2>3 DEF NamedSigners
  <2>. QED  BY <2>2, <2>4
<1>. QED  BY <1>7, <1>8, <1>9

\* A transition names its target.
LEMMA TransitionsNameTargets ==
    ASSUME NEW entry \in Readable, Proves(entry)
    PROVE  "targetCredential" \in DOMAIN entry.record
<1>1. entry.kind = "transition"
  BY DEF Proves
<1>2. /\ "transition" \in DOMAIN SignedForms
      /\ "targetCredential" \in SignedForms["transition"].required
  BY DEF SignedForms, TransitionForm, PossessionForm, Form
<1>3. KindOf(entry) = "signed"
  BY <1>1, <1>2, KindsApart DEF KindOf
<1>. QED  BY <1>1, <1>2, <1>3 DEF Readable, Reads, SignedReads, Shaped

\* No device is enrolled, or made the device of a recovery, that did not
\* prove over this very transition that it holds its key.
THEOREM EnrolledDevices == Spec => []EnrolledInPossession
<1>1. Init => EnrolledInPossession
  BY DEF Init, EnrolledInPossession
<1>2. TypeOK /\ EnrolledInPossession /\ [Next]_vars => EnrolledInPossession'
  <2>. SUFFICES ASSUME TypeOK, EnrolledInPossession, [Next]_vars
                PROVE  EnrolledInPossession'
    OBVIOUS
  <2>1. ASSUME taken' = taken, made \subseteq made'
        PROVE  EnrolledInPossession'
    BY <2>1 DEF EnrolledInPossession
  <2>2. ASSUME NEW entry \in Readable, Make(entry)
        PROVE  EnrolledInPossession'
    BY <2>1, <2>2 DEF Make
  <2>3. ASSUME NEW entry \in Readable, Take(entry)
        PROVE  EnrolledInPossession'
    <3>1. taken' = entry /\ made' = made /\ ProofHolds(entry)
      BY <2>3 DEF Take
    <3>2. SUFFICES ASSUME Proves(entry),
                          entry.record.targetCredential \notin Bad
                   PROVE  \E other \in made :
                              /\ other.kind = "possession"
                              /\ other.by = {entry.record.targetCredential}
                              /\ other.record = Proved(entry.record)
      BY <3>1 DEF EnrolledInPossession
    <3>3. Possessed(entry.record)
      BY <3>1, <3>2 DEF ProofHolds
    <3>. QED  BY <3>2, <3>3, PossessionMade, TransitionsNameTargets
              DEF TypeOK
  <2>4. ASSUME NEW entry \in Readable, NEW signing \in {1, 2},
               Serve(entry, signing)
        PROVE  EnrolledInPossession'
    BY <2>1, <2>4 DEF Serve
  <2>5. ASSUME Tick  PROVE EnrolledInPossession'
    BY <2>1, <2>5 DEF Tick
  <2>6. ASSUME UNCHANGED vars  PROVE EnrolledInPossession'
    BY <2>1, <2>6 DEF vars
  <2>. QED  BY <2>2, <2>3, <2>4, <2>5, <2>6 DEF Next
<1>. QED  BY <1>1, <1>2, TypeCorrect, PTL DEF Spec

----------------------------------------------------------------------------
(* What the server serves *)

\* The timestamp a replay key is about: the key holds the text, and the text
\* the whole request.
StampOf(key) == key[2][2].timestamp

\* The replay key of a request holds its timestamp.
LEMMA RequestStamp ==
    ASSUME NEW entry \in Readable, NEW signing \in {1, 2},
           entry.kind = "request"
    PROVE  /\ StampOf(ReplayKey(entry, signing)) = entry.record.timestamp
           /\ entry.record.timestamp \in Nat
<1>1. /\ "request" \in DOMAIN SignedForms
      /\ "timestamp" \in SignedForms["request"].required
  BY DEF SignedForms, RequestForm, Form
<1>2. KindOf(entry) = "signed"
  BY <1>1, KindsApart DEF KindOf
<1>3. TextOf(entry) = <<FormOf(entry.kind).domain, entry.record>>
  BY <1>2, FormText
<1>4. ReplayKey(entry, signing)[2] = <<FormOf(entry.kind).domain, entry.record>>
  BY <1>3 DEF ReplayKey, Texts
<1>5. StampOf(ReplayKey(entry, signing)) = entry.record.timestamp
  BY <1>4 DEF StampOf
<1>6. "timestamp" \in DOMAIN entry.record
  BY <1>1, <1>2 DEF Readable, Reads, SignedReads, Shaped
<1>. QED  BY <1>5, <1>6, EntriesAssumption DEF Readable

\* What was served is remembered, and since no earlier than it was fresh; or
\* it is too old to be fresh.
ForgottenIsOld ==
    \A i \in DOMAIN served :
        /\ StampOf(served[i]) \in Nat
        /\ \/ \E request \in seen :
                  /\ request.key = served[i]
                  /\ StampOf(served[i]) - request.at <= MaxClockSkew
           \/ now - StampOf(served[i]) > MaxClockSkew

ServedInv == ForgottenIsOld /\ ServedOnce

\* Every step keeps it: a request is forgotten only when too old to be served
\* again, and time does not go back.
LEMMA ServedInductive ==
    TypeOK /\ ServedInv /\ [Next]_vars => ServedInv'
<1>. SUFFICES ASSUME TypeOK, ServedInv, [Next]_vars  PROVE ServedInv'
  OBVIOUS
<1>1. ASSUME UNCHANGED <<now, seen, served>>  PROVE ServedInv'
  BY <1>1 DEF ServedInv, ForgottenIsOld, ServedOnce
<1>2. ASSUME NEW entry \in Readable, Make(entry)  PROVE ServedInv'
  BY <1>1, <1>2 DEF Make
<1>3. ASSUME NEW entry \in Readable, Take(entry)  PROVE ServedInv'
  BY <1>1, <1>3 DEF Take
<1>4. ASSUME NEW entry \in Readable, NEW signing \in {1, 2},
             Serve(entry, signing)
      PROVE  ServedInv'
  <2>. DEFINE key == ReplayKey(entry, signing)
  <2>1. /\ entry.kind = "request"
        /\ IsFresh(entry.record.timestamp, now)
        /\ \A request \in seen : request.key # key
        /\ seen' = seen \union {[key |-> key, at |-> now]}
        /\ served' = Append(served, key)
        /\ now' = now
    BY <1>4 DEF Serve
  <2>2. /\ StampOf(key) = entry.record.timestamp
        /\ StampOf(key) \in Nat
    BY <2>1, RequestStamp
  <2>3. served \in Seq(ReplayKeys)
            /\ now \in Nat
    BY WindowAssumption DEF TypeOK
  <2>. HIDE DEF key
  <2>4. \A i \in DOMAIN served : served[i] # key
    BY <2>1, <2>2, <2>3, WindowAssumption
       DEF ServedInv, ForgottenIsOld, IsFresh
  <2>5. /\ DOMAIN served' = DOMAIN served \union {Len(served) + 1}
        /\ \A i \in DOMAIN served : served'[i] = served[i]
        /\ served'[Len(served) + 1] = key
        /\ Len(served) + 1 \notin DOMAIN served
    <3>1. key \in ReplayKeys
      BY DEF key, ReplayKeys
    <3>. QED  BY <2>1, <2>3, <3>1
  <2>6. ForgottenIsOld'
    <3>1. ASSUME NEW i \in DOMAIN served
          PROVE  /\ StampOf(served'[i]) \in Nat
                 /\ \/ \E request \in seen' :
                         /\ request.key = served'[i]
                         /\ StampOf(served'[i]) - request.at <= MaxClockSkew
                    \/ now' - StampOf(served'[i]) > MaxClockSkew
      BY <2>1, <2>5 DEF ServedInv, ForgottenIsOld
    <3>2. /\ [key |-> key, at |-> now] \in seen'
          /\ StampOf(key) - now <= MaxClockSkew
      BY <2>1, <2>2 DEF IsFresh
    <3>. QED  BY <2>2, <2>5, <3>1, <3>2 DEF ForgottenIsOld
  <2>7. ServedOnce'
    BY <2>4, <2>5 DEF ServedInv, ServedOnce, IsInjective
  <2>. QED  BY <2>6, <2>7 DEF ServedInv
<1>5. ASSUME Tick  PROVE ServedInv'
  <2>1. /\ now' = now + 1
        /\ seen' = {request \in seen : now' - request.at <= ReplayWindow}
        /\ served' = served
    BY <1>5 DEF Tick, Remembered
  <2>2. ASSUME NEW i \in DOMAIN served
        PROVE  \/ \E request \in seen' :
                      /\ request.key = served[i]
                      /\ StampOf(served[i]) - request.at <= MaxClockSkew
               \/ now' - StampOf(served[i]) > MaxClockSkew
    <3>1. StampOf(served[i]) \in Nat /\ now \in Nat
      BY WindowAssumption DEF ServedInv, ForgottenIsOld, TypeOK
    <3>2. CASE now - StampOf(served[i]) > MaxClockSkew
      BY <2>1, <3>1, <3>2, WindowAssumption
    <3>3. ASSUME NEW request \in seen, request.key = served[i],
                 StampOf(served[i]) - request.at <= MaxClockSkew
          PROVE  \/ request \in seen'
                 \/ now' - StampOf(served[i]) > MaxClockSkew
      <4>1. request.at \in Nat
        BY <3>1 DEF TypeOK
      <4>. QED  BY <2>1, <3>1, <3>3, <4>1, WindowAssumption
    <3>. QED  BY <3>2, <3>3 DEF ServedInv, ForgottenIsOld
  <2>. QED  BY <2>1, <2>2 DEF ServedInv, ForgottenIsOld, ServedOnce
<1>6. ASSUME UNCHANGED vars  PROVE ServedInv'
  BY <1>1, <1>6 DEF vars
<1>. QED  BY <1>2, <1>3, <1>4, <1>5, <1>6 DEF Next

\* No request is served twice, whatever the skew, as long as the server
\* remembers for twice the skew.
THEOREM ServedAtMostOnce == Spec => []ServedOnce
<1>1. Init => ServedInv
  BY DEF Init, ServedInv, ForgottenIsOld, ServedOnce, IsInjective
<1>2. ServedInv => ServedOnce
  BY DEF ServedInv
<1>. QED  BY <1>1, <1>2, ServedInductive, TypeCorrect, PTL DEF Spec
=============================================================================
