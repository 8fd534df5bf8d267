-------------------------- MODULE MCRecordExchange --------------------------
(* The records TLC is given: of every kind one or two, two that differ in  *)
(* one field, an optional field there or not, the pairs of kinds whose     *)
(* fields are the same, what a class refuses, and documents that name a    *)
(* bad key or carry a proof that is not genuine.  The keys of "a" and "b"  *)
(* are honest, "m" is bad, "s" and "pool" are secrets, and "public" is     *)
(* what everyone knows.                                                    *)
EXTENDS RecordExchange, TLC

LOCAL E(kind, by, records) ==
    {[kind |-> kind, record |-> record, by |-> by] : record \in records}

\* A record, and one with this field otherwise.
LOCAL Two(record, field, value) ==
    {record, [record EXCEPT ![field] = value]}

LOCAL With(record, more) == {record, record @@ more}

----------------------------------------------------------------------------

LOCAL IdentityRecord ==
    [authorizationRevision |-> 0, deviceCredential |-> "b", id |-> "a",
     networks |-> 1, deviceCredentialCommitment |-> CommitmentTo("b"),
     profile |-> 0, recoveryAuthority |-> 0, timestamp |-> 0, version |-> 1]

LOCAL KeychainRecord ==
    [encryptedPayload |-> 0, ownerIdentityId |-> "a", timestamp |-> 0,
     version |-> 1]

LOCAL SealedSecretRecord ==
    [authorizationRevision |-> 1, generation |-> 0, identityId |-> "a",
     publisherCredential |-> "a", recipientCredential |-> "b",
     sealedSecret |-> 0]

LOCAL LeafRecord ==
    [deviceCredential |-> "b", identityId |-> "a", signaturePublicKey |-> 0]

MCIdentities ==
    E("identity", {"a"},
      With(IdentityRecord, [admissionNonce |-> 0])
          \union Two(IdentityRecord, "deviceCredentialCommitment",
                     CommitmentTo("m")))
    \union E("keychain", {"a"},
             With(KeychainRecord, [previousKeychainExternalIdentifier |-> 0]))
    \union E("keychain", {"m"},
             {[KeychainRecord EXCEPT !.ownerIdentityId = "m"],
              KeychainRecord})
    \union E("sealedSecret", {"a"}, Two(SealedSecretRecord, "generation", 1))
    \union E("leaf", {"a", "b"}, Two(LeafRecord, "signaturePublicKey", 1))
    \union E("leaf", {"a", "m"},
             {[LeafRecord EXCEPT !.deviceCredential = "m"]})

----------------------------------------------------------------------------

LOCAL Enrolment(author, target) ==
    [epoch |-> 0, identityId |-> "a", operation |-> "enroll",
     operationId |-> 0, previousRevision |-> 0, revision |-> 1,
     targetCredential |-> target,
     targetCredentialCommitment |-> CommitmentTo(target),
     authorCredential |-> author, authorizedAt |-> 0,
     pairingExpiration |-> 1, pairingId |-> 0]

LOCAL Without3 == {"authorizedAt", "pairingExpiration", "pairingId"}

LOCAL Dropped(record, fields) ==
    [field \in DOMAIN record \ fields |-> record[field]]

LOCAL Revocation ==
    [Dropped(Enrolment("a", "b"), Without3) EXCEPT !.operation = "revoke"]

LOCAL Recovery(target) ==
    [Dropped(Enrolment("a", target), Without3 \union {"authorCredential"})
        EXCEPT !.operation = "recover"]

LOCAL Proven(record, proof) == record @@ [proofOfPossession |-> proof]

LOCAL Compromised ==
    {[compromisedSince |-> 0, credential |-> "m"]}

MCTransitions ==
    E("possession", {"b"},
      {Enrolment("a", "b"), Enrolment("m", "b"), Recovery("b"), Revocation})
    \union E("possession", {"m"}, {Enrolment("a", "m")})
    \union E("transition", {"a"},
             {Proven(Enrolment("a", "b"), "genuine"),
              Proven(Enrolment("a", "b"), "other"),
              Proven(Enrolment("a", "m"), "genuine"),
              Enrolment("a", "b"),
              Proven(Recovery("b"), "genuine"),
              Proven(Recovery("b"), "other"),
              Proven(Recovery("b")
                  @@ [compromisedCredentials |-> Compromised], "genuine"),
              Proven(Recovery("b")
                  @@ [compromisedCredentials |-> {}], "other"),
              Revocation, Revocation @@ [compromisedSince |-> 0],
              Revocation @@ [compromisedSince |-> 1]})
    \union E("transition", {"m"},
             {Proven(Enrolment("m", "b"), "genuine"),
              Proven(Enrolment("m", "b"), "other"),
              Proven(Recovery("b"), "other")})

LOCAL Invitation ==
    [authorCredential |-> "a", epoch |-> 0, expiresAt |-> 1,
     identityId |-> "a", pairingId |-> 0, revision |-> 1]

LOCAL PairingRequest ==
    [authorizedAt |-> 0, invitation |-> 0, operationId |-> 0,
     proofOfPossession |-> "genuine", targetCredential |-> "b",
     transportPublicKey |-> 0]

LOCAL Completion ==
    [authorCredential |-> "a", encryptedMaterial |-> 0, epoch |-> 0,
     identityId |-> "a", operationId |-> 0, pairingId |-> 0, revision |-> 1]

MCPairings ==
    E("pairingInvitation", {"a"}, Two(Invitation, "expiresAt", 2))
    \union E("pairingRequest", {"b"},
             Two(PairingRequest, "proofOfPossession", "other"))
    \union E("pairingRequest", {"m"}, {PairingRequest})
    \union E("pairingCompletion", {"a"},
             Two(Completion, "encryptedMaterial", 1))

----------------------------------------------------------------------------

LOCAL Mutation ==
    [authorizationRevision |-> 0, deviceCredential |-> "b",
     identityId |-> "a", kind |-> "put", operationId |-> 0,
     payloadDigest |-> 0, predecessor |-> 0, recordId |-> 0, sequence |-> 0,
     store |-> 0]

LOCAL Request(timestamp) ==
    [bodyHash |-> 0, method |-> "GET", path |-> 0, timestamp |-> timestamp]

LOCAL Membership ==
    [communityId |-> "c", identityId |-> "a", invitationId |-> "i",
     networkId |-> "n"]

LOCAL Letter ==
    [conversationId |-> "c", payload |-> 0, recipientIdentityId |-> "b",
     senderIdentityId |-> "a", sentAt |-> 0]

MCMutations ==
    E("mutation", {"b"},
      With(Mutation, [frontier |-> {0}])
          \union {Mutation @@ [frontier |-> {}],
                  [Mutation EXCEPT !.predecessor = 1],
                  [Mutation EXCEPT !.predecessor = 1, !.sequence = 1]})
    \union E("request", {"a"}, {Request(0), Request(3)})
    \union E("request", {"m"}, {Request(3)})
    \union E("communityOperation", {"a"}, {[recordId |-> 0], [recordId |-> 1]})
    \union E("consent", {"a"}, Two(Membership, "communityId", "d"))
    \union E("invitationPossession", {"a"}, {Membership})
    \union E("invitationPossession", {"m"}, {Membership})
    \union E("letter", {"a"}, Two(Letter, "recipientIdentityId", "m"))

LOCAL RelayRecord ==
    [expiresAt |-> 2, issuedAt |-> 1, multiaddrs |-> {0}, peerId |-> "p",
     publicKey |-> "a", role |-> "relay", version |-> 1]

LOCAL CallRelay ==
    [expiresAt |-> 2, issuedAt |-> 1, urls |-> {0}, peerId |-> "p",
     publicKey |-> "a", role |-> "call-relay", version |-> 2]

MCRelays ==
    E("publicRelay", {"a"},
      Two(RelayRecord, "multiaddrs", {0, 1})
          \union Two(RelayRecord, "issuedAt", 2))
    \union E("callRelay", {"a"}, Two(CallRelay, "expiresAt", 3))
    \union E("callRelay", {"a", "pool"}, {[CallRelay EXCEPT !.version = 1]})
    \union E("callRelay", {"pool"}, {[CallRelay EXCEPT !.version = 1]})
    \union E("networkRelay", {"s"},
             {Dropped(RelayRecord, {"publicKey"}),
              [Dropped(RelayRecord, {"publicKey"}) EXCEPT !.expiresAt = 3]})

LOCAL Operation ==
    [operationId |-> 0, scopeId |-> "c", authorizationRevision |-> 0,
     authorDeviceKey |-> "a", kind |-> "text", previousOperationIds |-> {},
     payload |-> 0]

LOCAL Schedule ==
    [descriptors |-> {0}, signerIdentity |-> 0, signerPublicKey |-> "a"]

LOCAL Genesis ==
    [headHash |-> 0, mlsContextHash |-> 0, policyHash |-> 0, scopeId |-> "c"]

LOCAL Control ==
    [headHash |-> 0, mlsContextHash |-> 0, mlsEpoch |-> 0,
     mlsMessageHash |-> 0, operationBindingHash |-> 0, parentHeadHash |-> 0,
     policyHash |-> 0, revision |-> 1, scopeId |-> "c"]

LOCAL Freshness ==
    [batchCommitment |-> 0, headHash |-> 0, nonce |-> 0, revision |-> 1,
     scopeId |-> "c", signerKey |-> "a"]

MCPrivate ==
    E("operation", {"a"}, Two(Operation, "previousOperationIds", {0}))
    \union E("schedule", {"a"},
             Two(Schedule, "descriptors", {0, 1})
                 \union Two(Schedule, "descriptors", {}))
    \union E("genesis", {"a"}, Two(Genesis, "policyHash", 1))
    \union E("control", {"a"}, Two(Control, "policyHash", 1))
    \union E("freshness", {"a"}, Two(Freshness, "nonce", 1))

----------------------------------------------------------------------------

LOCAL Row(purpose, scope) ==
    [label |-> 0, identityId |-> "a", purpose |-> purpose, scope |-> scope,
     plaintext |-> 0]

MCSealed ==
    UNION {E(kind, {"s"}, {[plaintext |-> 0]}) :
               kind \in {"groupState", "joinPackage", "deviceIdentity",
                         "keySchedule"}}
    \union E("row", {"s"},
             {Row("store", <<>>), Row("store", <<0>>), Row("canary", <<>>)})
    \union E("canary", {"s"},
             {Row("canary", <<>>), Row("store", <<>>), Row("canary", <<0>>)})
    \union E("rowTag", {"s"},
             {[label |-> 0, identityId |-> "a", parts |-> <<0>>],
              [label |-> 0, identityId |-> "a", parts |-> <<0, 0>>]})
    \union E("history", {"s"},
             {[identityId |-> "a", plaintext |-> 0],
              [identityId |-> "b", plaintext |-> 0]})
    \union E("draft", {"s"},
             {[conversationId |-> "c", content |-> 0],
              [conversationId |-> "d", content |-> 0]})
    \union E("authorship", {"s"}, {[record |-> 0], [record |-> 1]})
    \union E("envelope", {"s"},
             {[mailboxId |-> "c", envelopeId |-> "d", plaintext |-> 0],
              [mailboxId |-> "d", envelopeId |-> "c", plaintext |-> 0]})
    \union E("pubSub", {"s"},
             {[networkId |-> "n", topic |-> 0, payload |-> 0],
              [networkId |-> "n", topic |-> 1, payload |-> 0]})
    \union E("userRootKey", {"s"}, {[rootKey |-> 0], [rootKey |-> 1]})
    \union E("encryptedPrivateKey", {"s"}, {[privateKey |-> 0]})
    \union E("payload", {"s"}, {[payload |-> 0], [payload |-> 1]})

----------------------------------------------------------------------------

LOCAL Pair(first, second, network) ==
    [first |-> first, second |-> second, network |-> network]

LOCAL Community ==
    [networkId |-> "n", nonce |-> <<"b">>, ownerIdentityId |-> "a"]

LOCAL Group ==
    [creatorIdentityId |-> "a", networkId |-> "n", nonce |-> <<"b">>]

LOCAL Invited ==
    [inviterIdentityId |-> "a", nonce |-> <<"b">>,
     recipientIdentityId |-> "b"]

LOCAL Content == [groupId |-> "g", kind |-> "chat", payload |-> 0]

LOCAL Transcript ==
    [operationId |-> 0, pairingId |-> 0, targetCredential |-> "b",
     transportPublicKey |-> 0]

LOCAL Named3 ==
    [communityId |-> "c", creatorIdentityId |-> "a", createdAt |-> 0]

MCNames ==
    E("call", {"public"},
      {[creator |-> <<"a">>, nonce |-> <<"b">>],
       [creator |-> <<"a", ":", "b">>, nonce |-> <<"c">>],
       [creator |-> <<"a">>, nonce |-> <<"b", ":", "c">>]})
    \union E("oneToOne", {"public"},
             {Pair(<<"a">>, <<"b">>, <<"c">>),
              Pair(<<"b">>, <<"a">>, <<"c">>),
              Pair(<<"a">>, <<"b">>, <<"c", ":", "d">>),
              Pair(<<"a">>, <<"b", ":", "c">>, <<"d">>),
              Pair(<<>>, <<"b">>, <<"c">>)})
    \union E("community", {"public"}, Two(Community, "networkId", "c"))
    \union E("group", {"public"}, {Group})
    \union E("invitation", {"public"}, With(Invited, [subjectId |-> "c"]))
    \union E("mlsRecord", {"public"},
             With(Content, [recipientIdentityId |-> ""])
                 \union {Content @@ [recipientIdentityId |-> "a"],
                         Content @@ [epoch |-> 0],
                         Content @@ [name |-> 0]})
    \union E("channel", {"public"}, {Named3})
    \union E("role", {"public"}, {Named3})
    \union E("communityRequest", {"public"},
             {[communityId |-> "c", type |-> "request",
               creatorIdentityId |-> "a", identityId |-> "a",
               createdAt |-> 0],
              [communityId |-> "c", type |-> "channel",
               creatorIdentityId |-> "a", identityId |-> "a",
               createdAt |-> 0]})
    \union E("moderation", {"public"},
             {[communityId |-> "c", actorIdentityId |-> "a",
               action |-> "ban", targetType |-> "member",
               targetId |-> "b", createdAt |-> 0]})
    \union E("groupMessage", {"public"},
             {[author |-> <<"a", "NUL">>, nonce |-> <<"b">>],
              [author |-> <<"a">>, nonce |-> <<"NUL", "b">>],
              [author |-> <<"a">>, nonce |-> <<"b">>]})
    \union E("blobOwner", {"s"}, {[salt |-> 0, identityId |-> "a"],
                                  [salt |-> 1, identityId |-> "a"]})
    \union E("admission", {"public"},
             {[identityId |-> <<"a">>, networkIds |-> {}],
              [identityId |-> <<"a">>, networkIds |-> {<<"b">>}],
              [identityId |-> <<"a">>, networkIds |-> {<<"b">>, <<"c">>}],
              [identityId |-> <<"a">>, networkIds |-> {<<"b", "c">>}]})
    \union E("mailboxCreation", {"public"},
             {[mailboxId |-> <<"a">>, postTokenHash |-> <<"b", "c">>,
               readTokenHash |-> <<"d">>],
              [mailboxId |-> <<"a">>, postTokenHash |-> <<"b">>,
               readTokenHash |-> <<"c", "d">>]})
    \union E("safetyNumber", {"public"},
             {[first |-> <<"a">>, second |-> <<"b">>],
              [first |-> <<"b">>, second |-> <<"a">>],
              [first |-> <<"a", "\n", "b">>, second |-> <<"b">>],
              [first |-> <<"a">>, second |-> <<"b", "\n", "b">>]})
    \union E("verificationCode", {"public"}, 
             Two(Transcript, "transportPublicKey", 1))

LOCAL Roster(memberIds, adminIds) ==
    [adminIds |-> adminIds, conversationId |-> "g", creatorId |-> "a",
     memberIds |-> memberIds, name |-> 0, version |-> 1]

MCStates ==
    E("secretFingerprint", {"s"}, {[secret |-> 0], [secret |-> 1]})
    \union E("keyFingerprint", {"public"}, {[key |-> 0]})
    \union E("bearer", {"public"}, {[token |-> 0], [token |-> 1]})
    \union E("state", {"public"}, {[fields |-> 0], [fields |-> 1]})
    \union E("frontiers", {"public"}, {[frontiers |-> {0}],
                                       [frontiers |-> {0, 1}]})
    \union E("rosterFrontier", {"public"}, {[heads |-> {}], [heads |-> {0}]})
    \union E("roster", {"public"},
             {Roster({"a", "b"}, {"b"}), Roster({"a", "b"}, {}),
              Roster({"a"}, {"b"}), Roster({"a", "b"}, {"a"})})

LOCAL Inbox(epoch) == [recipient |-> <<"a">>, epoch |-> epoch]

MCKeys ==
    UNION {E(kind, {"s"}, {Inbox(0), Inbox(1)}) :
               kind \in {"mailboxId", "postToken", "envelopeKey"}}
    \union E("presence", {"s"}, {[recipient |-> <<"a">>],
                                 [recipient |-> <<"b">>]})
    \union UNION {E(kind, {"s"}, {[member |-> "a"], [member |-> "b"]}) :
               kind \in {"groupMailboxId", "groupPostToken",
                         "groupEnvelopeKey"}}
    \union E("readToken", {"s"}, {[mailboxId |-> <<"a">>]})
    \union E("deviceReadToken", {"s"},
             {[mailboxId |-> <<"a">>, deviceCredential |-> <<"b", "c">>],
              [mailboxId |-> <<"a", "b">>, deviceCredential |-> <<"c">>]})
    \union UNION {E(kind, {"s"}, {[networkKey |-> 0]}) :
               kind \in {"networkFingerprint", "relayLookup", "swarmKey"}}
    \union E("linkKey", {"s"}, {[secret |-> 0]})
    \union E("unlockFactor", {"s"},
             {[identityId |-> <<"a">>, deviceId |-> <<"b">>,
               secretHandle |-> <<"c">>],
              [identityId |-> <<"a", "\n", "b">>, deviceId |-> <<"c">>,
               secretHandle |-> <<"d">>],
              [identityId |-> <<"a">>, deviceId |-> <<"b", "\n", "c">>,
               secretHandle |-> <<"d">>]})
    \union E("turnUser", {"s"},
             {[expiresAtSeconds |-> <<"1">>, user |-> <<"a">>],
              [expiresAtSeconds |-> <<"1">>, user |-> <<"2", ":", "a">>]})
    \union E("turnSubject", {"s"}, {[peerId |-> "p"]})
    \union UNION {E(kind, {"s"}, {[recoveryKey |-> 0]}) :
               kind \in {"recoveryIdentity", "recoveryRoot",
                         "recoveryAuthority"}}
    \union E("frameContext", {"s"},
             {[callId |-> <<"a">>, senderId |-> <<"b", "c">>, epoch |-> 0,
               sealerId |-> "e"],
              [callId |-> <<"a", "b">>, senderId |-> <<"c">>, epoch |-> 0,
               sealerId |-> "e"]})

----------------------------------------------------------------------------

MCEntries ==
    UNION {MCIdentities, MCTransitions, MCPairings, MCMutations, MCRelays,
           MCPrivate, MCSealed, MCNames, MCStates, MCKeys}

\* The states compared are not records of identifiers.
ASSUME StatesAreStates == StatesApart

OneBadKey == {"m"}
=============================================================================
