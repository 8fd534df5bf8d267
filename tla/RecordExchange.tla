--------------------------- MODULE RecordExchange ---------------------------
(***************************************************************************)
(* Records made by the holders of keys and taken by their verifiers, who   *)
(* see texts and never who made them: documents that are signed            *)
(* (SignedForms), payloads sealed or tagged under a secret (SealedForms),  *)
(* names, tokens and keys derived from records (NameForms), and a server   *)
(* that keeps the requests it served for the replay window of              *)
(* src/src/SignedHttpRequestSignature.ts.                                  *)
(*                                                                         *)
(* An entry is a record of a kind and the keys it is signed, sealed or     *)
(* derived with, or is verified against; `Public` for a name anyone can    *)
(* compute.  The holder of a bad key makes any text with it, so for a bad  *)
(* key every text is there.  A signature is the key and the text; the one  *)
(* signature a document carries inside, a proof of possession, is either   *)
(* genuine, the target's over this transition, or anything else.           *)
(***************************************************************************)
EXTENDS SealedForms, NameForms, FiniteSets

CONSTANTS
    Entries,        \* what may be made, and what verifiers are shown
    Bad,            \* keys whose holders make anything
    MaxMade,        \* bound: entries made
    MaxNow,         \* bound: the clock of the server
    MaxClockSkew,   \* MAX_CLOCK_SKEW_MS
    ReplayWindow,   \* REPLAY_WINDOW_MS
    None            \* nothing taken yet

NameKinds == DOMAIN NameFields \union {"state"}

\* An entry is a record of some kind with the keys it is made with; a record
\* is a function of its fields, and the timestamp of a request is a counter.
ASSUME EntriesAssumption ==
    \A entry \in Entries :
        /\ entry = [kind |-> entry.kind, record |-> entry.record,
                    by |-> entry.by]
        /\ entry.kind \in UNION {DOMAIN SignedForms, DOMAIN SealedForms,
                                 NameKinds}
        /\ entry.record =
               [field \in DOMAIN entry.record |-> entry.record[field]]
        /\ entry.kind = "request" /\ "timestamp" \in DOMAIN entry.record
               => entry.record.timestamp \in Nat

\* What is put end to end in a name is characters.
ASSUME PartsAssumption ==
    \A entry \in Entries :
        /\ \A part \in DOMAIN entry.record :
               /\ entry.kind \in DOMAIN TextParts
               /\ part \in TextParts[entry.kind]
               => entry.record[part] \in Seq(STRING)
        /\ entry.kind = "admission" /\ "networkIds" \in DOMAIN entry.record =>
               /\ IsFiniteSet(entry.record.networkIds)
               /\ entry.record.networkIds \subseteq Seq(STRING)

\* The code's 30 and 60 seconds: the window is twice the skew.
ASSUME WindowAssumption ==
    /\ MaxClockSkew \in Nat
    /\ ReplayWindow = 2 * MaxClockSkew
    /\ MaxNow \in Nat

VARIABLES
    made,           \* entries made with keys that are not bad
    taken,          \* the entry a verifier took last, or None
    now,            \* the clock of the server
    seen,           \* what the server remembers: a request, and when
    served          \* the replay keys of the requests served, in order

vars == <<made, taken, now, seen, served>>

----------------------------------------------------------------------------
(* Texts and who may have made them *)

KindOf(entry) ==
    CASE entry.kind \in DOMAIN SignedForms -> "signed"
      [] entry.kind \in DOMAIN SealedForms -> "sealed"
      [] OTHER -> "named"

TextOf(entry) ==
    CASE KindOf(entry) = "signed" ->
             Text(SignedForms[entry.kind], entry.record)
      [] KindOf(entry) = "sealed" ->
             Text(SealedForms[entry.kind], entry.record)
      [] OTHER -> NameOf(entry.kind, entry.record)

\* PreimageFields.signFor and verifyFor: a key the document names is the key.
SignersMatch(entry) ==
    KindOf(entry) = "signed" =>
        NamedSigners(entry.kind, entry.record) \in {{}, entry.by}

Reads(entry) ==
    CASE KindOf(entry) = "signed" -> SignedReads(entry.kind, entry.record)
      [] KindOf(entry) = "sealed" -> SealedReads(entry.kind, entry.record)
      [] OTHER -> NameReads(entry.kind, entry.record)

\* What no class refuses for its shape, its fields or its key.
Readable == {entry \in Entries : Reads(entry) /\ SignersMatch(entry)}

\* StateDigest.of digests whatever it is given; what is compared here are not
\* records with the fields of an identifier that is a digest like it.
StatesApart ==
    \A entry \in Entries :
        entry.kind = "state" =>
            \A kind \in {"community", "mlsRecord", "keyFingerprint", "bearer"} :
                DOMAIN entry.record \ MayBeAbsent(kind) # NameFields[kind]

Texts == [entry \in Readable |-> TextOf(entry)]

\* Some such signature, ciphertext or name is there to be shown.
Exists(key, text) ==
    key \in Bad \/ \E entry \in made : key \in entry.by
                                          /\ Texts[entry] = text

Verifies(entry) == \A key \in entry.by : Exists(key, Texts[entry])

\* A genuine proof of possession is there to be shown.
Possessed(record) ==
    /\ record.proofOfPossession = "genuine"
    /\ Exists(record.targetCredential, Text(PossessionForm, Proved(record)))

Proves(entry) ==
    entry.kind = "transition" /\ entry.record.operation # "revoke"

\* Mutant: only the signature of the author is verified.
ProofUnread(entry) == Proves(entry) => "epoch" \in DOMAIN entry.record

\* DeviceAuthorizationTransitionSignature.verify: the proof of possession.
ProofHolds(entry) == Proves(entry) => Possessed(entry.record)

----------------------------------------------------------------------------
(* The server's window *)

\* Mutant: only a request from the future is not fresh.
FreshUnlessAhead(timestamp, time) == timestamp - time <= MaxClockSkew

\* SignedHttpRequestSignature.isFresh
IsFresh(timestamp, time) ==
    /\ time - timestamp <= MaxClockSkew
    /\ timestamp - time <= MaxClockSkew

\* The signatures there may be of one request: Ed25519 as the library signs
\* gives one, while the holder of a bad key may sign it again, to another.
Signings(entry) == IF entry.by \intersect Bad = {} THEN {1} ELSE {1, 2}

\* SignedHttpRequestSignature.replayKey: who asks and the signature, which is
\* a key, a text and one of the signings.  An identity is known by its key.
ReplayKey(entry, signing) == <<entry.by, Texts[entry], signing>>

ReplayKeys == {ReplayKey(entry, signing) : entry \in Readable, signing \in {1, 2}}

\* Mutant: nothing is forgotten.
RememberedAll(requests, time) ==
    {request \in requests : request.at <= time}

\* docs/signed-preimages.md, "Signed HTTP requests"
Remembered(requests, time) ==
    {request \in requests : time - request.at <= ReplayWindow}

----------------------------------------------------------------------------

Init ==
    /\ made = {}
    /\ taken = None
    /\ now = 0
    /\ seen = {}
    /\ served = <<>>

\* `sign`, `seal`, `tag`, `derive` or whatever names the record.  Signing a
\* transition does not verify the proof it is given, but a genuine one can be
\* given only once it exists.
Make(entry) ==
    /\ Cardinality(made) < MaxMade
    /\ entry.by \intersect Bad = {}
    /\ Proves(entry) /\ entry.record.proofOfPossession = "genuine"
           => Possessed(entry.record)
    /\ made' = made \union {entry}
    /\ UNCHANGED <<taken, now, seen, served>>

\* `verify`, `open`, or a look-up by a name.  bound: none of them reads a
\* clock, so they come before it moves.
Take(entry) ==
    /\ now = 0
    /\ Verifies(entry)
    /\ ProofHolds(entry)
    /\ taken' = entry
    /\ UNCHANGED <<made, now, seen, served>>

\* A request is verified, is fresh, and is not one the server remembers.
Serve(entry, signing) ==
    /\ entry.kind = "request"
    /\ signing \in Signings(entry)
    /\ Verifies(entry)
    /\ IsFresh(entry.record.timestamp, now)
    /\ \A request \in seen : request.key # ReplayKey(entry, signing)
    /\ seen' = seen \union {[key |-> ReplayKey(entry, signing), at |-> now]}
    /\ served' = Append(served, ReplayKey(entry, signing))
    /\ UNCHANGED <<made, taken, now>>

\* bound: the clock matters to requests, and moves once there is one and
\* nothing else was taken.
Tick ==
    /\ now < MaxNow
    /\ taken = None
    /\ \E entry \in made : entry.kind = "request"
    /\ now' = now + 1
    /\ seen' = Remembered(seen, now')
    /\ UNCHANGED <<made, taken, served>>

Next ==
    \/ \E entry \in Readable :
        \/ Make(entry)
        \/ Take(entry)
        \/ \E signing \in {1, 2} : Serve(entry, signing)
    \/ Tick

Spec == Init /\ [][Next]_vars

----------------------------------------------------------------------------
(* Properties *)

\* The state is of its type, and the server remembers no more than its
\* window: whatever it keeps could still be repeated while fresh.
TypeOK ==
    /\ made \subseteq Readable
    /\ taken \in Readable \union {None}
    /\ now \in 0..MaxNow
    /\ served \in Seq(ReplayKeys)
    /\ seen \subseteq [key : {served[i] : i \in DOMAIN served},
                       at : 0..now]
    /\ \A request \in seen : now - request.at <= ReplayWindow

\* Two entries say the same.
Same(one, other) ==
    /\ one.kind = other.kind
    /\ Meaning(one.kind, one.record) = Meaning(other.kind, other.record)

\* Whoever holds this key made an entry that says the same.
MadeBy(key, entry) == \E other \in made : key \in other.by
                                              /\ Same(entry, other)

\* A signature or a ciphertext counts for one kind of record only, with all
\* its fields: what a verifier takes for the holder of a key that is not bad,
\* that holder made, as this kind and with this content.
AcceptedAsMade ==
    taken # None /\ KindOf(taken) # "named" =>
        \A key \in taken.by \ Bad : MadeBy(key, taken)

\* A name, token or derived key that checks out belongs to the record it is
\* checked against, and no two records that say different things share it.
OneRecordPerName ==
    taken # None /\ KindOf(taken) = "named" =>
        \A key \in taken.by \ Bad : MadeBy(key, taken)

\* A device is enrolled, or made the device of a recovery, only if it proved
\* that it holds its key, over this very transition.
EnrolledInPossession ==
    taken # None /\ Proves(taken) =>
        LET target == taken.record.targetCredential
        IN  target \in Bad
                \/ \E entry \in made : /\ entry.kind = "possession"
                                       /\ entry.by = {target}
                                       /\ entry.record = Proved(taken.record)

\* No signed request is served twice, whoever repeats it and whenever, although
\* the server forgets it: by then it is no longer fresh.  Only the holder of a
\* bad key, who signs it anew, has the same request served again.
ServedOnce == IsInjective(served)
=============================================================================
