# Formal models of pigeon-swarm-crypto

TLA+ specifications of the stateful parts of this library, checked by TLC on
small instances and, where it matters most, proved with TLAPS for every value
of the constants. Line references are to files of the repository (paths start
with `src/`). `PROJECT.json` lists, for each definition, the lines it models.

1. [The system](#1-the-system)
2. [Modules](#2-modules)
3. [How state and actions correspond to the code](#3-how-state-and-actions-correspond-to-the-code)
4. [Runs](#4-runs)
5. [Fairness](#5-fairness)
6. [Proofs](#6-proofs)
7. [Divergences found](#7-divergences-found)
8. [What is not modelled](#8-what-is-not-modelled)
9. [Plan](#9-plan)

## 1. The system

The library is the client side of an end-to-end encrypted messenger. It keeps
no storage and opens no connection: an application calls it, stores what it
returns, and exchanges bytes with nodes that are not trusted. So everything
hard happens in the few classes that keep state between calls, in the `await`s
inside one call during which other calls run, and in what the application
stored before it stopped.

| Part | State | Operations | Hard behaviour |
|---|---|---|---|
| **MLS group** (`mls/MlsGroup.ts`) | the ts-mls client state, the roster frontier bound, the pending commit, commits taken with the state before each, witnesses of withheld operations, states left by stepping back | `applyCommit`, `add`, `removeIdentities`, `removeDevices`, `update`, `changeContext`, `confirm`, `abandon`, `encrypt`, `open`, `restore` | commits served in any order and again; rivals for an epoch; roster operations withheld; overlap of calls; restarts |
| **Call media opener** (`CallMediaFrameOpener.ts`, `internal/CallMediaReplayWindow.ts`) | the epochs held, for each the sealers that authenticated, for each sealer a ring of 1024 flags | `addKey`, `open` | imports pending or refused; overlapping opens of copies; forged, old and reordered frames; limits on epochs and sealers |
| Call media sealer (`CallMediaFrameSealer.ts`) | one counter | `seal` | none: the counter is taken and incremented before any await |
| **MLS group session** (`mls/MlsGroupSession.ts`) | a one-shot session, consumed by a transition | `create`, `join`, `addMembers`, `removeMembers`, `refresh`, `applyCommit`, `encrypt`, `decrypt`, `protectState`, `restore` | one operation failing; a crash between storing the session and its commitment; older snapshots |
| **Join packages, device identities** (`mls/MlsJoinPackage.ts`, `mls/MlsDeviceIdentity.ts`) | key bytes, and whether they were used or destroyed | `createJoinPackage`, the use by a join, `destroy`, `protect`, `restore` | `destroy` during a use or between two awaits; one use only, also after a crash |
| **Private delivery** (`mls/PrivateDelivery*.ts`, `mls/AuthenticatedPrivateDeliverySchedule.ts`) | daily keys with validity limits | `generate`, `open`, `retire`, `revoke`, `destroy`, `restore`, seal, sign, verify | boundaries of days; retirement while an open is in flight; older snapshots |
| **Private control chain** (`PrivateGenesisSignature.ts`, `PrivateControlSignature.ts`, `PrivateOperationSignature.ts`) | the checkpoint the application passes | verify a record against checkpoint and policy | forks, skipped records, policy changes, quorums with bad keys |
| **Private freshness** (`PrivateFreshnessProof.ts`) | a request and its nonce | ask, vouch, verify | a proof of another or an older head, replayed |
| **Device authorization** (`DeviceAuthorizationTransition*.ts`) | none; a sequence of transitions | sign, prove possession, verify | who may sign which transition; a proof taken from elsewhere |
| **Signed records and requests** (`*Signature.ts`, pairing, relay and mailbox records) | none; the server's memory of requests | sign, verify, `isFresh`, `replayKey` | a document taken for one of another kind; a request repeated while fresh |
| **Sealed payloads** (root keys, rows, backups, drafts, envelopes, networks) | none | seal, open | a ciphertext opened in another context |
| **Rosters and leaves** (`mls/MlsRosterFrontier.ts`, `mls/MlsLeafCredential.ts`, `mls/GroupMailboxRosterExtension.ts`) | none | encode, parse, verify | two rosters with one text; a roster that names a device twice |
| **Names** (`CommitmentId.ts`, digests, proofs of work, tokens, derived keys) | none | derive, check | two records with one text |

How they meet: there are two MLS clients over ts-mls, independent of each
other. `MlsGroup` starts from an `MlsKeyPackage` and calls the application back
through `MlsMembershipPolicy`, which knows the roster, during `applyCommit` and
before it commits. `MlsGroupSession` starts from an `MlsJoinPackage`, which an
`MlsDeviceIdentity` makes, and every operation consumes the session and returns
the next one; the identity also signs the schedules of private delivery, whose
envelopes the session's frames travel in. Which devices a scope has is what the
control chain says; a device follows it with signed operations and asks the
policy's freshness authority whether it is behind. All of these are documents
that somebody signs and somebody else verifies, and the classes for pairing,
mailboxes, networks, communities and relays add more of them. Nothing ties the
call media classes to the rest: the application passes them the call key and
the epoch.

What makes each part correct:

- **Group**: all members that saw the same commits and verified the same
  roster are on the same branch; every commit on it was allowed by the roster
  it binds; a state needed later is kept, one not needed is dropped; a sending
  generation is never reused and a message never opens twice.
- **Opener**: a frame opens at most once and only if it authenticates; genuine
  frames are refused only for a stated cause; limits hold under any overlap.
- **Sessions, packages, identities**: one history per group and per package,
  never an older ratchet, keys for exactly as long as they are needed.
- **Private delivery**: what a sender may still write a receiver can still
  read until it expires, nothing longer, and nothing deleted comes back.
- **Control chain**: accepted records form one chain, each approved by the
  sequencer of the policy before it; who is told to be current was.
- **Records**: what a verifier takes was made, as this kind and with this
  content, by the holder of the key; no two records share a name; no request is
  served twice.

`PROJECT.json` lists the hazards one by one, each at its line, with the
properties that cover it.

## 2. Modules

| Module | What it is |
|---|---|
| `MlsGroup` | the group as one device sees it: one action per step between awaits, and its properties |
| `MlsGroupConvergence` | extends it with fairness and with the branch all members should end on |
| `MCMlsGroup` | catalogues of commits, a roster and a policy for TLC |
| `MlsGroupProofs` | theorems about `MlsGroup`: what holds in every state |
| `MlsGroupHistoryProofs` | theorems about what a group never goes back on, and about waiting |
| `CallMediaReplayWindow` | the ring of one sealer as operators |
| `CallMediaDelivery` | what opening frames promises, without epochs held, rings or awaits |
| `CallMediaFrameOpener` | the opener, and the refinement to `CallMediaDelivery` |
| `MCCallMedia` | frames for TLC |
| `CallMediaProofs` | theorems about the ring and the opener, and the refinement |
| `MlsJoinPackage` | the identity of a device, its packages as objects and as stored |
| `MlsGroupSession` | extends it with the one-shot sessions and the application's two writes, and the refinement to `MlsSessionLineage` |
| `MlsSessionLineage` | what a device promises: one history, and nothing let out beside it |
| `MlsGroupSessionProofs` | theorems about sessions and packages, and the refinement |
| `PrivateDelivery` | schedules, senders and calls to open under one clock |
| `PrivateDeliveryProofs` | theorems about it |
| `PrivateControl` | genesis, control records, quorums and freshness among honest devices and bad keys |
| `MCPrivateControl` | keys and policies for TLC |
| `PrivateControlProofs` | theorems about it |
| `SignedForms` | every document the library signs: its fields, its text, its signers |
| `SealedForms` | every payload it seals or tags, by what it is bound to |
| `NameForms` | every identifier, digest, token and derived key, by the text it is made from |
| `RecordExchange` | records made and taken, and a server that serves requests once |
| `MCRecordExchange` | the records TLC is given |
| `RecordExchangeProofs` | theorems about signed, sealed and named records and about requests |
| `NumberLemmas` | the least and the greatest of a set of numbers, for the proofs |

## 3. How state and actions correspond to the code

### MlsGroup

A commit is its record id (a number, so that "the lower id wins" is a
comparison) and what the constant `Commit` holds of it: the commit it follows,
its committer, whom it adds and removes and the frontier it binds. `Root`
stands for the commit or welcome the group started from. ts-mls's client state
is `[tip, gen, read]`: the commit that led to its epoch, the generation of the
owner's sending ratchet, and the messages whose keys it has used. That a state
can only process a commit of its own epoch by somebody else (`Readable`), keeps
receiver keys of 8 earlier epochs (`Openable`) and deletes a key it used is how
ts-mls behaves for the calls in `src/src/mls/`; it is external code, and marked
so. The policy is five constant operators.

| Code | Model |
|---|---|
| fields of `MlsGroup` | `state`, `removed`, `bound`, `pending`, `applied`, `witnesses`, `resumable` |
| the application's roster | `roster`, grown by `VerifyRoster` |
| `applyCommit` to its first await | `Answer` decides; `ApplyNext` (`advance`) or `ApplyRival` (`replace`) start a call, the other answers change nothing |
| the judgement in `processPrivateMessage`'s callback | `Judge`: witness first, then `Permits` and `Wins` |
| after the await | `FinishWaiting` (steps back), `FinishRejected`, `FinishTaken` (take, drop later epochs, resume a left state) |
| `add`, `update`, ... | `CommitStart`, `CommitFinish` |
| `confirm`, `abandon` | `Confirm`, `Drop` |
| `encrypt`, `open`/`decrypt` | `EncryptStart`/`Finish`, `OpenStart`/`Finish` |
| `restore` of what was stored | `Restart`, with the state in use or the pending one |

`Branch` gives the tips from the start of the group to a tip, as the least set
that holds the tip and, with each commit, its parent (`ParentClosed`).

`calls` keeps what a call read before its await. `Serial` says whether the
caller awaits one call before it starts the next; nothing in the class enforces
it, so both are examined: the invariants of the branch hold only when it does.
Variables `sent`, `reused`, `opened`, `reopened`, `made`, `restarts` record
what happened for the properties and the bounds.

Choices a reader should know: `replace` drops later epochs just after `advance`
returned, in the same turn of the event loop in which nothing else can act, so
the model does both in `FinishTaken`. A device proposes a commit of its own
only once (`made`), since a catalogue id is one record. Each identity is one
device, so that `removeIdentities` and `removeDevices` are one action. The
queries (`leaves`, exporters, `changes`) change nothing and are left out.
`join`'s own checks of the welcome are left out of `Init`, which takes
`StartFrontier` as the frontier a group starts with. `Restart` restores what was
stored last; an application that restores an older state is not modelled. Where
`stepBack` finds no state before a commit the code throws and the model does
nothing: `SuspectsKept` is that this never happens.

### CallMediaFrameOpener

A frame is its header; `Authentic` is the set of headers a holder of the call
key sealed a frame under, and each copy that arrives is genuine or not (a
tampered copy has the same header). An entry of `epochs` keeps the number of
its key in `imports`, which stands for the identity of the `CallMediaEpoch`
object: `open` compares it after its awaits. `open` has three steps,
`OpenStart` to the await of the sealer's key, `OpenAdmit` to the await of
decryption, `OpenFinish`; each may end in `OpenRefuse`. `addKey` is `AddKey`,
then `KeyImported` or `KeyRefused`. `opened` counts how often each frame
opened, for the properties.

The ring is modelled flag for flag (`CallMediaReplayWindow`): that it behaves
like the set of sequences not to open again is the property `WindowsExact`, not
an assumption. `accept` throws if it does not admit; `Retainable` asks that
where `retain` calls it. `MaxEpochs` is the code's 2 in every instance; the
rule by which older epochs go relies on it. The sequence limit of 2^53 - 1 is
checked by the header on both sides and left out. A call whose sealer's epoch
was dropped at its first await asks no window whether it admits the frame:
`OpenFinish` refuses the frame in any case.

### MlsJoinPackage, MlsGroupSession

A ratchet state is its `history`, the numbers of the transitions that led to it,
with its epoch, its member count and whether this device is still active: two
states made of one are two histories, and the commitment of a state is the
state. `sessions` are the objects in memory. `transition` is `Begin` up to its
first await, then `Succeed` (the session is consumed, its used secrets erased,
a new session made) or `Fail`; what an operation may lead to is
`Successors`. `calls` counts, per object, the operations that await an answer:
which operation one is shows when it ends. A slot is `Free` for a new object
when nothing is in it and nothing is awaited on it. The constructor refuses a
state with too many members (`Constructible`), whatever its welcome said; its
comparison of group ids is left out, as a state's history says which group it
is of. `join` and `create` are the use of a package (`UseStart`, then
`Join`, `Create` or `UseFail`). The application is the one
`docs/mls-key-lifecycle.md` describes: `StoreSnapshot` and `StoreCheckpoint`
are its two writes, in any order and with crashes between, the first checkpoint
makes a tombstone of the package, `Release` lets a frame or a plaintext out
when both are there, and `Restore` is given any snapshot there ever was.

Key bytes are `live` or `zero`. `createJoinPackage` is `MakeStart`, `MakeCopy`
and `MakeFinish`, since the identity may be destroyed at its awaits; a package's
use works on a clone (`copy`), which the session keeps or a failure zeroes.

### PrivateDelivery

Time is a number all share, a day `Day` of its units; a schedule starts at the
day it is generated on. An envelope is its mailbox (a schedule and a day) and
its expiry. `SealStart` to `SealFinish` is a sender of any slowness; `OpenStart`
holds the key's bytes, `OpenImport` reads them, `OpenFinish` opens. `retire`,
`revoke` and `destroy` fill the old object's bytes with zeros, which is what an
open in flight then reads (`Wiped`). `Store` writes the snapshot and the
commitment trusted, `Restore` is given any snapshot. Signing and publishing is
`Sign`; the application is taken to store a schedule before it publishes it. Of
the checks on a signed sequence, those that no property rests on are left out:
distinct mailboxes and keys, the exact length of a day and equal retention.

### PrivateControl

A hash is what was hashed and a signature is that the key signed. `Bad` keys
sign anything and need no step of their own: `SignersOf` counts them for every
record, and `Propose` makes children of any record at any revision, with any
policy, that may lie about their head. `Sign` is an honest authority, `Adopt` a
device whose application compares what it is shown with its checkpoint as the
documentation asks. `Sound` is the assumption of that documentation, that a
policy leaves the scope in honest hands; honest devices sign no other. `Ask`,
`Vouch`, `Confirm` and `GiveUp` are the freshness exchange; `floor` remembers,
for the property, how far the authority was at the time of asking. There is one
scope, and the hash of the MLS context and the separate lease key are part of
what a record says. A record's resulting head is computed from the record, as
`sign` does, so that the check of one given (`PrivateControlEncoding.ts:65`)
always holds.

### SignedForms, SealedForms, NameForms, RecordExchange

A form lists what a class reads and signs: domain, required and optional
fields, and the fields that name its signers; the class's checks are the
`...Reads` operators. The text of a document is its domain and the function of
the fields present, as canonical JSON is one-to-one; the text of a name is
built part by part, since there the code puts strings end to end and what a
part may hold decides. A part (`TextParts`) is a sequence of characters, the
mark between two parts is a character like another, and a length or an epoch
(`Count`) is one item, since the code writes it in a fixed number of bytes.
`StatesApart` says that no state given to `StateDigest.of`, which digests any
record, has the very fields of an identifier that is a digest too. `RecordExchange` lets holders make records and shows
verifiers every text there is. An honest key has made only what `made` holds; a
bad key has made everything. `taken` is the last record a verifier took.
`Serve` is a server that follows `docs/signed-preimages.md`: it verifies,
asks `isFresh`, and refuses a `replayKey` it remembers. That key names the
signature, so the holder of a bad key who signs a request anew (`Signings`) is
served again, once for each signature; an identity is known by its key, two of
them with one key are not modelled. In `CompromisedReads` the limit of 32 and
the order of the list are left out. Names that have no prefix in the code
(`call`, `short`, `blob-owner`, `frontiers`, `roster` and the fingerprint of a
public key) carry a label that stands for the form of the output, a UUID, a
length or an alphabet, by which the code tells them apart; `StateDigest.ofBytes`
and `KeyFingerprint.ofPublicBytes`, which digest any bytes, are left out.

## 4. Runs

Every property of a passing run also has a mutant in `PROJECT.json`: the named
definition is replaced by a plausible bug and the property must fail.

| Run | Shows |
|---|---|
| `MlsGroup` | a tree of nine commits, four deep, two of this device, one roster operation, one message per epoch, one restart, calls awaited: type, `Lineage`, `BranchPermitted`, `OldStatesDropped`, `SuspectsKept`, `NoSuspectWhileWaiting`, `OwnCommitsStand`, `LeftStatesResumed`, `SettledStays` |
| `MlsGroupConvergence` | eight commits with four rivals for one epoch and two for another under two concurrent roster operations, one with a bad update path: `RivalsTotallyOrdered`, `Converges` |
| `CallMediaFrameOpener` | three keys, two calls in flight, a window of two, one sealer per epoch, seven authentic frames and one only forged: type, `WindowsExact`, `SealersEarned`, `OlderDropped`, `RefusedForCause`, and `Delivers`, the refinement |
| `MlsGroupSession` | one package, two objects, three ratchet states, crashes and restores at any point: type, `NeverBehind`, `PackageStartsOneHistory`, `KeysWhileNeeded`, `UsableKeepsSecrets`, `OneHistory` (the refinement) and `TransitionEnds` |
| `PrivateDelivery` | one schedule of three days of two moments, one envelope, one call to open, revocation of any days, crashes: type, `ReadableUntilExpiry`, `GoneForGood`, `OneMailboxPerMoment`, `OpensWithKeptKeys` |
| `PrivateControl` | two honest devices and a bad key, two records of two operations under four policies, two nonces: type, `OneChain`, `AdoptedWasApproved`, `ConfirmedIsCurrent` |
| `RecordExchange` | every kind of signed, sealed and named record, of which two are made: type, `AcceptedAsMade`, `OneRecordPerName`, `EnrolledInPossession`, `ServedOnce` |
| `MlsGroupRetake`, `MlsGroupReopen`, `MlsGroupLeftStates`, `MlsGroupRemoval`, `MlsGroupOverlap` | the divergences of section 7, each by a counterexample |

Bounds and why they suffice:

- `Retained = 2` in `MlsGroup` (8 in the code), because the catalogue is four
  commits deep and the window has to fall behind; the other runs take 3 so
  that the window does not interfere with what they ask.
- The two catalogues have a commit for each way a branch can change: rivals that win
  by standing, reach, priority and id, an add that must be stepped back from,
  an own commit between an add and the witness, a commit that proves a withheld
  operation, commits that build on losers, pairs of equal depth on different
  branches. Every action fires, and the mutants
  fail within these bounds.
- `MaxGeneration = 1`: one message suffices to see whether a ratchet goes on.
  `MaxRestarts = 1`: a second restart starts from what the first one left.
- One call slot when `Serial`, as then no two calls are ever in flight; two
  slots for overlap.
- In the opener, a window of two makes each slot stand for two of the four
  sequences; three epochs are one more than are held; one sealer per epoch
  makes two sealers contend for the place. The proofs then cover every size.
- Sessions: two objects are what a transition needs, and a second session of
  one group, were it possible, would be one of them; three states allow a join,
  a transition and a second join with the same package. Two members are the
  fewest with a full group, and a welcome may speak of one more than fits.
- Private delivery: three days are a first, a middle and a last, so that
  revoking the middle one leaves a gap; time ends after the last day's
  retention; retention 1 is inside a day and 2 is refused. A schedule is
  generated only if it and what it retains end by `MaxNow`, so that no run of
  it is cut short; in the run that is the first day, in the proofs any.
- Private control: two records are enough for a fork, a chain of two or a
  skipped one; of the policies, one has the bad key among the authorities, one
  moves the sequencer, one gives everything to the bad key and one is invalid.
  Operations and nonces are symmetric.
- Record exchange: two records made are a document and one it might be taken
  for, or a proof of possession and its transition. Each kind is there with two
  values of a field, with and without an optional one, and with a bad key; kinds
  with equal fields are all there. A request with a bad key can
  be signed twice. Skew 2 and window 4 keep the code's ratio,
  and seven moments are past both ends of it. Verifiers read no clock, so that
  every `Take` comes before the clock moves; what the server does is what needs
  the clock.
- `CHECK_DEADLOCK FALSE`: all commits applied, or all keys added, is a state in
  which the system may rest.

## 5. Fairness

Two runs assume any. In `MlsGroupConvergence`, `FairSpec` has weak fairness of
each roster operation being verified (the application reads the roster until it
has it all), weak fairness of each call in flight (its awaits settle) and strong
fairness, per commit, of applying it: the node serves the records again and
again and the application applies what it is served, in whatever order, so a
commit that can again and again be applied is. No fairness is assumed of
commits this device makes, of messages or of restarts. In `MlsGroupSession`,
`Fairness` is weak fairness, per object, of an operation in flight succeeding or
failing: ts-mls and the credential verifier answer what they are asked, and
nothing else must ever happen; `TransitionEnds` needs no more. The opener has
no liveness property, as frames of a lost packet are never sent again, nor do
delivery, control and records: whether an envelope arrives, an authority vouches
or a record is made is nobody's duty in this code.

`Converges` says the device ends, and stays, in the state of `WinningTip`,
which `MlsGroupConvergence` computes from the catalogue and the whole roster by
lexicographic rank, independently of the pairwise `Wins`. The catalogue holds
no own commits and no commit that removes the device; the second case is the
run `MlsGroupRemoval`, in which it fails.

## 6. Proofs

`tlapm` checks all eight proof modules to the last leaf. The assumptions are the
named ASSUMEs of the modules, which TLC evaluates in every run, and these
hypotheses of single theorems, each explained below: `Serial`, which most
theorems about the group need; `WaitsForMissing` and `StatesApart`, which TLC
evaluates for the instances of the runs (`MCMlsGroup`, `MCRecordExchange`); and
`NoneIsNoRecord`.

**NumberLemmas.** A set of numbers has a least member, and a greatest if it is
bounded. What would otherwise be an induction is, in the proofs, a least
counterexample.

**MlsGroupProofs.** `IInv` is `TypeOK /\ OneCall /\ CallsFit /\ PendingFits /\
Lineage /\ BranchPermitted /\ OldStatesDropped /\ SuffixKept /\ SuspectsKept`.
`Lineage` alone is not inductive: what a call in flight read before its await
must still be the state and baseline of its epoch when the call ends
(`CallsFit`, which rests on `OneCall`), the pending commit must follow the
state it was made in (`PendingFits`), and the states before the later commits
must be an unbroken suffix of the branch (`SuffixKept`), so that stepping back
over it always finds the state it needs. Theorems, under `Serial`: `Inductive`,
`OneBranch`, `EveryCommitPermitted`, `WindowKept`, `StepsBackSafely`,
`OwnCommitsKept`. `TypeCorrect` and `RivalsOrdered` need no `Serial`.

**MlsGroupHistoryProofs.** Two action properties, and what holds while the
group waits. `HInv` adds to `IInv` that the device counts as removed exactly
when the state in use leaves it out, and that no earlier state of the branch
does (`RemovedFits`); that a commit of its own, pending or being made, follows
a state it is a member in (`PendingOwn`, `CallsOwn`); and that states left are
of other members' commits, one for each commit and none on the branch in use
(`LeftFits`). `RemovedFits` is needed since the branch of a removed device is
the one thing `Lineage` does not describe: with it, a removed device stays so.

- `LeftGenerationsKept`: a left state resumed goes on with its generations
  (`LeftStatesResumed`), since there is one of its epoch and no other.
- `SettledForGood`: what the group can no longer step back from stays on its
  branch (`SettledStays`). The settled tip is the parent of the first commit
  whose state before is kept, so that everything a step can go back to descends
  from it (`Behind`), and every step keeps that so. That no epoch is missing
  between a commit taken and the tip (`NoGap`) and that both are on one branch
  (`OnBranch`) follow from `Lineage` by least and greatest counterexample; that
  descending is transitive follows from `Branch` being least (`BranchFacts`).
- `RemovalReadFromState`: the first part of `RemovedFits` on its own.
- `SteppedBackWhileWaiting`: `NoSuspectWhileWaiting`, from `WaitFits`: a commit
  is accepted only while nothing is waited for, and suspects stay only until
  the call that found the witness ends. It is stated under `WaitsForMissing`,
  that verifying more operations never makes a commit wait. `MlsMembershipPolicy`
  leaves this to the application; `get waiting` (`src/src/mls/MlsGroup.ts`) says
  a group waits for operations it "has not verified yet", and a policy for
  which more of them were missing the more it verified would let an add in that
  nothing takes back.

**CallMediaProofs.** First the ring: sequences less than `Size` apart are on
different slots, any `Size` in a row cover all, so `Accept` closes the window
for its sequence and changes the answer for no other of the last `Size`
(`AcceptExact`). `IInv` is `TypeOK`, `WindowsExact`, `SealersEarned` and
`OlderDropped` with four parts that make them inductive: `HeldFit` (a held epoch
is that of its key, which was not refused), `KeysFit` (no epoch has two keys),
`CallsFit` (a call's key is that of its frame's epoch) and `SealersKnown` (a
sealer a call found stays while its epoch does). Theorems, for any number of
overlapping calls, any window and any number of sealers: `TypeCorrect`,
`RingExact`, `PlacesEarned`, `NewerPrevails`, `RefusalsJustified` and
`DeliversAsPromised` (`Spec => Delivers`: finishing an open is a `Deliver` of
its frame, every other step a stutter).

**MlsGroupSessionProofs.** Two invariants, since sessions and packages meet only
in `origin`. `SessionInv` adds to `NeverBehind` what an operation in flight
assumes: its session was not consumed and it is alone (`CallsFit`), so that no
two objects can go on with one group (`OneUsable`); whoever can is at or ahead
of the trusted checkpoint, object by object (`Ahead`). An older snapshot is
refused, since its state is not the one of the trusted checkpoint. `PackageInv` adds to
`PackageStartsOneHistory` that a package still able to start a history started
none (`PackagesFresh`), and that a package whose group is trusted left a
tombstone (`Buried`); the second is what makes a crash between the two writes
harmless. Theorems: `Inductive`, `TypeCorrect`, `NoneBehind`,
`OneHistoryPerPackage`, `KeysKept`, `SecretsKept` and `HistoryAsPromised`
(`Spec => OneHistory`: storing a checkpoint moves the promised history on, a
release lets out what that history contains, every other step stutters).

**PrivateDeliveryProofs.** `SignedKept` carries the rest: of a signed schedule,
every day not revoked whose ciphertexts may still be about is in the trusted
snapshot and, while the schedule is in memory, in memory. It holds because
signing follows storing, and only what is trusted is restored. With it, what was
sealed in time can be read until it expires (`SealedReadable`); `GoneStaysGone`
needs that what is trusted never holds a day again that it gave up;
`OpensKept` is a step property, about the bytes a call reads. The lengths of
days, retention and time are arbitrary; `DayStart` is the arithmetic of days.
`OneMailboxAlways` is `OneMailboxPerMoment`: of the days begun by a moment the
greatest (`GreatestNumber`) has not ended, since the next day would have begun
and a sequence someone may verify leaves no day out (`NoDayMissing`, `NextDay`);
no other takes writes, since the periods of two days do not meet (`DaysApart`).

**PrivateControlProofs.** `ChainInv`: an honest key signs only children of a
record an honest device adopted (`SignedChildren`), and the sequencer of a
record signs at most one child of it (`OnePerParent`). Since a head names its
policy, whoever is sequencer under one record with that head is under each. So
there is one chain (`OneChainOnly`), whatever the bad keys sign, as long as the
sequencer is honest and signs only policies that keep it so (`Sound`); the size
of the quorum plays no part, since a quorum without the sequencer is none
(`QuorumSigned`). `ConfirmedCurrent` adds `FreshInv`: a proof that
carries the nonce of a request was made after it was asked. It is stated under
`NoneIsNoRecord`, that the model's value for "nothing" is not a record; TLC's
model value is not one.

**RecordExchangeProofs.** `SameText`: of two records a verifier could take,
equal texts mean the same kind and the same content; it rests on the domains
and, for the forms that share one, on their fields or their purpose, which
differ. `AcceptedRecords` and `EnrolledDevices` follow whatever records
there are. `ServedAtMostOnce` needs `ForgottenIsOld`: a request served is
remembered, or too old to be fresh again, which is where window and skew must
fit (`WindowAssumption`).

`OneNamePerRecord` is `OneRecordPerName`, for every set of records in which
`StatesApart` holds: two names with one text are of one kind and say the same
(`SameName`). Kinds are told apart by their label, prefix or namespace. The
digests without one are told apart by their fields, states among them by
`StatesApart`, and the short identifiers, which share a prefix, by the number of
their parts and the first. Within a kind, where parts are put end to end, the
text says where each ends: by a mark that a part cannot hold, by a length that
stands before it, or by the width of what follows. The networks of an admission
are a set of any size in a row, each under its length; two such rows with one
text are the same set, by a least counterexample on the position at which they
would differ.

Only model-checked: `Converges` and `TransitionEnds`, as liveness under fairness
is out of the prover's reach.

## 7. Divergences found

Each of the first five is a run that TLC ends with a counterexample.

1. `MlsGroupRetake`: a commit left by stepping back and taken again does not
   always resume its state, as the comment at `src/src/mls/MlsGroup.ts:83-87`
   promises. The device takes a commit, sends, and steps back for a rival whose
   operation is withheld; once verified, it takes the rival, and `resume` drops
   the state left, since its epoch is reached
   (`src/src/mls/internal/MlsGroupRules.ts:305`; `src/docs/mls-group.md:102-103`
   says so). The first commit, which has the lower id, then replaces the rival
   and starts at generation 0, which was used in its epoch before.
2. `MlsGroupReopen`: `confirm` brings back receiver keys of before `commit`, so
   a message opened in between opens again
   (`src/src/mls/internal/MlsCommitBuilder.ts:217`).
3. `MlsGroupLeftStates`: `confirm` does not drop states left whose epochs it
   passes (`src/src/mls/MlsGroup.ts:970`; `src/docs/mls-group.md:102-103`).
4. `MlsGroupRemoval`: a device a losing commit removed never converges
   (`src/src/mls/MlsGroup.ts:924`; `src/docs/mls-group.md:66-67`).
5. `MlsGroupOverlap`: an `encrypt` in flight while a commit is taken puts the
   group back into the epoch it left (`src/src/mls/MlsGroup.ts:846`).

Also seen, without a run: `replace` (`src/src/mls/MlsGroup.ts:389`) leaves a
state too but keeps none, so that a commit replaced by a rival, and taken again
after that rival was stepped back from, starts anew as well; an `open` in
flight fails when `retire` overwrites a key the schedule it returns keeps
(`src/src/mls/PrivateDeliveryKeySchedule.ts:276`); `confirm` adopts its commit
and clears the witnesses while the group waits; with outcome `removed`,
`replace` leaves the later epochs in `applied`, which is why the invariants of
the branch exempt a removed device; after `restore` a rival of any earlier
epoch is `stale`, so a device that restarted between two rivals keeps the
loser, and what was settled before the restart stays so (`SettledStays`); a
device's own commit, stepped back from, cannot be applied again; when the
import of a new call key fails, the epoch `addKey` evicted for it does not come
back and one epoch is held where the documentation says two.

## 8. What is not modelled

- **Cryptography.** Signatures, ciphers, hashes and key derivation do what they
  promise: a signature is that the key signed, a ciphertext opens for whom it
  was made and in the context it is bound to, a hash is what was hashed. How
  hard a proof of work or a password is to guess is not a matter of states.
- **Bytes.** Layouts, base64, padding of private delivery, the digits kept of a
  truncated digest. Canonical JSON is taken as one-to-one, which is why the text
  of a document is a function of its fields; where the code itself puts strings
  end to end, `NameForms` does so too.
- **Validation of argument types** and the wording of errors, and version fields
  that can have one value only.
- **The call media sealer**: its counter is taken and incremented before the
  first await, so overlapping seals cannot share a sequence. The frames it
  makes are the opener's `Authentic`.
- **Queries** that change nothing: leaves, exporters, safety numbers as shown to
  a user, the windows of mailbox epochs a reader asks for.
- **The application and the node.** What they do is modelled where the
  documentation of the repository asks it of them (storing and checkpoints,
  comparing a record with the checkpoint, remembering replay keys) and nowhere
  else; in particular which of several valid device transitions is current, and
  the exchange of pairing messages, are kept outside this repository.
- **Several devices of one identity, two groups at once**: `MlsGroup` leaves
  what an identity may do to the policy, and groups share no state.
  `MlsGroupSession` may begin several groups and trusts the checkpoint of one.
- **ts-mls**: what a commit does to a ratchet tree is a successor state; that it
  refuses what is not of its epoch, keeps keys of old epochs and deletes used
  ones is marked external.

`PROJECT.json` says of each component whether it is modelled wholly or partly,
and what of it is left out.

## 9. Plan

Done: the group with its convergence, the call media opener, sessions with join
packages and identities, private delivery, the control chain with freshness, and
the signed, sealed and named records. Every safety and action property of the
passing runs is a theorem.

Left, in this order:

1. That what `Converges` ends in is where it can rest: with the whole roster
   verified and no call in flight, no commit of the catalogue that may be
   applied changes the state of `WinningTip`.
2. A weaker convergence that holds across a restart, which `restore` leaves
   with no state to step back to (section 7).
3. That the rank `MlsGroupConvergence` goes by orders rivals as `Wins` does,
   for every catalogue.
