-------------------------- MODULE PrivateDelivery ---------------------------
(***************************************************************************)
(* Private delivery between a device and those that write to it            *)
(* (src/src/mls/PrivateDelivery*.ts,                                       *)
(* src/src/mls/AuthenticatedPrivateDeliverySchedule.ts): the device        *)
(* generates a schedule of daily keys, signs its descriptors and opens     *)
(* what comes; a sender verifies the descriptors and seals for the day it  *)
(* is.                                                                     *)
(*                                                                         *)
(* Time is one clock all share, in units of which Day make a day.  A key   *)
(* is a schedule and a day of it.  An envelope is what its header says,    *)
(* the mailbox and the expiry, both bound by the AEAD: altered ones open   *)
(* for nobody and are left out, and so is the schedule of another signer.  *)
(* `open` is split at its awaits: it holds the bytes of the key, which the *)
(* schedule fills with zeros when it passes to its successor.              *)
(***************************************************************************)
EXTENDS Naturals, FiniteSets

CONSTANTS
    Schedules,      \* the schedules the device generates
    ScheduleDays,   \* SCHEDULE_DAYS
    Day,            \* PRIVATE_DELIVERY_DAY_MS
    Retentions,     \* the retentions asked for
    MaxRetention,   \* MAX_PRIVATE_DELIVERY_RETENTION_MS
    MaxNow,         \* bound: time, and schedules that end by then
    MaxRevision,    \* bound: the authorization revision
    MaxEnvelopes,   \* bound: envelopes
    MaxOpens,       \* bound: calls to open in flight
    None            \* no such object

ASSUME TimeAssumption ==
    /\ ScheduleDays \in Nat \ {0}
    /\ Day \in Nat \ {0}
    /\ Retentions \subseteq Nat
    /\ MaxRetention \in Nat
    /\ MaxNow \in Nat
    /\ MaxRevision \in Nat

VARIABLES
    now,        \* the time
    revision,   \* the authorization revision all have verified
    made,       \* per schedule, when and how it was generated, or None
    held,       \* per schedule, the days its object has keys of, or None
    blobs,      \* per schedule, what of it was ever stored, protected
    trusted,    \* per schedule, the days its trusted commitment covers
    signed,     \* the signed schedules: a schedule and days of it
    revoked,    \* the mailboxes revoked
    sealing,    \* envelopes being sealed
    wire,       \* envelopes sent
    opens       \* calls to open in flight

vars == <<now, revision, made, held, blobs, trusted, signed, revoked,
          sealing, wire, opens>>

Days == 0..(ScheduleDays - 1)
\* What may be in place of None is not None.
ASSUME NoneAssumption ==
    /\ \A days \in SUBSET Days : None # days
    /\ None \notin [start : Nat, retention : 0..MaxRetention,
                    revision : 0..MaxRevision]

Mailboxes == Schedules \X Days
Envelopes == [mailbox : Mailboxes, expiresAt : Nat]
Opens == [envelope : Envelopes, key : {"live", "zero"},
          stage : {"suite", "imported"}]

\* Everything has its type; a schedule retains ciphertexts no longer than
\* allowed.
TypeOK ==
    /\ now \in 0..MaxNow
    /\ revision \in 0..MaxRevision
    /\ made \in [Schedules -> [start : Nat, retention : 0..MaxRetention,
                               revision : 0..MaxRevision] \union {None}]
    /\ held \in [Schedules -> (SUBSET Days) \union {None}]
    /\ blobs \in [Schedules -> SUBSET SUBSET Days]
    /\ trusted \in [Schedules -> (SUBSET Days) \union {None}]
    /\ signed \subseteq Schedules \X SUBSET Days
    /\ revoked \subseteq Mailboxes
    /\ sealing \subseteq Envelopes
    /\ wire \subseteq Envelopes
    /\ opens \subseteq Opens

Init ==
    /\ now = 0
    /\ revision = 0
    /\ made = [s \in Schedules |-> None]
    /\ held = [s \in Schedules |-> None]
    /\ blobs = [s \in Schedules |-> {}]
    /\ trusted = [s \in Schedules |-> None]
    /\ signed = {}
    /\ revoked = {}
    /\ sealing = {}
    /\ wire = {}
    /\ opens = {}

----------------------------------------------------------------------------
(* Descriptors *)

StartOfUtcDay(t) == t - (t % Day)

ValidFrom(s, d) == made[s].start + d * Day

WriteValidUntil(s, d) == ValidFrom(s, d) + Day

MaxCiphertextExpiresAt(s, d) == WriteValidUntil(s, d) + made[s].retention

\* Mutant: the retention of a schedule is not looked at.
AnyRetention(r) == TRUE

\* The arguments of generate.
Allowed(r) == r <= MaxRetention

\* PrivateDeliveryDescriptor.acceptsWrite
AcceptsWrite(s, d, t, expiresAt) ==
    /\ ValidFrom(s, d) <= t
    /\ t < WriteValidUntil(s, d)
    /\ t <= expiresAt
    /\ expiresAt <= MaxCiphertextExpiresAt(s, d)

\* Mutant: the days may leave gaps.
ValidWithGaps(s, days) == days # {}

\* validateDescriptorSequence: some days, one after the other.
ValidSequence(s, days) ==
    /\ days # {}
    /\ \A d \in days : (\E e \in days : e < d) => d - 1 \in days

\* The entry of a mailbox takes an envelope (PrivateDeliveryKeySchedule.open).
EntryAccepts(s, d, t, expiresAt) ==
    /\ ValidFrom(s, d) <= t
    /\ t <= MaxCiphertextExpiresAt(s, d)
    /\ expiresAt <= MaxCiphertextExpiresAt(s, d)

\* validateOpenInputs
InTime(t, expiresAt) == t <= expiresAt

----------------------------------------------------------------------------
(* The device's schedule *)

Generate(s) ==
    /\ made[s] = None
    /\ StartOfUtcDay(now) + ScheduleDays * Day + MaxRetention <= MaxNow
    /\ \E r \in Retentions :
        /\ Allowed(r)
        /\ made' = [made EXCEPT ![s] = [start |-> StartOfUtcDay(now),
                                        retention |-> r, revision |-> revision]]
    /\ held' = [held EXCEPT ![s] = Days]
    /\ UNCHANGED <<now, revision, blobs, trusted, signed, revoked,
                   sealing, wire, opens>>

\* Mutant: the bytes are left as they are.
LeftAlone(s) == opens

\* Calls to open that have not imported the key yet see it filled with zeros.
Wiped(s) ==
    {IF o.envelope.mailbox[1] = s /\ o.stage = "suite"
     THEN [o EXCEPT !.key = "zero"] ELSE o : o \in opens}

\* transition: copies of what is retained, in a new object; the old one is
\* destroyed.
Transition(s, retained) ==
    /\ held' = [held EXCEPT ![s] = retained]
    /\ opens' = Wiped(s)

\* Mutant: a key goes when its day does.
RetainedToday(s, t) == {d \in held[s] : t < WriteValidUntil(s, d)}

\* retire: the filter.
Retained(s, t) == {d \in held[s] : t <= MaxCiphertextExpiresAt(s, d)}

Retire(s) ==
    /\ held[s] # None
    /\ Transition(s, Retained(s, now))
    /\ UNCHANGED <<now, revision, made, blobs, trusted, signed, revoked,
                   sealing, wire>>

Revoke(s, days) ==
    /\ held[s] # None
    /\ days \subseteq held[s]
    /\ Transition(s, held[s] \ days)
    /\ revoked' = revoked \union ({s} \X days)
    /\ UNCHANGED <<now, revision, made, blobs, trusted, signed,
                   sealing, wire>>

Destroy(s) ==
    /\ held[s] # None
    /\ held' = [held EXCEPT ![s] = None]
    /\ opens' = Wiped(s)
    /\ UNCHANGED <<now, revision, made, blobs, trusted, signed, revoked,
                   sealing, wire>>

\* protect(), stored, and the commitment where it can be trusted.
Store(s) ==
    /\ held[s] # None
    /\ blobs' = [blobs EXCEPT ![s] = @ \union {held[s]}]
    /\ trusted' = [trusted EXCEPT ![s] = held[s]]
    /\ UNCHANGED <<now, revision, made, held, signed, revoked,
                   sealing, wire, opens>>

\* Mutant: any schedule the device once stored is good.
RestoresAny(s, blob) == trusted[s] # None

\* commitmentFor(entries) is the expected one.
Restores(s, blob) == blob = trusted[s]

Restore(s, blob) ==
    /\ held[s] = None
    /\ blob \in blobs[s]
    /\ Restores(s, blob)
    /\ held' = [held EXCEPT ![s] = blob]
    /\ UNCHANGED <<now, revision, made, blobs, trusted, signed, revoked,
                   sealing, wire, opens>>

\* MlsDeviceIdentity.authenticateDeliverySchedule; the application publishes
\* a schedule once it is stored.
Sign(s) ==
    /\ held[s] # None
    /\ held[s] = trusted[s]
    /\ ValidSequence(s, held[s])
    /\ signed' = signed \union {<<s, held[s]>>}
    /\ UNCHANGED <<now, revision, made, held, blobs, trusted, revoked,
                   sealing, wire, opens>>

----------------------------------------------------------------------------
(* A sender *)

\* AuthenticatedPrivateDeliverySchedule.verify
Verifies(schedule) ==
    /\ schedule \in signed
    /\ ValidSequence(schedule[1], schedule[2])
    /\ made[schedule[1]].revision = revision

\* seal, up to its first await.
SealStart(schedule, d, expiresAt) ==
    /\ Verifies(schedule)
    /\ d \in schedule[2]
    /\ AcceptsWrite(schedule[1], d, now, expiresAt)
    /\ Cardinality(sealing \union wire) < MaxEnvelopes
    /\ sealing' = sealing \union
          {[mailbox |-> <<schedule[1], d>>, expiresAt |-> expiresAt]}
    /\ UNCHANGED <<now, revision, made, held, blobs, trusted, signed, revoked,
                   wire, opens>>

\* The sealed envelope leaves, however late.
SealFinish(e) ==
    /\ e \in sealing
    /\ sealing' = sealing \ {e}
    /\ wire' = wire \union {e}
    /\ UNCHANGED <<now, revision, made, held, blobs, trusted, signed, revoked,
                   opens>>

----------------------------------------------------------------------------
(* Opening *)

Accepts(e) ==
    LET s == e.mailbox[1]
        d == e.mailbox[2]
    IN  /\ held[s] # None
        /\ d \in held[s]
        /\ EntryAccepts(s, d, now, e.expiresAt)
        /\ InTime(now, e.expiresAt)

\* open, up to the await of the cipher suite; an envelope can come again.
OpenStart(e) ==
    /\ e \in wire
    /\ Accepts(e)
    /\ Cardinality(opens) < MaxOpens
    /\ opens' = opens \union
          {[envelope |-> e, key |-> "live", stage |-> "suite"]}
    /\ UNCHANGED <<now, revision, made, held, blobs, trusted, signed, revoked,
                   sealing, wire>>

\* importPrivateKey reads the bytes; with zeros, nothing will open.
OpenImport(o) ==
    /\ o \in opens
    /\ o.stage = "suite"
    /\ opens' = (opens \ {o}) \union
          (IF o.key = "live" THEN {[o EXCEPT !.stage = "imported"]} ELSE {})
    /\ UNCHANGED <<now, revision, made, held, blobs, trusted, signed, revoked,
                   sealing, wire>>

OpenFinish(o) ==
    /\ o \in opens
    /\ o.stage = "imported"
    /\ opens' = opens \ {o}
    /\ UNCHANGED <<now, revision, made, held, blobs, trusted, signed, revoked,
                   sealing, wire>>

----------------------------------------------------------------------------
(* Around them *)

Tick ==
    /\ now < MaxNow
    /\ now' = now + 1
    /\ UNCHANGED <<revision, made, held, blobs, trusted, signed, revoked,
                   sealing, wire, opens>>

\* Devices are authorized or revoked, and everyone has verified it.
Revise ==
    /\ revision < MaxRevision
    /\ revision' = revision + 1
    /\ UNCHANGED <<now, made, held, blobs, trusted, signed, revoked,
                   sealing, wire, opens>>

\* The process of the device ends.
Crash ==
    /\ held' = [s \in Schedules |-> None]
    /\ opens' = {}
    /\ UNCHANGED <<now, revision, made, blobs, trusted, signed, revoked,
                   sealing, wire>>

Expiries == 0..(MaxNow + MaxRetention + Day)

Next ==
    \/ \E s \in Schedules :
        \/ Generate(s)
        \/ Retire(s)
        \/ \E days \in SUBSET Days : Revoke(s, days)
        \/ Destroy(s)
        \/ Store(s)
        \/ \E blob \in blobs[s] : Restore(s, blob)
        \/ Sign(s)
    \/ \E schedule \in signed, expiresAt \in Expiries :
        \E d \in schedule[2] : SealStart(schedule, d, expiresAt)
    \/ \E e \in sealing : SealFinish(e)
    \/ \E e \in wire : OpenStart(e)
    \/ \E o \in opens : OpenImport(o) \/ OpenFinish(o)
    \/ Tick
    \/ Revise
    \/ Crash

Spec == Init /\ [][Next]_vars

----------------------------------------------------------------------------
(* Properties *)

\* The days a schedule has keys of, in memory or to be restored.
Kept(s) == IF held[s] # None THEN held[s] ELSE trusted[s]

\* What was sealed in time can be opened until it expires, unless its mailbox
\* was revoked: the last write of a day, the first moment of the next, the
\* end of retention, retirement during an open and a restart included
\* (acceptsWrite, open, retire, restore).
ReadableUntilExpiry ==
    \A e \in sealing \union wire :
        LET s == e.mailbox[1]
            d == e.mailbox[2]
        IN  InTime(now, e.expiresAt) /\ e.mailbox \notin revoked =>
                d \in Kept(s) /\ EntryAccepts(s, d, now, e.expiresAt)

\* A key that was given up, once that is stored, does not come back with an
\* older snapshot of the schedule (restore and its expected commitment).
GoneForGood == \A s \in Schedules :
    held[s] # None /\ trusted[s] # None => held[s] \subseteq trusted[s]

\* At every moment between the first and the last day of a schedule someone
\* may verify, exactly one of its mailboxes takes writes
\* (validateDescriptorSequence, acceptsWrite).
OneMailboxPerMoment ==
    \A schedule \in signed :
        LET s == schedule[1]
            First == CHOOSE d \in schedule[2] : \A e \in schedule[2] : d <= e
            Last == CHOOSE d \in schedule[2] : \A e \in schedule[2] : e <= d
        IN  ValidFrom(s, First) <= now /\ now < WriteValidUntil(s, Last) =>
                Cardinality({d \in schedule[2] : AcceptsWrite(s, d, now, now)})
                    = 1

\* A call to open that gets past the import holds a key the device had not
\* given up by then: nothing opens with a key retired or revoked before.
OpensWithKeptKeys ==
    [][\A o \in opens' \ opens :
          o.stage = "imported" => o.envelope.mailbox[2] \in
              (IF held[o.envelope.mailbox[1]] = None THEN {}
               ELSE held[o.envelope.mailbox[1]])]_vars
=============================================================================
