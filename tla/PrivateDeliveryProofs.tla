----------------------- MODULE PrivateDeliveryProofs ------------------------
(***************************************************************************)
(* Theorems about PrivateDelivery, for every number and length of days,    *)
(* retention, set of schedules, envelopes and calls: what was sealed in    *)
(* time stays readable, what was given up stays gone, and nothing opens    *)
(* with a key that was given up before its bytes were read.                *)
(*                                                                         *)
(* The invariant that carries them is SignedKept: of a schedule that was   *)
(* signed, every day not revoked whose ciphertexts may still be there is   *)
(* in the trusted snapshot and, while the schedule is in memory, in        *)
(* memory.  It holds because a schedule is signed only once it is stored,  *)
(* and restored only as it was trusted.                                    *)
(***************************************************************************)
EXTENDS PrivateDelivery, NumberLemmas, FiniteSetTheorems, TLAPS

\* Before it is generated there is nothing of a schedule.
Unmade ==
    \A s \in Schedules : made[s] = None => held[s] = None /\ trusted[s] = None

\* Of a signed schedule, what may still have to be opened is kept.
SignedKept ==
    \A s \in Schedules, days \in SUBSET Days : <<s, days>> \in signed =>
        /\ made[s] # None
        /\ trusted[s] # None
        /\ ValidSequence(s, days)
        /\ \A d \in days :
               <<s, d>> \notin revoked /\ now <= MaxCiphertextExpiresAt(s, d)
                   => d \in trusted[s] /\ (held[s] # None => d \in held[s])

\* An envelope was sealed for a day of a signed schedule, in time.
SealedSigned ==
    \A e \in sealing \union wire :
        \E days \in SUBSET Days :
            /\ <<e.mailbox[1], days>> \in signed
            /\ e.mailbox[2] \in days
            /\ ValidFrom(e.mailbox[1], e.mailbox[2]) <= now
            /\ e.expiresAt <=
                   MaxCiphertextExpiresAt(e.mailbox[1], e.mailbox[2])

\* A call that has not read its key yet and will find it is one whose key
\* the schedule has; what it opens was sent.
OpensLive ==
    \A o \in opens :
        /\ o.envelope \in wire
        /\ o.stage = "suite" /\ o.key = "live" =>
               /\ held[o.envelope.mailbox[1]] # None
               /\ o.envelope.mailbox[2] \in held[o.envelope.mailbox[1]]

DeliveryInv ==
    /\ TypeOK
    /\ Unmade
    /\ GoneForGood
    /\ SignedKept
    /\ SealedSigned
    /\ OpensLive

----------------------------------------------------------------------------
(* Lemmas *)

\* A day begins no later than the moment it is of, and not before time.
LEMMA DayStart ==
    ASSUME NEW t \in Nat
    PROVE  StartOfUtcDay(t) \in Nat
<1>1. t % Day \in 0..(Day - 1) /\ t \div Day \in Int
          /\ t = Day * (t \div Day) + (t % Day)
  BY TimeAssumption
<1>2. t \div Day >= 0
  BY <1>1, TimeAssumption
<1>3. Day * (t \div Day) >= 0
  BY <1>1, <1>2, TimeAssumption
<1>4. Day * (t \div Day) \in Int
  BY <1>1, TimeAssumption
<1>. DEFINE whole == Day * (t \div Day)
            rest == t % Day
<1>5. whole \in Int /\ whole >= 0 /\ rest \in Int /\ t = whole + rest
  BY <1>1, <1>3, <1>4
<1>. HIDE DEF whole, rest
<1>6. t - rest \in Nat
  BY <1>5
<1>. QED  BY <1>6 DEF StartOfUtcDay, rest

\* The times of a day that was made are times.
LEMMA Times ==
    ASSUME TypeOK, NEW s \in Schedules, made[s] # None, NEW d \in Days
    PROVE  /\ ValidFrom(s, d) \in Nat
           /\ MaxCiphertextExpiresAt(s, d) \in Nat
           /\ WriteValidUntil(s, d) \in Nat
<1>1. made[s].start \in Nat /\ made[s].retention \in Nat
  BY DEF TypeOK
<1>2. d \in Nat /\ Day \in Nat
  BY TimeAssumption DEF Days
<1>3. d * Day \in Nat
  BY <1>2
<1>. QED  BY <1>1, <1>2, <1>3
          DEF ValidFrom, MaxCiphertextExpiresAt, WriteValidUntil

\* A schedule that is held has days.
LEMMA HeldDays ==
    ASSUME TypeOK, NEW s \in Schedules
    PROVE  held[s] # None => held[s] \in SUBSET Days
<1>1. held \in [Schedules -> (SUBSET Days) \union {None}]
  BY DEF TypeOK
<1>2. held[s] \in (SUBSET Days) \union {None}
  BY <1>1
<1>. QED  BY <1>2

\* Filling bytes with zeros makes no new call, and no live one.
LEMMA WipedOpens ==
    ASSUME opens \subseteq Opens, NEW s
    PROVE  /\ Wiped(s) \subseteq Opens
           /\ \A o \in Wiped(s) : \E before \in opens :
                  /\ o.envelope = before.envelope
                  /\ o.stage = before.stage
                  /\ o.key = "live" => before.key = "live"
                  /\ o.stage = "imported" => o = before
                  /\ o.stage = "suite" /\ o.envelope.mailbox[1] = s =>
                         o.key = "zero"
BY DEF Wiped, Opens

\* At the start there is no schedule.
LEMMA DeliveryInit == Init => DeliveryInv
<1>. SUFFICES ASSUME Init  PROVE DeliveryInv
  OBVIOUS
<1>1. /\ now \in 0..MaxNow
      /\ revision \in 0..MaxRevision
  BY TimeAssumption DEF Init
<1>2. /\ made = [s \in Schedules |-> None]
      /\ held = [s \in Schedules |-> None]
      /\ blobs = [s \in Schedules |-> {}]
      /\ trusted = [s \in Schedules |-> None]
  BY DEF Init
<1>3. signed = {} /\ revoked = {} /\ sealing = {} /\ wire = {}
          /\ opens = {}
  BY DEF Init
<1>4. TypeOK
  <2>1. /\ made \in [Schedules -> [start : Nat, retention : 0..MaxRetention,
                          revision : 0..MaxRevision] \union {None}]
        /\ held \in [Schedules -> (SUBSET Days) \union {None}]
        /\ blobs \in [Schedules -> SUBSET SUBSET Days]
        /\ trusted \in [Schedules -> (SUBSET Days) \union {None}]
    BY <1>2
  <2>. QED  BY <1>1, <1>3, <2>1 DEF TypeOK
<1>. QED
  BY <1>2, <1>3, <1>4
     DEF DeliveryInv, Unmade, GoneForGood, SignedKept, SealedSigned, OpensLive

----------------------------------------------------------------------------
(* The steps of the schedule *)

\* What a schedule retains is kept where it matters: for retire and revoke.
LEMMA TransitionStep ==
    ASSUME DeliveryInv, NEW s \in Schedules, held[s] # None,
           NEW retained \in SUBSET held[s], Transition(s, retained),
           revoked \subseteq revoked', revoked' \subseteq Mailboxes,
           \A d \in held[s] \ retained :
               <<s, d>> \in revoked' \/ ~ (now <= MaxCiphertextExpiresAt(s, d)),
           UNCHANGED <<now, revision, made, blobs, trusted, signed, sealing,
                       wire>>
    PROVE  DeliveryInv'
<1>1. /\ held' = [held EXCEPT ![s] = retained]
      /\ opens' = Wiped(s)
  BY DEF Transition
<1>2. TypeOK /\ opens \subseteq Opens
  BY DEF DeliveryInv, TypeOK
<1>3. retained \in SUBSET Days /\ retained # None
  <2>1. held[s] \in SUBSET Days
    BY <1>2, HeldDays
  <2>2. retained \in SUBSET Days
    BY <2>1
  <2>. QED  BY <2>2, NoneAssumption
<1>4. TypeOK'
  BY <1>1, <1>2, <1>3, WipedOpens DEF TypeOK
<1>5. Unmade'
  BY <1>1 DEF DeliveryInv, Unmade
<1>6. GoneForGood'
  BY <1>1, <1>2 DEF DeliveryInv, GoneForGood, TypeOK
<1>7. SignedKept'
  <2>1. ASSUME NEW t \in Schedules, NEW days \in SUBSET Days,
               <<t, days>> \in signed
        PROVE  /\ made[t] # None
               /\ trusted[t] # None
               /\ ValidSequence(t, days)
               /\ \A d \in days :
                      <<t, d>> \notin revoked'
                        /\ now <= MaxCiphertextExpiresAt(t, d) =>
                          /\ d \in trusted[t]
                          /\ held'[t] # None => d \in held'[t]
    BY <1>1, <1>2, <2>1 DEF DeliveryInv, SignedKept, TypeOK
  <2>. QED  BY <2>1 DEF SignedKept, ValidSequence, MaxCiphertextExpiresAt,
                        WriteValidUntil, ValidFrom
<1>8. SealedSigned'
  BY DEF DeliveryInv, SealedSigned, MaxCiphertextExpiresAt, WriteValidUntil,
         ValidFrom
<1>9. OpensLive'
  <2>1. ASSUME NEW o \in opens'
        PROVE  /\ o.envelope \in wire
               /\ o.stage = "suite" /\ o.key = "live" =>
                      /\ held'[o.envelope.mailbox[1]] # None
                      /\ o.envelope.mailbox[2]
                             \in held'[o.envelope.mailbox[1]]
    <3>1. PICK before \in opens :
              /\ o.envelope = before.envelope
              /\ o.stage = before.stage
              /\ o.key = "live" => before.key = "live"
              /\ o.stage = "suite" /\ o.envelope.mailbox[1] = s =>
                     o.key = "zero"
      BY <1>1, <1>2, <2>1, WipedOpens
    <3>2. before.envelope.mailbox[1] # s =>
              held'[before.envelope.mailbox[1]] =
                  held[before.envelope.mailbox[1]]
      BY <1>1, <1>2 DEF TypeOK
    <3>. QED  BY <3>1, <3>2 DEF DeliveryInv, OpensLive
  <2>. QED  BY <2>1 DEF OpensLive
<1>. QED  BY <1>4, <1>5, <1>6, <1>7, <1>8, <1>9 DEF DeliveryInv

\* Retirement gives up only days whose ciphertexts have all expired.
LEMMA RetireStep ==
    ASSUME DeliveryInv, NEW s \in Schedules, Retire(s)
    PROVE  DeliveryInv'
<1>1. revoked \subseteq Mailboxes
  BY DEF DeliveryInv, TypeOK
<1>2. Retained(s, now) \in SUBSET held[s]
  BY DEF Retained
<1>3. \A d \in held[s] \ Retained(s, now) :
          ~ (now <= MaxCiphertextExpiresAt(s, d))
  BY DEF Retained
<1>. QED  BY <1>1, <1>2, <1>3, TransitionStep DEF Retire

\* The days given up are among the revoked, of which nothing is asked.
LEMMA RevokeStep ==
    ASSUME DeliveryInv, NEW s \in Schedules, NEW days \in SUBSET Days,
           Revoke(s, days)
    PROVE  DeliveryInv'
<1>1. /\ held[s] # None
      /\ Transition(s, held[s] \ days)
      /\ revoked' = revoked \union ({s} \X days)
      /\ UNCHANGED <<now, revision, made, blobs, trusted, signed, sealing,
                     wire>>
  BY DEF Revoke
<1>2. revoked' \subseteq Mailboxes
  BY <1>1 DEF DeliveryInv, TypeOK, Mailboxes
<1>3. \A d \in held[s] \ (held[s] \ days) : <<s, d>> \in revoked'
  BY <1>1
<1>. QED  BY <1>1, <1>2, <1>3, TransitionStep

\* What is destroyed is still in the trusted snapshot.
LEMMA DestroyStep ==
    ASSUME DeliveryInv, NEW s \in Schedules, Destroy(s)
    PROVE  DeliveryInv'
<1>1. /\ held' = [held EXCEPT ![s] = None]
      /\ opens' = Wiped(s)
      /\ UNCHANGED <<now, revision, made, blobs, trusted, signed, revoked,
                     sealing, wire>>
  BY DEF Destroy
<1>2. TypeOK /\ opens \subseteq Opens
  BY DEF DeliveryInv, TypeOK
<1>3. TypeOK'
  <2>1. held \in [Schedules -> (SUBSET Days) \union {None}]
    BY <1>2 DEF TypeOK
  <2>3. held' \in [Schedules -> (SUBSET Days) \union {None}]
    BY <1>1, <2>1
  <2>2. opens' \subseteq Opens
    BY <1>1, <1>2, WipedOpens
  <2>. QED  BY <1>1, <1>2, <2>3, <2>2 DEF TypeOK
<1>4. Unmade' /\ GoneForGood'
  BY <1>1, <1>2 DEF DeliveryInv, Unmade, GoneForGood, TypeOK
<1>5. SignedKept'
  BY <1>1, <1>2 DEF DeliveryInv, SignedKept, ValidSequence, TypeOK,
                    MaxCiphertextExpiresAt, WriteValidUntil, ValidFrom
<1>6. SealedSigned'
  BY <1>1 DEF DeliveryInv, SealedSigned, MaxCiphertextExpiresAt,
              WriteValidUntil, ValidFrom
<1>7. OpensLive'
  BY <1>1, <1>2, WipedOpens DEF DeliveryInv, OpensLive, TypeOK
<1>. QED  BY <1>3, <1>4, <1>5, <1>6, <1>7 DEF DeliveryInv

\* A new schedule is not signed, and nothing was sealed for it.
LEMMA GenerateStep ==
    ASSUME DeliveryInv, NEW s \in Schedules, Generate(s)
    PROVE  DeliveryInv'
<1>1. PICK r \in Retentions :
          /\ Allowed(r)
          /\ made' = [made EXCEPT ![s] = [start |-> StartOfUtcDay(now),
                                          retention |-> r,
                                          revision |-> revision]]
  BY DEF Generate
<1>2. /\ made[s] = None
      /\ held' = [held EXCEPT ![s] = Days]
      /\ UNCHANGED <<now, revision, blobs, trusted, signed, revoked,
                     sealing, wire, opens>>
  BY DEF Generate
<1>3. TypeOK /\ held[s] = None /\ trusted[s] = None
  BY <1>2 DEF DeliveryInv, Unmade
<1>4. \A days \in SUBSET Days : <<s, days>> \notin signed
  BY <1>2 DEF DeliveryInv, SignedKept
<1>. DEFINE schedule == [start |-> StartOfUtcDay(now), retention |-> r,
                         revision |-> revision]
<1>5. schedule \in [start : Nat, retention : 0..MaxRetention,
                    revision : 0..MaxRevision]
  <2>1. now \in Nat /\ revision \in 0..MaxRevision
    BY <1>3, TimeAssumption DEF TypeOK
  <2>2. r \in 0..MaxRetention
    BY <1>1, TimeAssumption DEF Allowed
  <2>. QED  BY <2>1, <2>2, DayStart
<1>6. schedule # None
  BY <1>5, NoneAssumption
<1>7. made' = [made EXCEPT ![s] = schedule]
  BY <1>1
<1>. HIDE DEF schedule
<1>8. TypeOK'
  BY <1>2, <1>3, <1>5, <1>7 DEF TypeOK
<1>9. Unmade' /\ GoneForGood'
  BY <1>2, <1>3, <1>6, <1>7 DEF DeliveryInv, Unmade, GoneForGood, TypeOK
<1>10. ASSUME NEW t \in Schedules, t # s
       PROVE  held'[t] = held[t] /\ made'[t] = made[t]
  BY <1>2, <1>3, <1>7, <1>10 DEF TypeOK
<1>11. SignedKept'
  BY <1>2, <1>4, <1>10
     DEF DeliveryInv, SignedKept, ValidSequence, MaxCiphertextExpiresAt,
         WriteValidUntil, ValidFrom
<1>12. SealedSigned'
  <2>1. ASSUME NEW e \in sealing \union wire
        PROVE  e.mailbox[1] \in Schedules \ {s}
    <3>1. e.mailbox[1] \in Schedules
      BY <1>3 DEF TypeOK, Envelopes, Mailboxes
    <3>2. PICK days \in SUBSET Days : <<e.mailbox[1], days>> \in signed
      BY DEF DeliveryInv, SealedSigned
    <3>. QED  BY <1>4, <3>1, <3>2
  <2>. QED  BY <1>2, <1>10, <2>1
            DEF DeliveryInv, SealedSigned, MaxCiphertextExpiresAt,
                WriteValidUntil, ValidFrom
<1>13. OpensLive'
  <2>1. ASSUME NEW o \in opens
        PROVE  o.envelope.mailbox[1] \in Schedules
    BY <1>3 DEF TypeOK, Opens, Envelopes, Mailboxes
  <2>. QED  BY <1>2, <1>3, <1>10, <2>1 DEF DeliveryInv, OpensLive
<1>. QED  BY <1>8, <1>9, <1>11, <1>12, <1>13 DEF DeliveryInv

\* What is stored is what is held, which has all that must be kept.
LEMMA StoreStep ==
    ASSUME DeliveryInv, NEW s \in Schedules, Store(s)
    PROVE  DeliveryInv'
<1>1. /\ held[s] # None
      /\ blobs' = [blobs EXCEPT ![s] = @ \union {held[s]}]
      /\ trusted' = [trusted EXCEPT ![s] = held[s]]
      /\ UNCHANGED <<now, revision, made, held, signed, revoked, sealing,
                     wire, opens>>
  BY DEF Store
<1>2. TypeOK /\ held[s] \in SUBSET Days
  BY <1>1, HeldDays DEF DeliveryInv
<1>3. TypeOK'
  <2>1. trusted' \in [Schedules -> (SUBSET Days) \union {None}]
    BY <1>1, <1>2 DEF TypeOK
  <2>2. blobs' \in [Schedules -> SUBSET SUBSET Days]
    BY <1>1, <1>2 DEF TypeOK
  <2>. QED  BY <1>1, <1>2, <2>1, <2>2 DEF TypeOK
<1>4. Unmade' /\ GoneForGood'
  BY <1>1, <1>2 DEF DeliveryInv, Unmade, GoneForGood, TypeOK
<1>5. SignedKept'
  BY <1>1, <1>2 DEF DeliveryInv, SignedKept, ValidSequence, TypeOK,
                    MaxCiphertextExpiresAt, WriteValidUntil, ValidFrom
<1>6. SealedSigned'
  BY <1>1 DEF DeliveryInv, SealedSigned, MaxCiphertextExpiresAt,
              WriteValidUntil, ValidFrom
<1>7. OpensLive'
  BY <1>1 DEF DeliveryInv, OpensLive
<1>. QED  BY <1>3, <1>4, <1>5, <1>6, <1>7 DEF DeliveryInv

\* What is restored is the trusted snapshot.
LEMMA RestoreStep ==
    ASSUME DeliveryInv, NEW s \in Schedules, NEW blob \in blobs[s],
           Restore(s, blob)
    PROVE  DeliveryInv'
<1>1. /\ held[s] = None
      /\ blob = trusted[s]
      /\ held' = [held EXCEPT ![s] = blob]
      /\ UNCHANGED <<now, revision, made, blobs, trusted, signed, revoked,
                     sealing, wire, opens>>
  BY DEF Restore, Restores
<1>2. TypeOK /\ blob \in SUBSET Days
  BY DEF DeliveryInv, TypeOK
<1>3. TypeOK'
  BY <1>1, <1>2 DEF TypeOK
<1>4. blob # None
  BY <1>2, NoneAssumption
<1>5. Unmade' /\ GoneForGood'
  BY <1>1, <1>2, <1>4 DEF DeliveryInv, Unmade, GoneForGood, TypeOK
<1>6. SignedKept'
  BY <1>1, <1>2 DEF DeliveryInv, SignedKept, ValidSequence, TypeOK,
                    MaxCiphertextExpiresAt, WriteValidUntil, ValidFrom
<1>7. SealedSigned'
  BY <1>1 DEF DeliveryInv, SealedSigned, MaxCiphertextExpiresAt,
              WriteValidUntil, ValidFrom
<1>8. OpensLive'
  BY <1>1, <1>2 DEF DeliveryInv, OpensLive, TypeOK
<1>. QED  BY <1>3, <1>5, <1>6, <1>7, <1>8 DEF DeliveryInv

\* A schedule is signed as it is trusted, so all its days are kept.
LEMMA SignStep ==
    ASSUME DeliveryInv, NEW s \in Schedules, Sign(s)
    PROVE  DeliveryInv'
<1>1. /\ held[s] # None
      /\ held[s] = trusted[s]
      /\ ValidSequence(s, held[s])
      /\ signed' = signed \union {<<s, held[s]>>}
      /\ UNCHANGED <<now, revision, made, held, blobs, trusted, revoked,
                     sealing, wire, opens>>
  BY DEF Sign
<1>2. TypeOK /\ held[s] \in SUBSET Days /\ made[s] # None
  BY <1>1, HeldDays DEF DeliveryInv, Unmade
<1>3. TypeOK'
  BY <1>1, <1>2 DEF TypeOK
<1>4. Unmade' /\ GoneForGood' /\ OpensLive'
  BY <1>1 DEF DeliveryInv, Unmade, GoneForGood, OpensLive
<1>5. SignedKept'
  <2>1. ASSUME NEW t \in Schedules, NEW days \in SUBSET Days,
               <<t, days>> \in signed'
        PROVE  <<t, days>> \in signed \/ (t = s /\ days = held[s])
    <3>1. <<t, days>> \in signed \/ <<t, days>> = <<s, held[s]>>
      BY <1>1, <2>1
    <3>2. <<t, days>> = <<s, held[s]>> => t = s /\ days = held[s]
      BY ONLY Zenon
    <3>. QED  BY <3>1, <3>2
  <2>2. ASSUME NEW t \in Schedules, NEW days \in SUBSET Days,
               <<t, days>> \in signed'
        PROVE  /\ made[t] # None
               /\ trusted[t] # None
               /\ ValidSequence(t, days)
               /\ \A d \in days :
                      <<t, d>> \notin revoked
                        /\ now <= MaxCiphertextExpiresAt(t, d) =>
                          d \in trusted[t] /\ (held[t] # None => d \in held[t])
    <3>1. CASE <<t, days>> \in signed
      BY <3>1 DEF DeliveryInv, SignedKept
    <3>2. CASE t = s /\ days = held[s]
      BY <1>1, <1>2, <3>2
    <3>. QED  BY <2>1, <2>2, <3>1, <3>2
  <2>. QED  BY <1>1, <2>2 DEF SignedKept, ValidSequence,
                MaxCiphertextExpiresAt, WriteValidUntil, ValidFrom
<1>6. SealedSigned'
  BY <1>1 DEF DeliveryInv, SealedSigned, MaxCiphertextExpiresAt,
              WriteValidUntil, ValidFrom
<1>. QED  BY <1>3, <1>4, <1>5, <1>6 DEF DeliveryInv

----------------------------------------------------------------------------
(* The steps of senders and of calls to open *)

\* Steps that touch no schedule keep what was signed, and what was sealed.
LEMMA SchedulesAlone ==
    ASSUME DeliveryInv, TypeOK',
           UNCHANGED <<made, held, blobs, trusted, signed, revoked>>,
           now' \in Nat, now <= now'
    PROVE  Unmade' /\ GoneForGood' /\ SignedKept'
<1>1. Unmade' /\ GoneForGood'
  BY DEF DeliveryInv, Unmade, GoneForGood
<1>2. now \in Nat /\ now' \in Nat
  BY TimeAssumption DEF DeliveryInv, TypeOK
<1>3. ASSUME NEW s \in Schedules, NEW days \in SUBSET Days,
             <<s, days>> \in signed, NEW d \in days,
             now' <= MaxCiphertextExpiresAt(s, d)
      PROVE  now <= MaxCiphertextExpiresAt(s, d)
  <2>1. MaxCiphertextExpiresAt(s, d) \in Nat
    BY <1>3, Times DEF DeliveryInv, SignedKept
  <2>. QED  BY <1>2, <1>3, <2>1
<1>4. SignedKept'
  BY <1>3 DEF DeliveryInv, SignedKept, ValidSequence, MaxCiphertextExpiresAt,
              WriteValidUntil, ValidFrom
<1>. QED  BY <1>1, <1>4

\* Fewer envelopes, later: all were still sealed in time.
LEMMA SealedAlone ==
    ASSUME DeliveryInv, UNCHANGED <<made, signed>>,
           now' \in Nat, now <= now',
           sealing' \union wire' \subseteq sealing \union wire
    PROVE  SealedSigned'
<1>1. now \in Nat
  BY TimeAssumption DEF DeliveryInv, TypeOK
<1>2. ASSUME NEW e \in sealing' \union wire'
      PROVE  \E days \in SUBSET Days :
                 /\ <<e.mailbox[1], days>> \in signed
                 /\ e.mailbox[2] \in days
                 /\ ValidFrom(e.mailbox[1], e.mailbox[2]) <= now'
                 /\ e.expiresAt <=
                        MaxCiphertextExpiresAt(e.mailbox[1], e.mailbox[2])
  <2>. DEFINE s == e.mailbox[1]
              d == e.mailbox[2]
  <2>1. e \in sealing \union wire
    BY <1>2
  <2>2. PICK days \in SUBSET Days :
            /\ <<s, days>> \in signed
            /\ d \in days
            /\ ValidFrom(s, d) <= now
            /\ e.expiresAt <= MaxCiphertextExpiresAt(s, d)
    BY <2>1 DEF DeliveryInv, SealedSigned
  <2>3. s \in Schedules
    BY <2>1 DEF DeliveryInv, TypeOK, Envelopes, Mailboxes
  <2>4. ValidFrom(s, d) \in Nat
    BY <2>2, <2>3, Times DEF DeliveryInv, SignedKept
  <2>5. ValidFrom(s, d) <= now'
    BY <1>1, <2>2, <2>4
  <2>. QED  BY <2>2, <2>5
<1>. QED  BY <1>2 DEF SealedSigned, MaxCiphertextExpiresAt, WriteValidUntil,
                      ValidFrom

\* A new envelope is within the limits of its day.
LEMMA SealStartStep ==
    ASSUME DeliveryInv, NEW schedule \in signed, NEW d \in schedule[2],
           NEW expiresAt \in Expiries, SealStart(schedule, d, expiresAt)
    PROVE  DeliveryInv'
<1>. DEFINE s == schedule[1]
            e == [mailbox |-> <<s, d>>, expiresAt |-> expiresAt]
<1>1. /\ AcceptsWrite(s, d, now, expiresAt)
      /\ sealing' = sealing \union {e}
      /\ UNCHANGED <<now, revision, made, held, blobs, trusted, signed,
                     revoked, wire, opens>>
  BY DEF SealStart
<1>2. TypeOK /\ now \in Nat
  BY TimeAssumption DEF DeliveryInv, TypeOK
<1>3. /\ s \in Schedules
      /\ schedule[2] \in SUBSET Days
      /\ schedule = <<s, schedule[2]>>
  BY <1>2 DEF TypeOK
<1>4. e \in Envelopes /\ e.mailbox = <<s, d>> /\ e.expiresAt = expiresAt
  BY <1>3, TimeAssumption DEF Envelopes, Mailboxes, Expiries
<1>5. <<s, schedule[2]>> \in signed
  BY <1>3
<1>. HIDE DEF e
<1>6. TypeOK'
  BY <1>1, <1>2, <1>4 DEF TypeOK
<1>7. Unmade' /\ GoneForGood' /\ SignedKept'
  BY <1>1, <1>2, <1>6, SchedulesAlone
<1>8. SealedSigned'
  <2>1. ASSUME NEW f \in sealing' \union wire'
        PROVE  \E days \in SUBSET Days :
                   /\ <<f.mailbox[1], days>> \in signed
                   /\ f.mailbox[2] \in days
                   /\ ValidFrom(f.mailbox[1], f.mailbox[2]) <= now
                   /\ f.expiresAt <=
                          MaxCiphertextExpiresAt(f.mailbox[1], f.mailbox[2])
    <3>1. CASE f \in sealing \union wire
      BY <3>1 DEF DeliveryInv, SealedSigned
    <3>2. CASE f = e
      <4>1. f.mailbox[1] = s /\ f.mailbox[2] = d /\ f.expiresAt = expiresAt
        BY <1>4, <3>2
      <4>. QED  BY <1>1, <1>3, <1>5, <4>1 DEF AcceptsWrite
    <3>. QED  BY <1>1, <2>1, <3>1, <3>2
  <2>. QED  BY <1>1, <2>1 DEF SealedSigned, MaxCiphertextExpiresAt,
                              WriteValidUntil, ValidFrom
<1>9. OpensLive'
  BY <1>1 DEF DeliveryInv, OpensLive
<1>. QED  BY <1>6, <1>7, <1>8, <1>9 DEF DeliveryInv

\* An envelope sent is the one that was sealed.
LEMMA SealFinishStep ==
    ASSUME DeliveryInv, NEW e \in sealing, SealFinish(e)
    PROVE  DeliveryInv'
<1>1. /\ sealing' = sealing \ {e}
      /\ wire' = wire \union {e}
      /\ UNCHANGED <<now, revision, made, held, blobs, trusted, signed,
                     revoked, opens>>
  BY DEF SealFinish
<1>2. TypeOK /\ now \in Nat
  BY TimeAssumption DEF DeliveryInv, TypeOK
<1>3. TypeOK'
  BY <1>1, <1>2 DEF TypeOK
<1>4. SealedSigned'
  BY <1>1, <1>2, SealedAlone
<1>5. OpensLive'
  BY <1>1 DEF DeliveryInv, OpensLive
<1>. QED  BY <1>1, <1>2, <1>3, <1>4, <1>5, SchedulesAlone DEF DeliveryInv

\* Steps of a call to open change no schedule.
LEMMA OpeningStep ==
    ASSUME DeliveryInv, opens' \subseteq Opens, OpensLive',
           UNCHANGED <<now, revision, made, held, blobs, trusted, signed,
                       revoked, sealing, wire>>
    PROVE  DeliveryInv'
<1>1. TypeOK /\ now \in Nat
  BY TimeAssumption DEF DeliveryInv, TypeOK
<1>2. TypeOK'
  BY <1>1 DEF TypeOK
<1>. QED  BY <1>1, <1>2, SchedulesAlone, SealedAlone DEF DeliveryInv

\* A call starts with a key that is held.
LEMMA OpenStartStep ==
    ASSUME DeliveryInv, NEW e \in wire, OpenStart(e)
    PROVE  DeliveryInv'
<1>. DEFINE o == [envelope |-> e, key |-> "live", stage |-> "suite"]
<1>1. /\ opens' = opens \union {o}
      /\ held[e.mailbox[1]] # None
      /\ e.mailbox[2] \in held[e.mailbox[1]]
      /\ UNCHANGED <<now, revision, made, held, blobs, trusted, signed,
                     revoked, sealing, wire>>
  BY DEF OpenStart, Accepts
<1>2. opens' \subseteq Opens
  BY <1>1 DEF DeliveryInv, TypeOK, Opens
<1>3. OpensLive'
  BY <1>1 DEF DeliveryInv, OpensLive
<1>. QED  BY <1>1, <1>2, <1>3, OpeningStep

\* It goes on only with bytes not zeroed.
LEMMA OpenImportStep ==
    ASSUME DeliveryInv, NEW o \in opens, OpenImport(o)
    PROVE  DeliveryInv'
<1>1. /\ opens' = (opens \ {o}) \union
             (IF o.key = "live" THEN {[o EXCEPT !.stage = "imported"]} ELSE {})
      /\ UNCHANGED <<now, revision, made, held, blobs, trusted, signed,
                     revoked, sealing, wire>>
  BY DEF OpenImport
<1>2. o \in Opens
  BY DEF DeliveryInv, TypeOK
<1>3. opens' \subseteq Opens
  BY <1>1, <1>2 DEF DeliveryInv, TypeOK, Opens
<1>4. OpensLive'
  BY <1>1, <1>2 DEF DeliveryInv, OpensLive, Opens
<1>. QED  BY <1>1, <1>3, <1>4, OpeningStep

\* It ends with an envelope that was sent.
LEMMA OpenFinishStep ==
    ASSUME DeliveryInv, NEW o \in opens, OpenFinish(o)
    PROVE  DeliveryInv'
<1>1. /\ opens' = opens \ {o}
      /\ UNCHANGED <<now, revision, made, held, blobs, trusted, signed,
                     revoked, sealing, wire>>
  BY DEF OpenFinish
<1>2. o.envelope \in wire
  BY DEF DeliveryInv, OpensLive
<1>3. opens' \subseteq Opens
  BY <1>1, <1>2 DEF DeliveryInv, TypeOK
<1>4. OpensLive'
  BY <1>1 DEF DeliveryInv, OpensLive
<1>. QED  BY <1>1, <1>3, <1>4, OpeningStep

----------------------------------------------------------------------------
(* The steps around them *)

\* As time goes on less must be kept.
LEMMA TickStep == ASSUME DeliveryInv, Tick  PROVE DeliveryInv'
<1>1. /\ now < MaxNow
      /\ now' = now + 1
      /\ UNCHANGED <<revision, made, held, blobs, trusted, signed, revoked,
                     sealing, wire, opens>>
  BY DEF Tick
<1>2. TypeOK /\ now \in Nat
  BY TimeAssumption DEF DeliveryInv, TypeOK
<1>3. TypeOK'
  BY <1>1, <1>2, TimeAssumption DEF TypeOK
<1>4. now' \in Nat /\ now <= now'
  BY <1>1, <1>2
<1>5. OpensLive'
  BY <1>1 DEF DeliveryInv, OpensLive
<1>. QED  BY <1>1, <1>3, <1>4, <1>5, SchedulesAlone, SealedAlone
          DEF DeliveryInv

\* A revision of the roster touches no key.
LEMMA ReviseStep == ASSUME DeliveryInv, Revise  PROVE DeliveryInv'
<1>1. /\ revision < MaxRevision
      /\ revision' = revision + 1
      /\ UNCHANGED <<now, made, held, blobs, trusted, signed, revoked,
                     sealing, wire, opens>>
  BY DEF Revise
<1>2. TypeOK /\ now \in Nat
  BY TimeAssumption DEF DeliveryInv, TypeOK
<1>3. TypeOK'
  BY <1>1, <1>2, TimeAssumption DEF TypeOK
<1>4. OpensLive'
  BY <1>1 DEF DeliveryInv, OpensLive
<1>. QED  BY <1>1, <1>2, <1>3, <1>4, SchedulesAlone, SealedAlone
          DEF DeliveryInv

\* After a crash there is the trusted snapshot.
LEMMA CrashStep == ASSUME DeliveryInv, Crash  PROVE DeliveryInv'
<1>1. /\ held' = [s \in Schedules |-> None]
      /\ opens' = {}
      /\ UNCHANGED <<now, revision, made, blobs, trusted, signed, revoked,
                     sealing, wire>>
  BY DEF Crash
<1>2. TypeOK /\ now \in Nat
  BY TimeAssumption DEF DeliveryInv, TypeOK
<1>3. TypeOK'
  BY <1>1, <1>2 DEF TypeOK
<1>4. Unmade' /\ GoneForGood' /\ OpensLive'
  BY <1>1 DEF DeliveryInv, Unmade, GoneForGood, OpensLive
<1>5. SignedKept'
  BY <1>1 DEF DeliveryInv, SignedKept, ValidSequence,
              MaxCiphertextExpiresAt, WriteValidUntil, ValidFrom
<1>. QED  BY <1>1, <1>2, <1>3, <1>4, <1>5, SealedAlone DEF DeliveryInv

\* Every step keeps DeliveryInv.
LEMMA DeliveryInductive == DeliveryInv /\ [Next]_vars => DeliveryInv'
<1>. SUFFICES ASSUME DeliveryInv, [Next]_vars  PROVE DeliveryInv'
  OBVIOUS
<1>1. ASSUME NEW s \in Schedules, Generate(s) \/ Retire(s) \/ Destroy(s)
                                      \/ Store(s) \/ Sign(s)
      PROVE  DeliveryInv'
  BY <1>1, GenerateStep, RetireStep, DestroyStep, StoreStep, SignStep
<1>2. ASSUME NEW s \in Schedules, NEW days \in SUBSET Days, Revoke(s, days)
      PROVE  DeliveryInv'
  BY <1>2, RevokeStep
<1>3. ASSUME NEW s \in Schedules, NEW blob \in blobs[s], Restore(s, blob)
      PROVE  DeliveryInv'
  BY <1>3, RestoreStep
<1>4. ASSUME NEW schedule \in signed, NEW expiresAt \in Expiries,
             NEW d \in schedule[2], SealStart(schedule, d, expiresAt)
      PROVE  DeliveryInv'
  BY <1>4, SealStartStep
<1>5. ASSUME NEW e \in sealing, SealFinish(e)  PROVE DeliveryInv'
  BY <1>5, SealFinishStep
<1>6. ASSUME NEW e \in wire, OpenStart(e)  PROVE DeliveryInv'
  BY <1>6, OpenStartStep
<1>7. ASSUME NEW o \in opens, OpenImport(o) \/ OpenFinish(o)
      PROVE  DeliveryInv'
  BY <1>7, OpenImportStep, OpenFinishStep
<1>8. ASSUME UNCHANGED vars  PROVE DeliveryInv'
  <2>1. opens' \subseteq Opens /\ OpensLive'
    BY <1>8 DEF vars, DeliveryInv, TypeOK, OpensLive
  <2>. QED  BY <1>8, <2>1, OpeningStep DEF vars
<1>. QED  BY <1>1, <1>2, <1>3, <1>4, <1>5, <1>6, <1>7, <1>8, TickStep,
             ReviseStep, CrashStep DEF Next

\* The conjunction holds in every state: days signed or sealed for stay kept
\* for as long as something written for them can be opened.
THEOREM DeliveryInvariant == Spec => []DeliveryInv
BY DeliveryInit, DeliveryInductive, PTL DEF Spec

\* Every state is of its type; a schedule retains ciphertexts no longer than
\* allowed.
THEOREM TypeCorrect == Spec => []TypeOK
<1>1. DeliveryInv => TypeOK
  BY DEF DeliveryInv
<1>. QED  BY <1>1, DeliveryInvariant, PTL

\* A day that was given up, once that is stored, does not come back.
THEOREM GoneStaysGone == Spec => []GoneForGood
<1>1. DeliveryInv => GoneForGood
  BY DEF DeliveryInv
<1>. QED  BY <1>1, DeliveryInvariant, PTL

\* What was sealed in time can be opened until it expires, unless its mailbox
\* was revoked.
THEOREM SealedReadable == Spec => []ReadableUntilExpiry
<1>1. DeliveryInv => ReadableUntilExpiry
  <2>1. SUFFICES ASSUME DeliveryInv, NEW e \in sealing \union wire,
                        InTime(now, e.expiresAt), e.mailbox \notin revoked
                 PROVE  /\ e.mailbox[2] \in Kept(e.mailbox[1])
                        /\ EntryAccepts(e.mailbox[1], e.mailbox[2], now,
                                        e.expiresAt)
    BY DEF ReadableUntilExpiry
  <2>. DEFINE s == e.mailbox[1]
              d == e.mailbox[2]
  <2>2. /\ s \in Schedules
        /\ e.mailbox = <<s, d>>
        /\ e.expiresAt \in Nat
        /\ now \in Nat
    BY <2>1, TimeAssumption DEF DeliveryInv, TypeOK, Envelopes, Mailboxes
  <2>3. PICK days \in SUBSET Days :
            /\ <<s, days>> \in signed
            /\ d \in days
            /\ ValidFrom(s, d) <= now
            /\ e.expiresAt <= MaxCiphertextExpiresAt(s, d)
    BY <2>1 DEF DeliveryInv, SealedSigned
  <2>4. MaxCiphertextExpiresAt(s, d) \in Nat
    BY <2>1, <2>2, <2>3, Times DEF DeliveryInv, SignedKept
  <2>5. now <= MaxCiphertextExpiresAt(s, d)
    BY <2>1, <2>2, <2>3, <2>4 DEF InTime
  <2>6. d \in trusted[s] /\ (held[s] # None => d \in held[s])
    BY <2>1, <2>2, <2>3, <2>5 DEF DeliveryInv, SignedKept
  <2>. QED  BY <2>3, <2>5, <2>6 DEF Kept, EntryAccepts
<1>. QED  BY <1>1, DeliveryInvariant, PTL

\* A call to open that gets past the import holds a key the device had not
\* given up by then.
THEOREM OpensKept == Spec => OpensWithKeptKeys
<1>. DEFINE Kept1 == \A o \in opens' \ opens :
                         o.stage = "imported" => o.envelope.mailbox[2] \in
                             (IF held[o.envelope.mailbox[1]] = None THEN {}
                              ELSE held[o.envelope.mailbox[1]])
<1>1. DeliveryInv /\ [Next]_vars => [Kept1]_vars
  <2>. SUFFICES ASSUME DeliveryInv, Next  PROVE Kept1
    OBVIOUS
  <2>. opens \subseteq Opens
    BY DEF DeliveryInv, TypeOK
  <2>1. ASSUME NEW s \in Schedules, opens' = Wiped(s)  PROVE Kept1
    BY <2>1, WipedOpens
  <2>2. ASSUME opens' \subseteq opens  PROVE Kept1
    BY <2>2
  <2>3. ASSUME NEW s \in Schedules, Generate(s) \/ Retire(s) \/ Destroy(s)
                                        \/ Store(s) \/ Sign(s)
        PROVE  Kept1
    BY <2>1, <2>2, <2>3
       DEF Generate, Retire, Transition, Destroy, Store, Sign
  <2>4. ASSUME NEW s \in Schedules, NEW days \in SUBSET Days, Revoke(s, days)
        PROVE  Kept1
    BY <2>1, <2>4 DEF Revoke, Transition
  <2>5. ASSUME NEW s \in Schedules, NEW blob \in blobs[s], Restore(s, blob)
        PROVE  Kept1
    BY <2>2, <2>5 DEF Restore
  <2>6. ASSUME NEW schedule \in signed, NEW expiresAt \in Expiries,
               NEW d \in schedule[2], SealStart(schedule, d, expiresAt)
        PROVE  Kept1
    BY <2>2, <2>6 DEF SealStart
  <2>7. ASSUME NEW e \in sealing, SealFinish(e)  PROVE Kept1
    BY <2>2, <2>7 DEF SealFinish
  <2>8. ASSUME NEW e \in wire, OpenStart(e)  PROVE Kept1
    BY <2>8 DEF OpenStart
  <2>9. ASSUME NEW o \in opens, OpenImport(o)  PROVE Kept1
    <3>1. o.key = "live" => /\ held[o.envelope.mailbox[1]] # None
                            /\ o.envelope.mailbox[2]
                                   \in held[o.envelope.mailbox[1]]
      BY <2>9 DEF DeliveryInv, OpensLive, OpenImport
    <3>2. o \in Opens
      OBVIOUS
    <3>3. \A p \in opens' \ opens :
              o.key = "live" /\ p = [o EXCEPT !.stage = "imported"]
      BY <2>9 DEF OpenImport
    <3>4. [o EXCEPT !.stage = "imported"].envelope = o.envelope
      BY <3>2 DEF Opens
    <3>. QED  BY <3>1, <3>3, <3>4
  <2>10. ASSUME NEW o \in opens, OpenFinish(o)  PROVE Kept1
    BY <2>2, <2>10 DEF OpenFinish
  <2>11. ASSUME Tick \/ Revise \/ Crash  PROVE Kept1
    BY <2>2, <2>11 DEF Tick, Revise, Crash
  <2>. QED  BY <2>3, <2>4, <2>5, <2>6, <2>7, <2>8, <2>9, <2>10, <2>11
            DEF Next
<1>. QED  BY <1>1, DeliveryInvariant, PTL DEF Spec, OpensWithKeptKeys

----------------------------------------------------------------------------
(* One mailbox for each moment *)

\* A later day is open for writing only after an earlier one has ended.
LEMMA DaysApart ==
    ASSUME TypeOK, NEW s \in Schedules, made[s] # None,
           NEW d \in Days, NEW e \in Days, d < e
    PROVE  WriteValidUntil(s, d) <= ValidFrom(s, e)
<1>1. made[s].start \in Nat /\ d \in Nat /\ e \in Nat /\ Day \in Nat
  BY TimeAssumption DEF TypeOK, Days
<1> DEFINE k == e - d - 1
<1>2. k \in Nat /\ e = d + 1 + k
  BY <1>1
<1> HIDE DEF k
<1>3. k * Day \in Nat /\ d * Day \in Nat /\ e * Day \in Nat
  BY <1>1, <1>2
<1>4. e * Day = d * Day + Day + k * Day
  BY <1>1, <1>2
<1>. QED  BY <1>1, <1>3, <1>4 DEF WriteValidUntil, ValidFrom

\* The day that follows another one begins when that one ends.
LEMMA NextDay ==
    ASSUME TypeOK, NEW s \in Schedules, made[s] # None,
           NEW d \in Days, d + 1 \in Days
    PROVE  ValidFrom(s, d + 1) = WriteValidUntil(s, d)
<1>1. made[s].start \in Nat /\ d \in Nat /\ Day \in Nat
  BY TimeAssumption DEF TypeOK, Days
<1>2. (d + 1) * Day = d * Day + Day /\ d * Day \in Nat
  BY <1>1
<1>. QED  BY <1>1, <1>2 DEF WriteValidUntil, ValidFrom

\* A sequence without gaps has, with a day and a later one, the next day.
LEMMA NoDayMissing ==
    ASSUME NEW s, NEW days \in SUBSET Nat, ValidSequence(s, days),
           NEW d \in days, NEW e \in days, d < e
    PROVE  d + 1 \in days
<1> DEFINE later == {x \in days : d < x}
<1>1. PICK m \in later : \A x \in later : m <= x
  <2>1. later \in SUBSET Nat /\ later # {}
    OBVIOUS
  <2> HIDE DEF later
  <2>. QED  BY <2>1, LeastNumber
<1>2. m \in days /\ d < m /\ m \in Nat /\ d \in Nat
  OBVIOUS
<1>3. m - 1 \in days
  BY <1>2 DEF ValidSequence
<1>4. ~ d < m - 1
  <2>1. d < m - 1 => m <= m - 1
    BY <1>1, <1>3
  <2>. QED  BY <1>2, <2>1
<1>. QED  BY <1>2, <1>4

\* A day takes writes exactly from its beginning to its end.
LEMMA WritesOfDay ==
    ASSUME TypeOK, NEW s \in Schedules, made[s] # None, NEW d \in Days
    PROVE  AcceptsWrite(s, d, now, now) <=>
                ValidFrom(s, d) <= now /\ now < WriteValidUntil(s, d)
<1>1. now \in Nat /\ made[s].retention \in Nat
  BY TimeAssumption DEF TypeOK
<1>. QED  BY <1>1, Times DEF AcceptsWrite, MaxCiphertextExpiresAt

\* At every moment between the first and the last day of a schedule someone
\* may verify, exactly one of its mailboxes takes writes.
THEOREM OneMailboxAlways == Spec => []OneMailboxPerMoment
<1>1. ASSUME DeliveryInv, NEW schedule \in signed
      PROVE  LET s == schedule[1]
                 First == CHOOSE d \in schedule[2] :
                            \A e \in schedule[2] : d <= e
                 Last == CHOOSE d \in schedule[2] :
                            \A e \in schedule[2] : e <= d
             IN  ValidFrom(s, First) <= now /\ now < WriteValidUntil(s, Last) =>
                    Cardinality({d \in schedule[2] :
                                    AcceptsWrite(s, d, now, now)}) = 1
  <2> DEFINE s == schedule[1]
             days == schedule[2]
             First == CHOOSE d \in days : \A e \in days : d <= e
             Last == CHOOSE d \in days : \A e \in days : e <= d
  <2>1. TypeOK /\ now \in Nat
    BY <1>1, TimeAssumption DEF DeliveryInv, TypeOK
  <2>2. s \in Schedules /\ days \in SUBSET Days /\ schedule = <<s, days>>
    BY <1>1, <2>1 DEF TypeOK
  <2>3. made[s] # None /\ ValidSequence(s, days)
    BY <1>1, <2>2 DEF DeliveryInv, SignedKept
  <2> HIDE DEF s, days
  <2>4. /\ days \in SUBSET Nat /\ days # {}
        /\ ScheduleDays - 1 \in Nat
        /\ \A d \in days : d <= ScheduleDays - 1
    BY <2>2, <2>3, TimeAssumption DEF Days, ValidSequence
  <2>5. First \in days
    BY <2>4, LeastNumber
  <2>6. Last \in days /\ \A e \in days : e <= Last
    <3>1. \E d \in days : \A e \in days : e <= d
      BY <2>4, GreatestNumber
    <3>. QED  BY <3>1
  <2> HIDE DEF First, Last
  <2>7. \A d \in days : ValidFrom(s, d) \in Nat /\ WriteValidUntil(s, d) \in Nat
    BY <2>1, <2>2, <2>3, Times
  <2> DEFINE writable == {d \in days : AcceptsWrite(s, d, now, now)}
  <2>8. ASSUME ValidFrom(s, First) <= now, now < WriteValidUntil(s, Last)
        PROVE  Cardinality(writable) = 1
    <3> DEFINE begun == {d \in days : ValidFrom(s, d) <= now}
    <3>1. PICK n \in begun : \A d \in begun : d <= n
      <4>1. /\ begun \in SUBSET Nat /\ begun # {}
            /\ \A d \in begun : d <= ScheduleDays - 1
        BY <2>4, <2>5, <2>8
      <4> HIDE DEF begun
      <4>. QED  BY <2>4, <4>1, GreatestNumber
    <3>2. now < WriteValidUntil(s, n)
      <4>1. SUFFICES ASSUME ~ now < WriteValidUntil(s, n) PROVE FALSE
        OBVIOUS
      <4>2. n \in Nat /\ Last \in Nat /\ n < Last
        BY <2>4, <2>6, <2>8, <4>1
      <4>3. n + 1 \in days
        BY <2>3, <2>4, <2>6, <4>2, NoDayMissing
      <4>4. ValidFrom(s, n + 1) = WriteValidUntil(s, n)
        BY <2>1, <2>2, <2>3, <4>3, NextDay
      <4>5. n + 1 \in begun
        BY <2>1, <2>7, <4>1, <4>3, <4>4
      <4>. QED  BY <3>1, <4>2, <4>5
    <3>3. n \in writable
      BY <2>1, <2>2, <2>3, <3>1, <3>2, WritesOfDay
    <3>4. ASSUME NEW d \in writable, d # n PROVE FALSE
      <4>1. /\ d \in days /\ d \in Nat /\ n \in days /\ n \in Nat
            /\ ValidFrom(s, d) <= now /\ now < WriteValidUntil(s, d)
        BY <2>1, <2>2, <2>3, <2>4, <3>4, WritesOfDay
      <4>2. CASE d < n
        <5>1. WriteValidUntil(s, d) <= ValidFrom(s, n)
          BY <2>1, <2>2, <2>3, <4>1, <4>2, DaysApart
        <5>. QED  BY <2>1, <2>7, <3>1, <4>1, <5>1
      <4>3. CASE n < d
        <5>1. WriteValidUntil(s, n) <= ValidFrom(s, d)
          BY <2>1, <2>2, <2>3, <4>1, <4>3, DaysApart
        <5>. QED  BY <2>1, <2>7, <3>2, <4>1, <5>1
      <4>. QED  BY <3>4, <4>1, <4>2, <4>3
    <3>5. writable = {n}
      BY <3>3, <3>4
    <3> HIDE DEF writable
    <3>. QED  BY <3>5, FS_Singleton
  <2>. QED  BY <2>8 DEF s, days, First, Last
<1>2. DeliveryInv => OneMailboxPerMoment
  BY <1>1 DEF OneMailboxPerMoment
<1>. QED  BY <1>2, DeliveryInvariant, PTL
=============================================================================
