-------------------------- MODULE MlsGroupSession ---------------------------
(***************************************************************************)
(* The one-shot sessions of a device in a group                            *)
(* (src/src/mls/MlsGroupSession.ts), from the join packages they start     *)
(* with to what the application stores of them.  A session holds one       *)
(* ratchet state for good; an operation consumes it and returns the        *)
(* session of the state after.                                             *)
(*                                                                         *)
(* A ratchet state is its history, the numbers of the transitions that led *)
(* to it, so that two states made of one are told apart.  The commitment   *)
(* of a state is the state (SHA-256 of its encoding).  ts-mls and the      *)
(* credential verifier accept or refuse.                                   *)
(*                                                                         *)
(* The application is docs/mls-key-lifecycle.md: it writes the protected   *)
(* session and, in the control checkpoint it trusts, the epoch and the     *)
(* commitment, and lets a frame or a plaintext out once both hold it.  The *)
(* two writes come here in any order with a crash between them, and every  *)
(* snapshot ever written can come back.                                    *)
(***************************************************************************)
EXTENDS MlsJoinPackage, Sequences, SequencesExt, FiniteSets

CONSTANTS
    Handles,    \* the session objects a process can hold
    MaxMembers, \* MAX_GROUP_MEMBERS
    MaxBorn     \* bound: ratchet states made

ASSUME MemberAssumption ==
    /\ MaxMembers \in Nat
    /\ MaxMembers >= 2
    /\ MaxBorn \in Nat

VARIABLES
    born,       \* how many ratchet states were made
    sessions,   \* the objects in memory, None in a free slot
    snapshots,  \* every protected session ever stored
    checkpoint, \* the state whose epoch and commitment are trusted, or None
    released,   \* the transitions that left the device
    origin      \* per transition that began a history, its package

sessionVars == <<born, sessions, snapshots, checkpoint, released, origin>>
vars == <<packageVars, sessionVars>>

Operations ==
    {"add", "remove", "refresh", "applyCommit", "encrypt", "decrypt"}

States == [history : Seq(1..MaxBorn), epoch : Nat, members : 1..MaxMembers,
           active : BOOLEAN]

\* `calls` is how many operations await an answer on this object; which they
\* are shows when it comes.  `erased`: the secrets the transition used up are
\* zeros.
Sessions == [state : States, consumed : BOOLEAN, transitioning : BOOLEAN,
             calls : Nat, erased : BOOLEAN]

ASSUME NoneAssumption == None \notin States

\* Everything has its type: no session holds more than MaxMembers members,
\* although whoever sends a welcome may have let in more.
TypeOK ==
    /\ PackageTypeOK
    /\ born \in 0..MaxBorn
    /\ sessions \in [Handles -> Sessions \union {None}]
    /\ snapshots \subseteq States
    /\ checkpoint \in States \union {None}
    /\ released \subseteq 1..born
    /\ origin \in [1..MaxBorn -> Packages \union {None}]

Init ==
    /\ PackageInit
    /\ born = 0
    /\ sessions = [h \in Handles |-> None]
    /\ snapshots = {}
    /\ checkpoint = None
    /\ released = {}
    /\ origin = [n \in 1..MaxBorn |-> None]

----------------------------------------------------------------------------
(* The states an operation may lead to, besides failing *)

Advanced(state) ==
    [state EXCEPT !.history = Append(@, born + 1), !.epoch = @ + 1]

Ratcheted(state) == [state EXCEPT !.history = Append(@, born + 1)]

\* addMembers: as many packages as there is room, each verified.
AddMembers(state) ==
    {[Advanced(state) EXCEPT !.members = @ + n] :
        n \in 1..(MaxMembers - state.members)}

\* removeMembers: each identity named is found, and none is ours.
RemoveMembers(state) ==
    {[Advanced(state) EXCEPT !.members = @ - n] : n \in 1..(state.members - 1)}

\* refresh
Refresh(state) == {Advanced(state)}

\* acceptsMlsMemberCount, on what the commit adds (external joins included)
\* and removes.
AcceptsMemberCount(state, added, removed) ==
    state.members + added - removed <= MaxMembers

\* applyCommit: of another member; it may remove us.
ApplyCommit(state) ==
    LET Counts == {c \in (0..MaxMembers) \X (0..(state.members - 1)) :
                      AcceptsMemberCount(state, c[1], c[2])}
        After(c, active) ==
            [Advanced(state) EXCEPT !.members = @ + c[1] - c[2],
                                    !.active = active]
    IN  {After(c, TRUE) : c \in Counts}
            \union {After(c, FALSE) : c \in {d \in Counts : d[2] > 0}}

\* encrypt
Encrypt(state) == {Ratcheted(state)}

\* decrypt
Decrypt(state) == {Ratcheted(state)}

\* A state that is no longer in the group allows nothing.
Successors(operation, state) ==
    IF ~ state.active THEN {}
    ELSE CASE operation = "add" -> AddMembers(state)
           [] operation = "remove" -> RemoveMembers(state)
           [] operation = "refresh" -> Refresh(state)
           [] operation = "applyCommit" -> ApplyCommit(state)
           [] operation = "encrypt" -> Encrypt(state)
           [] operation = "decrypt" -> Decrypt(state)

----------------------------------------------------------------------------
(* Sessions *)

\* Mutant of Constructible: the members are not counted again.
ConstructibleOfAny(state) == TRUE

\* The constructor refuses a state with too many members, before anything of
\* the call that makes it is settled.
Constructible(state) == state.members <= MaxMembers

\* The session it makes otherwise.
NewSession(state) ==
    [state |-> state, consumed |-> FALSE, transitioning |-> FALSE,
     calls |-> 0, erased |-> FALSE]

\* ensureAvailable
Available(session) == ~ session.consumed /\ ~ session.transitioning

\* A new object takes a free slot; which one does not matter.
Free(h) ==
    /\ sessions[h] = None
    /\ h = CHOOSE i \in Handles : sessions[i] = None

\* transition: the check and the flag, up to the first await.
Begin(h) ==
    /\ sessions[h] # None
    /\ Available(sessions[h])
    /\ sessions' = [sessions EXCEPT ![h].transitioning = TRUE,
                                    ![h].calls = @ + 1]
    /\ UNCHANGED <<packageVars, born, snapshots, checkpoint, released, origin>>

\* Mutant: the session is not marked consumed.
SettledReusable(session) ==
    [session EXCEPT !.erased = TRUE, !.transitioning = FALSE,
                    !.calls = @ - 1]

\* transition: the operation answered.
Settled(session) ==
    [session EXCEPT !.consumed = TRUE, !.erased = TRUE,
                    !.transitioning = FALSE, !.calls = @ - 1]

\* Mutants: the secrets are erased as soon as the answer is there; only an
\* operation that succeeded resets the flag.
ReleasedErased(session) ==
    [session EXCEPT !.transitioning = FALSE, !.calls = @ - 1,
                    !.erased = TRUE]

ReleasedBusy(session) ==
    [session EXCEPT !.calls = @ - 1]

\* transition: the operation threw, at any point of it.
Released(session) ==
    [session EXCEPT !.transitioning = FALSE, !.calls = @ - 1]

Succeed(h, h2, operation) ==
    /\ sessions[h] # None
    /\ sessions[h].calls > 0
    /\ Free(h2)
    /\ born < MaxBorn
    /\ \E state \in Successors(operation, sessions[h].state) :
        /\ Constructible(state)
        /\ sessions' = [sessions EXCEPT ![h] = Settled(@),
                                        ![h2] = NewSession(state)]
    /\ born' = born + 1
    /\ UNCHANGED <<packageVars, snapshots, checkpoint, released, origin>>

Fail(h) ==
    /\ sessions[h] # None
    /\ sessions[h].calls > 0
    /\ sessions' = [sessions EXCEPT ![h] = Released(@)]
    /\ UNCHANGED <<packageVars, born, snapshots, checkpoint, released, origin>>

\* The application keeps no reference to a consumed session for ever.
Forget(h) ==
    /\ sessions[h] # None
    /\ sessions[h].consumed
    /\ sessions[h].calls = 0
    /\ sessions' = [sessions EXCEPT ![h] = None]
    /\ UNCHANGED <<packageVars, born, snapshots, checkpoint, released, origin>>

----------------------------------------------------------------------------
(* Starting from a package *)

UseStart(p) ==
    /\ packages[p] # None
    /\ Unused(packages[p])
    /\ packages' = [packages EXCEPT ![p] = Taken(@)]
    /\ UNCHANGED <<identity, making, blobs, trusted, sessionVars>>

Founded == {[history |-> <<born + 1>>, epoch |-> 0, members |-> 1,
             active |-> TRUE]}

\* The group a welcome is for may have more members than this device takes:
\* nothing but the constructor counts them, and one too many stands for all.
Joined == {[history |-> <<born + 1>>, epoch |-> 1, members |-> n,
            active |-> TRUE] : n \in 2..(MaxMembers + 1)}

\* The use of a package hands its clone over to a new session; a clone
\* taken of zeros joins nothing.
Start(p, h, Made) ==
    /\ packages[p] # None
    /\ packages[p].inUse
    /\ packages[p].copy = "live"
    /\ Free(h)
    /\ born < MaxBorn
    /\ \E state \in Made :
        /\ Constructible(state)
        /\ sessions' = [sessions EXCEPT ![h] = NewSession(state)]
    /\ packages' = [packages EXCEPT ![p] = Spent(@)]
    /\ born' = born + 1
    /\ origin' = [origin EXCEPT ![born + 1] = p]
    /\ UNCHANGED <<identity, making, blobs, trusted,
                   snapshots, checkpoint, released>>

Create(p, h) == Start(p, h, Founded)

Join(p, h) == Start(p, h, Joined)

UseFail(p) ==
    /\ packages[p] # None
    /\ packages[p].inUse
    /\ packages' = [packages EXCEPT ![p] = GivenBack(@)]
    /\ UNCHANGED <<identity, making, blobs, trusted, sessionVars>>

----------------------------------------------------------------------------
(* What the application stores *)

SameGroup(a, b) == Head(a.history) = Head(b.history)

\* protectState(), stored.
StoreSnapshot(h) ==
    /\ sessions[h] # None
    /\ Available(sessions[h])
    /\ snapshots' = snapshots \union {sessions[h].state}
    /\ UNCHANGED <<packageVars, born, sessions, checkpoint, released, origin>>

\* epoch and stateCommitment, into the trusted checkpoint of the group; with
\* the first of them the package becomes a tombstone.
StoreCheckpoint(h) ==
    /\ sessions[h] # None
    /\ Available(sessions[h])
    /\ LET state == sessions[h].state
           p == origin[Head(state.history)]
       IN  /\ checkpoint # None => SameGroup(state, checkpoint)
           /\ checkpoint' = state
           /\ trusted' = [trusted EXCEPT ![p] = "tombstone"]
    /\ UNCHANGED <<identity, making, packages, blobs,
                   born, sessions, snapshots, released, origin>>

\* The frame or plaintext of a transition is let out once it is durable.
Release ==
    /\ checkpoint # None
    /\ checkpoint \in snapshots
    /\ \E i \in DOMAIN checkpoint.history :
        released' = released \union {checkpoint.history[i]}
    /\ UNCHANGED <<packageVars, born, sessions, snapshots, checkpoint, origin>>

\* Mutant: the epoch alone is compared.
RestoresByEpoch(state) ==
    /\ checkpoint # None
    /\ state.epoch = checkpoint.epoch

\* restore: epoch and commitment are the trusted ones.
Restores(state) ==
    /\ checkpoint # None
    /\ state.epoch = checkpoint.epoch
    /\ state = checkpoint

\* The application restores at its start, from whatever snapshot it is given.
Restore(state, h) ==
    /\ state \in snapshots
    /\ Restores(state)
    /\ Constructible(state)
    /\ \A other \in Handles : sessions[other] = None
    /\ Free(h)
    /\ sessions' = [sessions EXCEPT ![h] = NewSession(state)]
    /\ UNCHANGED <<packageVars, born, snapshots, checkpoint, released, origin>>

Crash ==
    /\ PackageCrash
    /\ sessions' = [h \in Handles |-> None]
    /\ UNCHANGED <<born, snapshots, checkpoint, released, origin>>

Next ==
    \/ PackageStep /\ UNCHANGED sessionVars
    \/ \E p \in Packages :
        \/ UseStart(p)
        \/ UseFail(p)
        \/ \E h \in Handles : Create(p, h) \/ Join(p, h)
    \/ \E h \in Handles :
        \/ Begin(h)
        \/ Fail(h)
        \/ \E h2 \in Handles, operation \in Operations :
               Succeed(h, h2, operation)
        \/ Forget(h)
        \/ StoreSnapshot(h)
        \/ StoreCheckpoint(h)
        \/ \E state \in snapshots : Restore(state, h)
    \/ Release
    \/ Crash

\* What ts-mls and the credential verifier are asked, they answer.
Fairness ==
    \A h \in Handles : WF_vars(
        \/ Fail(h)
        \/ \E h2 \in Handles, operation \in Operations :
               Succeed(h, h2, operation))

Spec == Init /\ [][Next]_vars /\ Fairness

----------------------------------------------------------------------------
(* Properties *)

Usable(h) == sessions[h] # None /\ ~ sessions[h].consumed

\* What the device holds: the histories it may go on from.
Held == {sessions[h].state.history : h \in {i \in Handles : Usable(i)}}
Durable == IF checkpoint = None THEN << >> ELSE checkpoint.history

\* No session that can still be used is behind the trusted checkpoint of its
\* group or beside it: neither a consumed session, nor the overlap of two
\* operations, nor an older snapshot of the same epoch brings back a ratchet
\* whose keys have been used (ensureAvailable, restore).
NeverBehind ==
    \A history \in Held :
        checkpoint # None /\ Head(history) = Head(Durable)
            => IsPrefix(Durable, history)

\* Two sessions made from one package are never both there to go on from,
\* the trusted checkpoint included, although a crash between a join and the
\* writes that adopt it lets the package be restored and used again
\* (MLS_JOIN_PACKAGE_USE, MlsJoinPackage.restore).
PackageStartsOneHistory ==
    \A a, b \in Held \union ({Durable} \ {<< >>}) :
        origin[Head(a)] = origin[Head(b)] => Head(a) = Head(b)

\* Key bytes stay exactly as long as they are needed, whichever of a use and
\* a destroy() ends first: a package not consumed has all its keys, a
\* consumed one has none and, once no use is in flight, neither has the
\* clone of a failed use (MLS_JOIN_PACKAGE_USE, destroy).
KeysWhileNeeded ==
    \A p \in Packages : packages[p] # None =>
        /\ packages[p].keys = (IF packages[p].consumed THEN "zero" ELSE "live")
        /\ packages[p].inUse <=> packages[p].copy = "live"

\* An operation that fails has not touched the secrets its session shares
\* with the state it computed: as long as the session is not consumed it can
\* be tried again (transition, eraseConsumed).
UsableKeepsSecrets ==
    \A h \in Handles : Usable(h) => ~ sessions[h].erased

\* Whatever crashes, the device has one history and lets out nothing beside
\* it.
Lineage == INSTANCE MlsSessionLineage WITH history <- Durable,
                                           released <- released
OneHistory == Lineage!Spec

\* An operation ends, and leaves its session consumed or free for the next.
TransitionEnds ==
    \A h \in Handles :
        (sessions[h] # None /\ sessions[h].transitioning)
            ~> (sessions[h] = None \/ ~ sessions[h].transitioning)
=============================================================================
