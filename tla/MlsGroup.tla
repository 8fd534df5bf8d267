------------------------------ MODULE MlsGroup ------------------------------
(***************************************************************************)
(* One MLS group as one device sees it (src/src/mls/MlsGroup.ts with       *)
(* internal/MlsGroupRules.ts).  An untrusted node serves published commits *)
(* in any order, any number of times; the device takes them, switches to a *)
(* rival that wins an epoch, steps back while roster operations are        *)
(* withheld from it, makes commits of its own, sends, and restarts.        *)
(*                                                                         *)
(* What is abstracted:                                                     *)
(*   - The commits that can ever exist are the constant catalogue Commits. *)
(*     A commit is its record id, a positive number, so "the lower id" is  *)
(*     a comparison; Root stands for the commit (or welcome) the group     *)
(*     started from.  Commits form a tree: a commit can only be processed  *)
(*     by a state in the very epoch it was made in, its parent.            *)
(*   - ts-mls's ClientState is [tip, gen, read]: the commit that led to    *)
(*     its epoch, how many messages its owner's sending ratchet has keyed, *)
(*     and the messages whose keys it has used up and deleted.             *)
(*     Two states are in the same epoch of the same branch when their tips *)
(*     agree (sameEpoch compares epoch authenticators).                    *)
(*   - A frontier is the set of roster operations it covers.  The device   *)
(*     has verified `roster`, which is what policy.frontier() names.       *)
(*   - The membership policy is the application's: constant operators.     *)
(*     The change a commit makes is named by the commit.                   *)
(*   - Each identity is one device, so identity and device go together.    *)
(*                                                                         *)
(* Public methods that await are split where another call can run: what    *)
(* they read before the await is kept in `calls`.  Nothing in the class    *)
(* keeps two calls apart; Serial says whether its caller does.             *)
(***************************************************************************)
EXTENDS Integers

CONSTANTS
    Me,                 \* the identity of this device
    Members,            \* every identity that may commit or be added
    Ops,                \* the roster operations
    Commits,            \* every commit that may be published, by record id
    Commit,             \* what each commit holds
    Broken,             \* commits whose update path does not verify, or whose
                        \* committer the new tree does not keep
    EpochOf,            \* the epoch of the state each commit leads to
    Messages,           \* application messages of other members
    MessageTip,         \* the state each was sent in
    StartFrontier,      \* the frontier bound at create, join or restore
    Retained,           \* RETAINED_EPOCHS
    Calls,              \* slots for calls in flight
    Serial,             \* whether the caller awaits each call first
    None                \* JavaScript's undefined

CONSTANTS               \* the MlsMembershipPolicy
    Admits(_, _),       \* Admits(identity, frontier)
    Allows(_, _, _),    \* Allows(commit, baseline, frontier)
    Reach(_),           \* Reach(frontier)
    Priority(_),        \* Priority(commit)
    Withheld(_, _, _)   \* Withheld(committer, frontier, roster)

CONSTANTS               \* bounds of the checked instances
    MaxGeneration,      \* messages sent in one epoch's state
    MaxRestarts         \* restarts of the application

Root == 0
Tips == Commits \cup {Root}

CommitContents ==
    [parent : Tips, committer : Members, added : SUBSET Members,
     removed : SUBSET Members, frontier : SUBSET Ops]

ASSUME CatalogueAssumption ==
    /\ Commits \subseteq Nat \ {Root}
    /\ Commit \in [Commits -> CommitContents]
    /\ Broken \subseteq Commits
    /\ EpochOf \in [Tips -> Nat]
    /\ \A c \in Commits : EpochOf[c] = EpochOf[Commit[c].parent] + 1
    /\ \A c \in Commits : Commit[c].committer \notin Commit[c].removed

ASSUME ParameterAssumption ==
    /\ MessageTip \in [Messages -> Tips]
    /\ StartFrontier \in SUBSET Ops
    /\ Retained \in Nat \ {0}
    /\ Serial \in BOOLEAN
    /\ MaxGeneration \in Nat
    /\ MaxRestarts \in Nat

ASSUME PolicyAssumption ==
    /\ \A frontier \in SUBSET Ops : Reach(frontier) \in Nat
    /\ \A c \in Commits : Priority(c) \in Nat

VARIABLES
    state,      \* the ClientState in use
    removed,    \* whether this device was removed
    bound,      \* the frontier the last commit or welcome bound
    pending,    \* the commit made and not yet confirmed, or None
    applied,    \* the commits taken, by the epoch they left
    witnesses,  \* commits that bound operations not verified here
    resumable,  \* the states left by stepping back
    roster,     \* the roster operations this device has verified
    made,       \* this device's own commits, made so far
    calls,      \* the calls in flight, None in a free slot
    sent,       \* <<tip, generation>> keys used to send
    reused,     \* those of them used more than once
    opened,     \* messages this device has opened
    reopened,   \* those of them opened more than once
    restarts    \* restarts so far

groupVars == <<state, removed, bound, pending, applied, witnesses, resumable>>
traceVars == <<sent, reused, opened, reopened, restarts>>
vars == <<groupVars, roster, made, calls, traceVars>>

----------------------------------------------------------------------------
(* Data *)

ClientStates == [tip : Tips, gen : Nat, read : SUBSET Messages]
AppliedEpochs ==
    [commit : Commits, before : ClientStates \cup {None}, baseline : SUBSET Ops]
PendingCommits ==
    [commit : Commits, before : ClientStates, state : ClientStates]

\* Calls between their first step and their last.  `from` and `baseline` are
\* what applyCommit passed to advance; `rival` is the commit it competes
\* with, Root when the commit is for the current epoch.  The others keep the
\* state they read before they awaited.
ApplyCalls ==
    [op : {"applyCommit"}, commit : Commits, from : ClientStates,
     baseline : SUBSET Ops, rival : Tips,
     verdict : {"unjudged", "accept", "reject"}]
CommitCalls == [op : {"commit"}, commit : Commits, from : ClientStates]
EncryptCalls == [op : {"encrypt"}, from : ClientStates]
OpenCalls == [op : {"open"}, message : Messages, from : ClientStates]
CallStates == ApplyCalls \cup CommitCalls \cup EncryptCalls \cup OpenCalls

ASSUME NoneAssumption ==
    None \notin ClientStates \cup PendingCommits \cup CallStates

\* The state a commit leads to from s: a new ratchet to send with, and the
\* receiver data of s for the epochs left.
StateAfter(s, c) == [tip |-> c, gen |-> 0, read |-> s.read]

FrontierAt(tip) == IF tip = Root THEN StartFrontier ELSE Commit[tip].frontier
Epoch(s) == EpochOf[s.tip]
RecordEpoch(c) == EpochOf[Commit[c].parent]
SameEpoch(s, t) == s.tip = t.tip

Own(c) == Commit[c].committer = Me
Adds(c) == Commit[c].added # {}

\* The state a commit leads to is inactive once the commit removed this leaf.
Expelled(tip) == tip # Root /\ Me \in Commit[tip].removed

\* A set of tips that holds the parent of each commit in it.
ParentClosed(tips) == \A c \in tips \cap Commits : Commit[c].parent \in tips

\* The tips from the start of the group to each tip: the least such set.
Branch ==
    [tip \in Tips |->
        {t \in Tips : \A tips \in SUBSET Tips :
                        tip \in tips /\ ParentClosed(tips) => t \in tips}]

\* ts-mls keeps the receiver data of the Retained epochs before the one in
\* use, and deletes a message's key when it opens it.
Openable(m, s) ==
    /\ MessageTip[m] \in Branch[s.tip]
    /\ EpochOf[s.tip] - EpochOf[MessageTip[m]] <= Retained
    /\ m \notin s.read

\* What processPrivateMessage can take: a commit of this epoch and branch by
\* another member.  It throws on anything else, before or after the judgement,
\* and a throw leaves the group as it was: a device's own commit binds
\* operations it verified, so judging it never makes a witness either.
Readable(c, s) == s.tip = Commit[c].parent /\ ~ Own(c)

----------------------------------------------------------------------------
(* Judging a commit *)

\* The roster at `frontier` admits every identity the change adds and lets
\* its committer make it, stepping from `baseline`.
Permits(c, frontier, baseline) ==
    /\ \A id \in Commit[c].added : Admits(id, frontier)
    /\ Allows(c, baseline, frontier)

\* The latest roster this device verified still allows the commit.
Stands(c) == Permits(c, roster, roster)

\* Mutants of Wins: ties go to both; the roster verified here is not asked.
WinsOnTies(c, d) ==
    LET reach(x) == Reach(Commit[x].frontier) IN
    \/ Stands(c) /\ ~ Stands(d)
    \/ /\ Stands(c) <=> Stands(d)
       /\ \/ reach(c) > reach(d)
          \/ reach(c) = reach(d) /\ Priority(c) >= Priority(d)

WinsByReachAlone(c, d) ==
    LET reach(x) == Reach(Commit[x].frontier) IN
    \/ reach(c) > reach(d)
    \/ /\ reach(c) = reach(d)
       /\ \/ Priority(c) > Priority(d)
          \/ Priority(c) = Priority(d) /\ c < d

\* Whether c wins its epoch over d, which the group took: by standing, then
\* by reach, then by priority, then by the lower id.
Wins(c, d) ==
    LET reach(x) == Reach(Commit[x].frontier) IN
    \/ Stands(c) /\ ~ Stands(d)
    \/ /\ Stands(c) <=> Stands(d)
       /\ \/ reach(c) > reach(d)
          \/ /\ reach(c) = reach(d)
             /\ \/ Priority(c) > Priority(d)
                \/ Priority(c) = Priority(d) /\ c < d

\* Mutant of Acceptable: a rival is asked only to win.
AcceptableUnlessRival(call) ==
    IF call.rival # Root THEN Wins(call.commit, call.rival)
    ELSE Permits(call.commit, Commit[call.commit].frontier, call.baseline)

\* The roster the commit of an applyCommit call binds permits it, and it wins
\* its epoch over the rival taken for it.
Acceptable(call) ==
    /\ Permits(call.commit, Commit[call.commit].frontier, call.baseline)
    /\ call.rival # Root => Wins(call.commit, call.rival)

IsWithheld(c) == Withheld(Commit[c].committer, Commit[c].frontier, roster)
WaitingOn(ws) == \E c \in ws : IsWithheld(c)

\* Whether the group waits for roster operations (get waiting).
Waiting == WaitingOn(witnesses)

\* What applyCommit answers before it awaits anything: the two last lead to
\* `advance`, the others leave the group as it was.
Answer(c) ==
    LET epoch == RecordEpoch(c) IN
    CASE removed -> "removed"
      [] ~ removed /\ epoch > Epoch(state) -> "gap"
      [] ~ removed /\ epoch \in DOMAIN applied /\ applied[epoch].commit = c
            -> "duplicate"
      [] OTHER ->
            IF epoch = Epoch(state) THEN "advance"
            ELSE IF epoch \notin DOMAIN applied THEN "stale"
            ELSE IF applied[epoch].before = None THEN "stale"
            ELSE "replace"

----------------------------------------------------------------------------
(* Taking commits and stepping back *)

\* Mutant of Take: the state before a commit is kept one epoch too long.
TakeKeepingOneMore(held, epoch, taken) ==
    [e \in DOMAIN held \cup {epoch} |->
        IF e = epoch THEN taken
        ELSE IF e < epoch - Retained THEN [held[e] EXCEPT !.before = None]
        ELSE held[e]]

\* `held` with the commit taken for `epoch`, without the state before every
\* commit more than Retained epochs behind the epoch it leads to.
Take(held, epoch, taken) ==
    [e \in DOMAIN held \cup {epoch} |->
        IF e = epoch THEN taken
        ELSE IF e < epoch + 1 - Retained THEN [held[e] EXCEPT !.before = None]
        ELSE held[e]]

\* Mutant of UpTo: a switch leaves the commits after the rival it drops.
UpToAndLater(held, epoch) == held

UpTo(held, epoch) == [e \in {x \in DOMAIN held : x <= epoch} |-> held[e]]
Before(held, epoch) == [e \in {x \in DOMAIN held : x < epoch} |-> held[e]]

\* Mutants of Resumed: a state left is never resumed; nothing else is entered.
ResumedNever(s) == {s}
ResumedOnly(s) ==
    LET matches == {left \in resumable : SameEpoch(left, s)}
    IN  IF matches = {} THEN {None} ELSE matches

\* The states `resume` may return for a state entered: the one left in that
\* very epoch, else the state itself.
Resumed(s) ==
    LET matches == {left \in resumable : SameEpoch(left, s)}
    IN  IF matches = {} THEN {s} ELSE matches

\* The states still worth resuming once the group is in the epoch of s.
Ahead(s) == {left \in resumable : Epoch(left) > Epoch(s)}

\* Mutants of Suspect: adds taken in the epoch of the witness itself are left
\* out; commits of this device are not spared.
SuspectAfterWitness ==
    {e \in DOMAIN applied :
        /\ Adds(applied[e].commit)
        /\ \/ e >= Epoch(state)
           \/ \E w \in witnesses : IsWithheld(w) /\ RecordEpoch(w) < e
        /\ \A x \in DOMAIN applied : Own(applied[x].commit) => x < e}

SuspectBeforeOwn ==
    {e \in DOMAIN applied :
        /\ Adds(applied[e].commit)
        /\ \/ e >= Epoch(state)
           \/ \E w \in witnesses : IsWithheld(w) /\ RecordEpoch(w) <= e}

\* The epochs of the adds to step back from: in or after the epoch of a
\* withheld witness (or the current one), after this device's last commit.
Suspect ==
    {e \in DOMAIN applied :
        /\ Adds(applied[e].commit)
        /\ \/ e >= Epoch(state)
           \/ \E w \in witnesses : IsWithheld(w) /\ RecordEpoch(w) <= e
        /\ \A x \in DOMAIN applied : Own(applied[x].commit) => x < e}

\* The state before the first of them and before every later commit is kept.
\* `defined(before)` would throw on one that was dropped; SuspectsKept says
\* that never happens to a caller that awaits its calls.
StepsBackTo(from) ==
    /\ \A e \in Suspect : from <= e
    /\ \A e \in DOMAIN applied : e >= from => applied[e].before # None

StepBack ==
    \/ \E from \in Suspect :
        /\ StepsBackTo(from)
        /\ resumable' = resumable \cup {state} \cup
                {applied[e].before : e \in {x \in DOMAIN applied : x > from}}
        /\ state' = applied[from].before
        /\ bound' = applied[from].baseline
        /\ applied' = Before(applied, from)
    \/ /\ \A from \in Suspect : ~ StepsBackTo(from)
       /\ UNCHANGED <<resumable, state, bound, applied>>

\* Mutant of Adopt: the commits kept for the operations they proved stay.
AdoptKeepingWitnesses(c) == bound' = Commit[c].frontier /\ UNCHANGED witnesses

\* Once a commit is taken the group waits for nothing and binds its frontier.
Adopt(c) == bound' = Commit[c].frontier /\ witnesses' = {}

----------------------------------------------------------------------------
(* Calls *)

Idle == \A k \in Calls : calls[k] = None

\* A caller that awaits each call starts nothing while one is in flight.
MayCall == Serial => Idle

Start(k, call) ==
    /\ MayCall
    /\ calls[k] = None
    /\ calls' = [calls EXCEPT ![k] = call]

End(k) == calls' = [calls EXCEPT ![k] = None]

Running(k, op) == calls[k] # None /\ calls[k].op = op

----------------------------------------------------------------------------
(* create, join or restore *)

Init ==
    /\ state = [tip |-> Root, gen |-> 0, read |-> {}]
    /\ removed = FALSE
    /\ bound = StartFrontier
    /\ pending = None
    /\ applied = [e \in {} |-> None]
    /\ witnesses = {}
    /\ resumable = {}
    /\ roster = StartFrontier
    /\ made = {}
    /\ calls = [k \in Calls |-> None]
    /\ sent = {}
    /\ reused = {}
    /\ opened = {}
    /\ reopened = {}
    /\ restarts = 0

\* The application verifies one more roster operation, whatever the group does.
VerifyRoster(op) ==
    /\ op \notin roster
    /\ roster' = roster \cup {op}
    /\ UNCHANGED <<groupVars, made, calls, traceVars>>

\* applyCommit(record) for the current epoch: advance from the current state.
ApplyNext(k, c) ==
    /\ Answer(c) = "advance"
    /\ Readable(c, state)
    /\ Start(k, [op |-> "applyCommit", commit |-> c, from |-> state,
                 baseline |-> bound, rival |-> Root, verdict |-> "unjudged"])
    /\ UNCHANGED <<groupVars, roster, made, traceVars>>

\* applyCommit(record) for an epoch already left: replace, from the state
\* before the commit taken for that epoch.
ApplyRival(k, c) ==
    /\ Answer(c) = "replace"
    /\ LET previous == applied[RecordEpoch(c)] IN
       /\ Readable(c, previous.before)
       /\ Start(k, [op |-> "applyCommit", commit |-> c,
                    from |-> previous.before, baseline |-> previous.baseline,
                    rival |-> previous.commit, verdict |-> "unjudged"])
    /\ UNCHANGED <<groupVars, roster, made, traceVars>>

\* The judgement in the middle of processPrivateMessage: keep a commit that
\* proves operations not verified here, then accept it only when the group
\* does not wait, the roster permits it and it wins its epoch.
Judge(k) ==
    /\ Running(k, "applyCommit")
    /\ calls[k].verdict = "unjudged"
    /\ LET c == calls[k].commit IN
       /\ witnesses' = IF IsWithheld(c) THEN witnesses \cup {c} ELSE witnesses
       /\ calls' = [calls EXCEPT ![k].verdict =
                        IF ~ WaitingOn(witnesses') /\ Acceptable(calls[k])
                        THEN "accept" ELSE "reject"]
    /\ UNCHANGED <<state, removed, bound, pending, applied, resumable,
                   roster, made, traceVars>>

\* The group waits: it takes nothing and steps back from adds.
FinishWaiting(k) ==
    /\ Running(k, "applyCommit")
    /\ calls[k].verdict # "unjudged"
    /\ Waiting
    /\ StepBack
    /\ End(k)
    /\ UNCHANGED <<removed, pending, witnesses, roster, made, traceVars>>

\* The commit was refused, or lost the race, or its update path does not
\* verify: it leaves the group as it was.  That the new tree does not keep the
\* committer is found out last, and in a wait not at all (FinishWaiting).
FinishRejected(k) ==
    /\ Running(k, "applyCommit")
    /\ \/ calls[k].verdict = "reject" /\ ~ Waiting
       \/ calls[k].verdict = "accept" /\ calls[k].commit \in Broken
    /\ End(k)
    /\ UNCHANGED <<groupVars, roster, made, traceVars>>

\* The commit is taken.  replace drops the epochs after the one it won,
\* unless the commit removed this device.
FinishTaken(k) ==
    /\ Running(k, "applyCommit")
    /\ calls[k].verdict = "accept"
    /\ calls[k].commit \notin Broken
    /\ ~ Waiting
    /\ LET c == calls[k].commit
           epoch == RecordEpoch(c)
           next == StateAfter(calls[k].from, c)
           taken == Take(applied, epoch,
                         [commit |-> c, before |-> calls[k].from,
                          baseline |-> calls[k].baseline])
       IN  /\ Adopt(c)
           /\ applied' = IF calls[k].rival # Root /\ ~ Expelled(c)
                         THEN UpTo(taken, epoch) ELSE taken
           /\ state' \in Resumed(next)
           /\ resumable' = Ahead(next)
           /\ removed' = (removed \/ Expelled(c))
    /\ End(k)
    /\ UNCHANGED <<pending, roster, made, traceVars>>

----------------------------------------------------------------------------
(* Commits of this device *)

\* add, changeContext, removeIdentities, removeDevices and update: checked,
\* then built from the state in use.
CommitStart(k, c) ==
    /\ ~ removed
    /\ ~ Waiting
    /\ Own(c)
    /\ c \notin made
    /\ \A l \in Calls : ~ (Running(l, "commit") /\ calls[l].commit = c)
    /\ Commit[c].parent = state.tip
    /\ Commit[c].frontier = roster
    /\ Permits(c, roster, bound)
    /\ Start(k, [op |-> "commit", commit |-> c, from |-> state])
    /\ UNCHANGED <<groupVars, roster, made, traceVars>>

\* The commit built is pending, before the state in use by then, in place of
\* an earlier one.
CommitFinish(k) ==
    /\ Running(k, "commit")
    /\ pending' = [commit |-> calls[k].commit, before |-> state,
                   state |-> StateAfter(calls[k].from, calls[k].commit)]
    /\ made' = made \cup {calls[k].commit}
    /\ End(k)
    /\ UNCHANGED <<state, removed, bound, applied, witnesses, resumable,
                   roster, traceVars>>

\* Mutant of Confirm: where the group is by now is not asked.
ConfirmAnywhere ==
    /\ MayCall
    /\ pending # None
    /\ applied' = Take(applied, Epoch(pending.before),
                       [commit |-> pending.commit, before |-> pending.before,
                        baseline |-> bound])
    /\ state' = pending.state
    /\ Adopt(pending.commit)
    /\ pending' = None
    /\ UNCHANGED <<removed, resumable, roster, made, calls, traceVars>>

\* confirm: the node accepted the commit and the group is still where it
\* was made.
Confirm ==
    /\ MayCall
    /\ pending # None
    /\ SameEpoch(state, pending.before)
    /\ applied' = Take(applied, Epoch(pending.before),
                       [commit |-> pending.commit, before |-> pending.before,
                        baseline |-> bound])
    /\ state' = pending.state
    /\ Adopt(pending.commit)
    /\ pending' = None
    /\ UNCHANGED <<removed, resumable, roster, made, calls, traceVars>>

\* confirm refuses and drops a commit whose epoch the group left; abandon
\* drops any.
Drop ==
    /\ MayCall
    /\ pending # None
    /\ pending' = None
    /\ UNCHANGED <<state, removed, bound, applied, witnesses, resumable,
                   roster, made, calls, traceVars>>

----------------------------------------------------------------------------
(* Messages *)

EncryptStart(k) ==
    /\ ~ removed
    /\ state.gen < MaxGeneration
    /\ Start(k, [op |-> "encrypt", from |-> state])
    /\ UNCHANGED <<groupVars, roster, made, traceVars>>

\* The message is keyed by the state read before the await, and the state
\* after it becomes the state in use.
EncryptFinish(k) ==
    /\ Running(k, "encrypt")
    /\ LET from == calls[k].from
           key == <<from.tip, from.gen>>
       IN  /\ state' = [from EXCEPT !.gen = @ + 1]
           /\ sent' = sent \cup {key}
           /\ reused' = IF key \in sent THEN reused \cup {key} ELSE reused
    /\ End(k)
    /\ UNCHANGED <<removed, bound, pending, applied, witnesses, resumable,
                   roster, made, opened, reopened, restarts>>

\* open and decrypt: the sender is read first, which changes nothing, then
\* the message is opened by the state in use.
OpenStart(k, m) ==
    /\ Openable(m, state)
    /\ Start(k, [op |-> "open", message |-> m, from |-> state])
    /\ UNCHANGED <<groupVars, roster, made, traceVars>>

OpenFinish(k) ==
    /\ Running(k, "open")
    /\ LET m == calls[k].message IN
       /\ state' = [calls[k].from EXCEPT !.read = @ \cup {m}]
       /\ opened' = opened \cup {m}
       /\ reopened' = IF m \in opened THEN reopened \cup {m} ELSE reopened
    /\ End(k)
    /\ UNCHANGED <<removed, bound, pending, applied, witnesses, resumable,
                   roster, made, sent, reused, restarts>>

----------------------------------------------------------------------------
(* Restarting *)

\* The application restores what it stored last: the state in use and its
\* frontier, or the pending ones it kept aside (pendingState) when the node
\* accepted that commit.  Everything else in memory is gone.
Restart ==
    /\ restarts < MaxRestarts
    /\ restarts' = restarts + 1
    /\ \/ /\ UNCHANGED <<state, bound>>
       \/ /\ pending # None
          /\ SameEpoch(state, pending.before)
          /\ state' = pending.state
          /\ bound' = Commit[pending.commit].frontier
    /\ removed' = Expelled(state'.tip)
    /\ pending' = None
    /\ applied' = [e \in {} |-> None]
    /\ witnesses' = {}
    /\ resumable' = {}
    /\ calls' = [k \in Calls |-> None]
    /\ UNCHANGED <<roster, made, sent, reused, opened, reopened>>

----------------------------------------------------------------------------

CallStep(k) ==
    \/ Judge(k)
    \/ FinishWaiting(k)
    \/ FinishRejected(k)
    \/ FinishTaken(k)
    \/ CommitFinish(k)
    \/ EncryptFinish(k)
    \/ OpenFinish(k)

Next ==
    \/ \E op \in Ops : VerifyRoster(op)
    \/ \E k \in Calls :
        \/ \E c \in Commits :
            ApplyNext(k, c) \/ ApplyRival(k, c) \/ CommitStart(k, c)
        \/ \E m \in Messages : OpenStart(k, m)
        \/ EncryptStart(k)
        \/ CallStep(k)
    \/ Confirm
    \/ Drop
    \/ Restart

Spec == Init /\ [][Next]_vars

----------------------------------------------------------------------------
(* Safety *)

\* Every variable keeps its type, also when calls overlap: each rewrite of the
\* group's fields leaves a group the next call can read.
TypeOK ==
    /\ state \in ClientStates
    /\ removed \in BOOLEAN
    /\ bound \in SUBSET Ops
    /\ pending \in PendingCommits \cup {None}
    /\ DOMAIN applied \subseteq Nat
    /\ \A e \in DOMAIN applied : applied[e] \in AppliedEpochs
    /\ witnesses \in SUBSET Commits
    /\ resumable \in SUBSET ClientStates
    /\ roster \in SUBSET Ops
    /\ made \in SUBSET Commits
    /\ calls \in [Calls -> CallStates \cup {None}]
    /\ sent \in SUBSET (Tips \X Nat)
    /\ reused \in SUBSET (Tips \X Nat)
    /\ opened \in SUBSET Messages
    /\ reopened \in SUBSET Messages
    /\ restarts \in Nat

\* The commits taken, by the epoch they left, form one branch that ends at
\* tip; each entry keeps the state and the frontier its epoch started from.
Follows(held, tip) ==
    \A e \in DOMAIN held :
        LET c == held[e].commit IN
        /\ e < EpochOf[tip]
        /\ RecordEpoch(c) = e
        /\ held[e].baseline = FrontierAt(Commit[c].parent)
        /\ held[e].before # None => held[e].before.tip = Commit[c].parent
        /\ e + 1 = EpochOf[tip] => tip = c
        /\ e + 1 < EpochOf[tip] =>
                /\ e + 1 \in DOMAIN held
                /\ Commit[held[e + 1].commit].parent = c

\* The commits taken form one branch that ends at the state in use, and
\* `bound` is the frontier its last commit bound.  Switching, stepping back,
\* confirming and restarting each rewrite several of these.
Lineage ==
    /\ bound = FrontierAt(state.tip)
    /\ ~ removed => Follows(applied, state.tip)

\* The roster c binds permits it, stepping from what its parent had bound.
Permitted(c) == Permits(c, Commit[c].frontier, FrontierAt(Commit[c].parent))

\* Every commit on the branch was allowed where it stands: by the roster it
\* bound, stepping from what the commit before it had bound.
BranchPermitted ==
    ~ removed => \A e \in DOMAIN applied : Permitted(applied[e].commit)

\* Only the Retained latest epochs keep the state before their commit.
OldStatesDropped ==
    \A e \in DOMAIN applied :
        applied[e].before # None => e >= Epoch(state) - Retained

\* Stepping back never needs a state that was dropped.
SuspectsKept ==
    \A w \in witnesses : \A e \in DOMAIN applied :
        RecordEpoch(w) <= e => applied[e].before # None

\* A policy under which verifying more operations never makes a commit wait:
\* what it waits for are operations its committer bound "and this device has
\* not verified yet" (get waiting).
WaitsForMissing ==
    \A m \in Members : \A frontier, verified, more \in SUBSET Ops :
        verified \subseteq more /\ Withheld(m, frontier, more) =>
            Withheld(m, frontier, verified)

\* Between calls, a group that waits has stepped back from every add that
\* may rest on rights the withheld operations revoke: of the adds since the
\* epoch of a withheld witness only those before a commit of this device stay.
NoSuspectWhileWaiting ==
    Idle =>
        \A w \in witnesses : \A e \in DOMAIN applied :
            IsWithheld(w) /\ e >= RecordEpoch(w) /\ Adds(applied[e].commit) =>
                \E x \in DOMAIN applied : x >= e /\ Own(applied[x].commit)

Rivals(c) == {d \in Commits \ {c} : Commit[d].parent = Commit[c].parent}

\* Whatever roster this device has verified, any two rivals of an epoch have
\* one winner, and winning is transitive: devices that saw the same rivals in
\* any order agree on the one that stays.
RivalsTotallyOrdered ==
    \A c \in Commits : \A d \in Rivals(c) :
        /\ Wins(c, d) <=> ~ Wins(d, c)
        /\ \A x \in Rivals(c) \cap Rivals(d) :
                Wins(c, d) /\ Wins(d, x) => Wins(c, x)

\* No sending generation of an epoch is used twice.
GenerationsUsedOnce == reused = {}

\* No message is opened twice: its key is deleted when it is used.
MessagesOpenedOnce == reopened = {}

\* The states left by stepping back are of epochs the group has yet to reach.
LeftStatesAhead == \A left \in resumable : Epoch(left) > Epoch(state)

\* The group has left every epoch it took a commit for.
TakenEpochsLeft == \A e \in DOMAIN applied : e < Epoch(state)

\* Entering again an epoch left by stepping back goes on with the sending
\* generation the device had reached there.
LeftStatesResumed ==
    [][\A left \in resumable :
        state'.tip = left.tip /\ state.tip # left.tip =>
            state'.gen = left.gen]_vars

\* A commit this device made is dropped only for a rival that took its epoch
\* or an earlier one, or by a restart.
OwnCommitsStand ==
    [][\A e \in DOMAIN applied :
        Own(applied[e].commit) =>
            \/ e \in DOMAIN applied' /\ applied'[e].commit = applied[e].commit
            \/ \E x \in DOMAIN applied \cap DOMAIN applied' :
                    x <= e /\ applied'[x].commit # applied[x].commit
            \/ restarts' # restarts
      ]_vars

\* The tip of the part of the branch that nothing can change any more: what
\* is before the first commit whose earlier state is still kept.
SettledTip ==
    LET kept == {e \in DOMAIN applied : applied[e].before # None}
    IN  IF kept = {} THEN state.tip
        ELSE Commit[applied[CHOOSE e \in kept :
                                \A x \in kept : e <= x].commit].parent

\* What is settled stays: commits that left the window, and all of those
\* before a restart, are never gone back on, neither for a rival however good
\* nor by stepping back.  A restored group so keeps the commit it has, also
\* where a rival would have won (applyCommit's `stale`, restore).
SettledStays ==
    [][~ removed' => /\ SettledTip \in Branch[SettledTip']
                     /\ SettledTip \in Branch[state'.tip]]_vars

=============================================================================
