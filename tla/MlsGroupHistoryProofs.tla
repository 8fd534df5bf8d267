------------------------ MODULE MlsGroupHistoryProofs ------------------------
(***************************************************************************)
(* What a group whose caller awaits each call never goes back on: the      *)
(* commits that left the window (SettledStays), the sending generation of  *)
(* an epoch it stepped back from (LeftStatesResumed), and the stepping     *)
(* back itself while it waits (NoSuspectWhileWaiting).                     *)
(***************************************************************************)
EXTENDS MlsGroupProofs, NumberLemmas

----------------------------------------------------------------------------
(* Branches *)

\* A branch holds its tip and, with a commit, the parent of that commit; it
\* grows with each commit.
LEMMA BranchFacts ==
    /\ \A tip \in Tips : tip \in Branch[tip] /\ Branch[tip] \subseteq Tips
    /\ \A tip \in Tips : \A c \in Commits :
            c \in Branch[tip] => Commit[c].parent \in Branch[tip]
    /\ \A c \in Commits : Branch[Commit[c].parent] \subseteq Branch[c]
<1>1. \A tip \in Tips : tip \in Branch[tip] /\ Branch[tip] \subseteq Tips
  BY DEF Branch
<1>2. ASSUME NEW tip \in Tips, NEW c \in Commits, c \in Branch[tip]
      PROVE  Commit[c].parent \in Branch[tip]
  <2>1. ASSUME NEW tips \in SUBSET Tips, tip \in tips, ParentClosed(tips)
        PROVE  Commit[c].parent \in tips
    BY <1>2, <2>1 DEF Branch, ParentClosed
  <2>. QED  BY <2>1, EpochFacts DEF Branch
<1>3. ASSUME NEW c \in Commits, NEW t \in Branch[Commit[c].parent]
      PROVE  t \in Branch[c]
  <2>1. c \in Tips /\ Commit[c].parent \in Tips
    BY EpochFacts
  <2>2. ASSUME NEW tips \in SUBSET Tips, c \in tips, ParentClosed(tips)
        PROVE  t \in tips
    <3>1. Commit[c].parent \in tips
      BY <2>2 DEF ParentClosed
    <3>. QED  BY <2>1, <2>2, <3>1 DEF Branch
  <2>. QED  BY <2>1, <2>2 DEF Branch
<1>. QED  BY <1>1, <1>2, <1>3

ParentOf(entry) == Commit[entry.commit].parent

\* What the entries of a map of commits taken are.
LEMMA EntryFacts ==
    ASSUME NEW held, HeldOK(held), NEW e \in DOMAIN held
    PROVE  /\ e \in Nat
           /\ held[e] \in AppliedEpochs
           /\ held[e].commit \in Commits
           /\ ParentOf(held[e]) \in Tips
BY EpochFacts DEF HeldOK, AppliedEpochs, ParentOf

\* The commits taken leave no gap: from any of them on, every epoch is held.
LEMMA NoGap ==
    ASSUME NEW held, HeldOK(held), NEW tip \in Tips, Follows(held, tip),
           NEW e \in DOMAIN held, NEW x \in Nat, e <= x, x < EpochOf[tip]
    PROVE  x \in DOMAIN held
<1> DEFINE S == {y \in Nat : e <= y /\ y < EpochOf[tip] /\ y \notin DOMAIN held}
<1>1. SUFFICES ASSUME S # {} PROVE FALSE
  OBVIOUS
<1>2. PICK n \in S : \A m \in S : n <= m
  <2>1. S \in SUBSET Nat
    OBVIOUS
  <2> HIDE DEF S
  <2>. QED  BY <1>1, <2>1, LeastNumber
<1>3. /\ e \in Nat
      /\ EpochOf[tip] \in Nat
  BY EntryFacts, EpochFacts
<1>4. n # e
  OBVIOUS
<1>5. n - 1 \in Nat /\ e <= n - 1 /\ n - 1 < EpochOf[tip]
  BY <1>3, <1>4
<1>6. n - 1 \in DOMAIN held
  <2>1. n - 1 \notin S
    BY <1>2, <1>5
  <2>. QED  BY <1>5, <2>1
<1>7. (n - 1) + 1 < EpochOf[tip] => (n - 1) + 1 \in DOMAIN held
  BY <1>6 DEF Follows
<1>. QED  BY <1>3, <1>7

\* Every commit taken is on the branch of the tip they lead to.
LEMMA OnBranch ==
    ASSUME NEW held, HeldOK(held), NEW tip \in Tips, Follows(held, tip),
           NEW e \in DOMAIN held
    PROVE  held[e].commit \in Branch[tip] /\ ParentOf(held[e]) \in Branch[tip]
<1> DEFINE S == {y \in DOMAIN held : held[y].commit \notin Branch[tip]}
<1>1. S = {}
  <2>1. SUFFICES ASSUME S # {} PROVE FALSE
    OBVIOUS
  <2>2. /\ S \in SUBSET Nat
        /\ EpochOf[tip] \in Nat
        /\ \A y \in S : y <= EpochOf[tip]
    BY EntryFacts, EpochFacts DEF Follows
  <2>3. PICK n \in S : \A m \in S : m <= n
    <3> HIDE DEF S
    <3>. QED  BY <2>1, <2>2, GreatestNumber
  <2>4. /\ n \in Nat /\ n < EpochOf[tip]
        /\ n + 1 = EpochOf[tip] => tip = held[n].commit
        /\ n + 1 < EpochOf[tip] =>
                /\ n + 1 \in DOMAIN held
                /\ Commit[held[n + 1].commit].parent = held[n].commit
    BY <2>2 DEF Follows
  <2>5. n + 1 < EpochOf[tip]
    BY <2>2, <2>4, BranchFacts
  <2>6. n + 1 \notin S
    BY <2>3, <2>4
  <2>7. held[n + 1].commit \in Branch[tip] /\ held[n + 1].commit \in Commits
    BY <2>4, <2>5, <2>6, EntryFacts
  <2>. QED  BY <2>4, <2>5, <2>7, BranchFacts
<1>. QED  BY <1>1, EntryFacts, BranchFacts DEF ParentOf

\* What is before an older one is on the branch of what is before a newer one.
LEMMA OlderOnBranch ==
    ASSUME NEW held, HeldOK(held), NEW tip \in Tips, Follows(held, tip),
           NEW x \in DOMAIN held, NEW y \in DOMAIN held, x <= y
    PROVE  ParentOf(held[x]) \in Branch[ParentOf(held[y])]
<1>1. CASE x = y
  BY <1>1, EntryFacts, BranchFacts
<1>2. CASE x # y
  <2> DEFINE cut == Before(held, y)
             parent == ParentOf(held[y])
  <2>1. Follows(cut, parent)
    BY CutBranch DEF ParentOf
  <2>2. HeldOK(cut) /\ parent \in Tips
    BY CutTyped, EntryFacts
  <2>3. x \in DOMAIN cut /\ cut[x] = held[x]
    <3>1. x \in Nat /\ y \in Nat
      BY EntryFacts
    <3>. QED  BY <1>2, <3>1 DEF Before
  <2> HIDE DEF cut, parent
  <2>4. ParentOf(cut[x]) \in Branch[parent]
    BY <2>1, <2>2, <2>3, OnBranch
  <2>. QED  BY <2>3, <2>4 DEF parent
<1>. QED  BY <1>1, <1>2

----------------------------------------------------------------------------
(* The invariant *)

\* The device counts as removed exactly when the state in use leaves it out,
\* and no earlier state of the branch does.
RemovedFits ==
    /\ removed <=> Expelled(state.tip)
    /\ ~ removed =>
        \A e \in DOMAIN applied : ~ Expelled(ParentOf(applied[e]))

\* A commit of this device, pending or being made, follows a state it is a
\* member in.
PendingOwn ==
    pending # None =>
        Own(pending.commit) /\ ~ Expelled(Commit[pending.commit].parent)
CallsOwn ==
    \A k \in Calls : Running(k, "commit") =>
        Own(calls[k].commit) /\ ~ Expelled(Commit[calls[k].commit].parent)

\* The states left by stepping back are of commits of other members, one of
\* each epoch, and none is of the branch in use.
LeftFits ==
    /\ \A left \in resumable : left.tip \in Commits /\ ~ Own(left.tip)
    /\ \A one, other \in resumable : one.tip = other.tip => one = other
    /\ ~ removed => \A left \in resumable :
        /\ left.tip # state.tip
        /\ \A e \in DOMAIN applied : left.tip # ParentOf(applied[e])

\* What NoSuspectWhileWaiting says of a group between calls.
NoSuspect ==
    \A w \in witnesses : \A e \in DOMAIN applied :
        IsWithheld(w) /\ e >= RecordEpoch(w) /\ Adds(applied[e].commit) =>
            \E x \in DOMAIN applied : x >= e /\ Own(applied[x].commit)

\* A commit is accepted only while nothing is waited for, and suspects stay
\* only until the call that found the witness ends.
WaitFits ==
    /\ \A k \in Calls :
        Running(k, "applyCommit") /\ calls[k].verdict = "accept" => ~ Waiting
    /\ \/ \E k \in Calls :
            Running(k, "applyCommit") /\ calls[k].verdict = "reject"
       \/ NoSuspect

HInv ==
    /\ IInv
    /\ RemovedFits
    /\ PendingOwn
    /\ CallsOwn
    /\ LeftFits

----------------------------------------------------------------------------
(* Preservation of the invariant *)

\* The part of it about the group's own variables.
HGroup ==
    /\ RemovedFits
    /\ PendingOwn
    /\ LeftFits

\* The group starts with nothing taken, pending or left.
LEMMA InitHInv == Init => HInv
<1> SUFFICES ASSUME Init PROVE HInv
  OBVIOUS
<1>1. /\ state.tip = Root /\ removed = FALSE /\ pending = None
      /\ DOMAIN applied = {} /\ resumable = {}
      /\ \A k \in Calls : calls[k] = None
  BY DEF Init
<1>2. RemovedFits /\ PendingOwn /\ CallsOwn /\ LeftFits
  BY <1>1 DEF RemovedFits, Expelled, PendingOwn, CallsOwn, Running, LeftFits
<1>. QED  BY <1>2, InitIInv DEF HInv

\* A step within the epoch in use that leaves the branch alone keeps it.
LEMMA HGroupStutter ==
    ASSUME HGroup, state'.tip = state.tip,
           UNCHANGED <<removed, pending, applied, resumable>>
    PROVE  HGroup'
BY DEF HGroup, RemovedFits, PendingOwn, LeftFits, Expelled, ParentOf, Own

\* No call is left in flight.
LEMMA NoCallsOwn ==
    ASSUME \A k \in Calls : calls'[k] = None
    PROVE  CallsOwn'
BY DEF CallsOwn, Running

\* A call that starts is the only one, and a commit of this device follows a
\* state it is a member in.
LEMMA StartOwn ==
    ASSUME Serial, HInv, NEW k \in Calls, NEW call, Start(k, call),
           call.op = "commit" =>
                Own(call.commit) /\ ~ Expelled(Commit[call.commit].parent)
    PROVE  CallsOwn'
<1>1. /\ calls'[k] = call
      /\ \A l \in Calls : l # k => calls'[l] = None
  BY StartFacts DEF HInv, IInv
<1>. QED  BY <1>1 DEF CallsOwn, Running, Own, Expelled

\* The call that ends was the only one.
LEMMA EndOwn ==
    ASSUME HInv, NEW k \in Calls, calls[k] # None, End(k)
    PROVE  CallsOwn'
<1>1. \A l \in Calls : calls'[l] = None
  BY DEF HInv, IInv, TypeOK, OneCall, End
<1>. QED  BY <1>1, NoCallsOwn

\* Taking c after held, whose tips none of the states left is of, with the
\* states left still ahead of it.
LEMMA TakenHGroup ==
    ASSUME NEW c \in Commits, NEW held, HeldOK(held), NEW epoch \in Nat,
           NEW taken \in AppliedEpochs, taken.commit = c,
           applied' = Take(held, epoch, taken),
           state'.tip = c, PendingOwn', removed' <=> Expelled(c),
           resumable' \subseteq resumable, LeftFits,
           \A left \in resumable' : left.tip # c,
           ~ removed' =>
                /\ ~ Expelled(Commit[c].parent)
                /\ \A left \in resumable' : left.tip # Commit[c].parent
                /\ \A e \in DOMAIN held :
                    /\ ~ Expelled(ParentOf(held[e]))
                    /\ \A left \in resumable' : left.tip # ParentOf(held[e])
    PROVE  HGroup'
<1>1. ASSUME NEW e \in DOMAIN applied'
      PROVE  \/ ParentOf(applied'[e]) = Commit[c].parent
             \/ e \in DOMAIN held /\ ParentOf(applied'[e]) = ParentOf(held[e])
  <2>1. CASE e = epoch
    BY <2>1 DEF Take, ParentOf
  <2>2. CASE e # epoch
    <3>1. e \in DOMAIN held /\ held[e] \in AppliedEpochs
      BY <2>2 DEF Take, HeldOK
    <3>2. \/ applied'[e] = held[e]
          \/ applied'[e] = [held[e] EXCEPT !.before = None]
      BY <2>2, <3>1 DEF Take
    <3>. QED  BY <3>1, <3>2 DEF AppliedEpochs, ParentOf
  <2>. QED  BY <2>1, <2>2
<1>2. RemovedFits'
  BY <1>1 DEF RemovedFits, Expelled, ParentOf
<1>3. LeftFits'
  BY <1>1 DEF LeftFits, ParentOf, Own
<1>. QED  BY <1>2, <1>3 DEF HGroup

\* applyCommit takes a commit: the states left behind or of its own epoch go.
LEMMA FinishTakenHGroup ==
    ASSUME HInv, NEW k \in Calls, FinishTaken(k)
    PROVE  HGroup'
<1> DEFINE call == calls[k]
           c == call.commit
           epoch == RecordEpoch(c)
           taken == [commit |-> c, before |-> call.from,
                     baseline |-> call.baseline]
           next == StateAfter(call.from, c)
<1>1. call \in ApplyCalls /\ ApplyFits(call)
  BY CallFacts DEF FinishTaken, HInv, IInv, CallsFit
<1>2. /\ c \in Commits /\ epoch \in Nat
      /\ taken \in AppliedEpochs /\ taken.commit = c
      /\ EpochOf[c] = epoch + 1 /\ Commit[c].parent \in Tips
  BY <1>1, EpochFacts DEF ApplyCalls, AppliedEpochs
<1>3. HeldOK(applied) /\ ~ removed
  BY <1>1 DEF HInv, IInv, TypeOK, HeldOK, ApplyFits
<1>4. state'.tip = c /\ next.tip = c
  BY ResumedFacts DEF FinishTaken, StateAfter
<1>5. /\ removed' <=> Expelled(c)
      /\ pending' = pending
      /\ resumable' = {left \in resumable : EpochOf[left.tip] > epoch + 1}
  <2>1. resumable' = Ahead(next)
    BY DEF FinishTaken
  <2>2. Epoch(next) = epoch + 1
    BY <1>2, <1>4 DEF Epoch
  <2>. QED  BY <1>3, <2>1, <2>2 DEF FinishTaken, Ahead, Epoch
<1>6. /\ PendingOwn'
      /\ \A left \in resumable' : left.tip # c
      /\ resumable' \subseteq resumable
  BY <1>2, <1>5 DEF HInv, PendingOwn, Own, Expelled
<1>7. /\ ~ Expelled(Commit[c].parent)
      /\ \A left \in resumable : left.tip # Commit[c].parent
  <2>1. CASE call.rival = Root
    BY <1>1, <1>3, <2>1 DEF ApplyFits, HInv, RemovedFits, LeftFits
  <2>2. CASE call.rival # Root
    BY <1>1, <1>3, <2>2 DEF ApplyFits, HInv, RemovedFits, LeftFits, ParentOf
  <2>. QED  BY <2>1, <2>2
<1>8. \A e \in DOMAIN applied :
        /\ ~ Expelled(ParentOf(applied[e]))
        /\ \A left \in resumable : left.tip # ParentOf(applied[e])
  BY <1>3 DEF HInv, RemovedFits, LeftFits
<1>9. CASE applied' = Take(applied, epoch, taken)
  <2> HIDE DEF c, epoch, taken, next
  <2>. QED
    BY <1>2, <1>3, <1>4, <1>5, <1>6, <1>7, <1>8, <1>9, TakenHGroup DEF HInv
<1>10. CASE applied' = UpTo(Take(applied, epoch, taken), epoch)
  <2> DEFINE held == Before(applied, epoch)
  <2>1. applied' = Take(held, epoch, taken)
    BY <1>2, <1>3, <1>10, SwitchFacts
  <2>2. HeldOK(held)
    BY <1>3, CutTyped
  <2>3. \A e \in DOMAIN held : e \in DOMAIN applied /\ held[e] = applied[e]
    BY DEF Before
  <2> HIDE DEF c, epoch, taken, next, held
  <2>. QED
    BY <1>2, <1>4, <1>5, <1>6, <1>7, <1>8, <2>1, <2>2, <2>3, TakenHGroup
    DEF HInv
<1>. QED  BY <1>9, <1>10 DEF FinishTaken

\* Stepping back leaves states of commits of other members, taken since, and
\* returns to an earlier tip of the branch.
LEMMA FinishWaitingHGroup ==
    ASSUME HInv, NEW k \in Calls, FinishWaiting(k)
    PROVE  HGroup'
<1>1. ~ removed
  BY DEF FinishWaiting, HInv, IInv, CallsFit, ApplyFits
<1>2. UNCHANGED <<removed, pending>>
  BY DEF FinishWaiting
<1>3. CASE UNCHANGED <<resumable, state, bound, applied>>
  BY <1>2, <1>3, HGroupStutter DEF HInv, HGroup
<1>4. ASSUME NEW from \in Suspect, StepsBackTo(from),
             resumable' = resumable \cup {state} \cup
                {applied[e].before : e \in {x \in DOMAIN applied : x > from}},
             state' = applied[from].before,
             applied' = Before(applied, from)
      PROVE  HGroup'
  <2>1. /\ HeldOK(applied)
        /\ Follows(applied, state.tip)
        /\ state.tip \in Tips
        /\ EpochOf[state.tip] \in Nat
    BY <1>1, EpochFacts
    DEF HeldOK, HInv, IInv, Lineage, TypeOK, ClientStates
  <2>2. from \in DOMAIN applied /\ from \in Nat /\ from < EpochOf[state.tip]
    BY <2>1 DEF Suspect, Follows, HeldOK
  <2>3. \A e \in DOMAIN applied : e >= from => ~ Own(applied[e].commit)
    BY <2>1, <2>2 DEF Suspect, HeldOK
  <2>4. /\ state'.tip = ParentOf(applied[from])
        /\ \A e \in DOMAIN applied : e >= from =>
                applied[e].before.tip = ParentOf(applied[e])
    BY <1>4, <2>1, <2>2 DEF StepsBackTo, Follows, ParentOf
  <2>5. \A e \in DOMAIN applied :
            /\ e \in Nat
            /\ EpochOf[ParentOf(applied[e])] = e
            /\ e < EpochOf[state.tip]
    BY <2>1 DEF Follows, RecordEpoch, ParentOf, HeldOK
  <2>6. \A e \in DOMAIN applied' :
            e \in DOMAIN applied /\ e < from /\ applied'[e] = applied[e]
    BY <1>4 DEF Before
  <2> DEFINE Left(t) == \/ t = state
                        \/ \E e \in DOMAIN applied :
                                e > from /\ t = applied[e].before
  <2>7. \A t \in resumable' : t \in resumable \/ Left(t)
    BY <1>4
  <2>8. ASSUME NEW t, Left(t)
        PROVE  /\ EpochOf[t.tip] \in Nat /\ EpochOf[t.tip] > from
               /\ \/ t = state
                  \/ \E e \in DOMAIN applied :
                        e > from /\ t = applied[e].before
                                 /\ t.tip = ParentOf(applied[e])
               /\ t.tip \in Commits /\ ~ Own(t.tip)
    <3>1. CASE t = state
      <4> DEFINE last == EpochOf[state.tip] - 1
      <4>1. last \in Nat /\ from <= last /\ last < EpochOf[state.tip]
        BY <2>1, <2>2
      <4>2. last \in DOMAIN applied
        BY <2>1, <2>2, <4>1, NoGap
      <4>3. state.tip = applied[last].commit
        BY <2>1, <4>1, <4>2 DEF Follows
      <4>. QED  BY <2>1, <2>2, <2>3, <3>1, <4>1, <4>2, <4>3, EntryFacts
    <3>2. CASE \E e \in DOMAIN applied : e > from /\ t = applied[e].before
      <4>1. PICK e \in DOMAIN applied : e > from /\ t = applied[e].before
        BY <3>2
      <4>2. t.tip = ParentOf(applied[e]) /\ e \in Nat /\ EpochOf[t.tip] = e
        BY <2>2, <2>4, <2>5, <4>1
      <4>3. e - 1 \in Nat /\ from <= e - 1 /\ e - 1 < EpochOf[state.tip]
        BY <2>1, <2>2, <2>5, <4>1
      <4>4. e - 1 \in DOMAIN applied
        BY <2>1, <2>2, <4>3, NoGap
      <4>5. ParentOf(applied[e]) = applied[e - 1].commit
        BY <2>1, <2>5, <4>2, <4>4 DEF Follows, ParentOf
      <4>. QED  BY <2>1, <2>3, <4>1, <4>2, <4>3, <4>4, <4>5, EntryFacts
    <3>. QED  BY <2>8, <3>1, <3>2
  <2> HIDE DEF Left
  <2>9. ASSUME NEW one, NEW other, Left(one), Left(other), one.tip = other.tip
        PROVE  one = other
    BY <2>5, <2>8, <2>9
  <2>10. ASSUME NEW old \in resumable, NEW new, Left(new)
         PROVE  old.tip # new.tip
    <3>1. /\ old.tip # state.tip
          /\ \A e \in DOMAIN applied : old.tip # ParentOf(applied[e])
      BY <1>1 DEF HInv, LeftFits
    <3>2. \/ new = state
          \/ \E e \in DOMAIN applied : new.tip = ParentOf(applied[e])
      BY <2>8, <2>10
    <3>. QED  BY <3>1, <3>2
  <2>11. RemovedFits'
    BY <1>1, <1>2, <2>2, <2>4, <2>6
    DEF HInv, RemovedFits, Expelled, ParentOf
  <2>12. \A t \in resumable' : t.tip \in Commits /\ ~ Own(t.tip)
    BY <2>7, <2>8 DEF HInv, LeftFits
  <2>13. \A one, other \in resumable' : one.tip = other.tip => one = other
    BY <2>7, <2>9, <2>10 DEF HInv, LeftFits
  <2>14. ASSUME NEW t \in resumable'
         PROVE  /\ t.tip # state'.tip
                /\ \A e \in DOMAIN applied' : t.tip # ParentOf(applied'[e])
    <3>1. CASE t \in resumable
      BY <1>1, <2>2, <2>4, <2>6, <3>1 DEF HInv, LeftFits
    <3>2. CASE Left(t)
      BY <2>2, <2>4, <2>5, <2>6, <2>8, <3>2
    <3>. QED  BY <2>7, <3>1, <3>2
  <2>15. LeftFits'
    BY <2>12, <2>13, <2>14 DEF LeftFits, Own, ParentOf
  <2>. QED  BY <1>2, <2>11, <2>15 DEF HGroup, HInv, PendingOwn, Own, Expelled
<1>. QED  BY <1>3, <1>4 DEF FinishWaiting, StepBack

\* confirm takes a commit of this device, whose state was never left.
LEMMA ConfirmHGroup ==
    ASSUME HInv, Confirm
    PROVE  HGroup'
<1> DEFINE c == pending.commit
           epoch == Epoch(pending.before)
           taken == [commit |-> c, before |-> pending.before,
                     baseline |-> bound]
<1>1. pending \in PendingCommits /\ pending # None
  BY DEF Confirm, HInv, IInv, TypeOK
<1>2. /\ c \in Commits
      /\ taken \in AppliedEpochs /\ taken.commit = c
      /\ epoch \in Nat
  BY <1>1, EpochFacts
  DEF PendingCommits, AppliedEpochs, ClientStates, Epoch, HInv, IInv, TypeOK
<1>3. /\ state.tip = Commit[c].parent
      /\ pending.state.tip = c
      /\ Own(c) /\ ~ Expelled(Commit[c].parent)
  BY <1>1 DEF Confirm, SameEpoch, HInv, IInv, PendingFits, PendingOwn
<1>4. ~ Expelled(c)
  BY <1>2, <1>3, CatalogueAssumption DEF Expelled, Own
<1>5. /\ applied' = Take(applied, epoch, taken)
      /\ state'.tip = c
      /\ pending' = None
      /\ UNCHANGED <<removed, resumable>>
  BY <1>3 DEF Confirm
<1>6. ~ removed
  BY <1>3 DEF HInv, RemovedFits
<1>7. HeldOK(applied) /\ PendingOwn'
  BY <1>5 DEF HeldOK, HInv, IInv, TypeOK, PendingOwn
<1>8. \A left \in resumable : left.tip # c /\ left.tip # Commit[c].parent
  BY <1>3, <1>6 DEF HInv, LeftFits
<1>9. \A e \in DOMAIN applied :
        /\ ~ Expelled(ParentOf(applied[e]))
        /\ \A left \in resumable : left.tip # ParentOf(applied[e])
  BY <1>6 DEF HInv, RemovedFits, LeftFits
<1> HIDE DEF c, epoch, taken
<1>. QED
  BY <1>2, <1>3, <1>4, <1>5, <1>6, <1>7, <1>8, <1>9, TakenHGroup DEF HInv

\* A restart begins a branch at the state restored.
LEMMA RestartHGroup ==
    ASSUME HInv, Restart
    PROVE  HGroup' /\ CallsOwn'
<1>1. /\ DOMAIN applied' = {} /\ pending' = None /\ resumable' = {}
      /\ \A k \in Calls : calls'[k] = None
      /\ removed' = Expelled(state'.tip)
  BY DEF Restart
<1>2. RemovedFits' /\ PendingOwn' /\ LeftFits'
  BY <1>1 DEF RemovedFits, Expelled, PendingOwn, LeftFits
<1>. QED  BY <1>1, <1>2, NoCallsOwn DEF HGroup

\* Every step of a group whose caller awaits each call preserves HInv.
LEMMA NextHInv ==
    ASSUME Serial, HInv, [Next]_vars
    PROVE  HInv'
<1> SUFFICES CallsOwn' /\ HGroup'
  BY NextIInv DEF HInv, HGroup
<1>1. HGroup /\ CallsOwn
  BY DEF HInv, HGroup
<1>2. ASSUME NEW op \in Ops, VerifyRoster(op) PROVE CallsOwn' /\ HGroup'
  <2>1. UNCHANGED <<groupVars, calls>>
    BY <1>2 DEF VerifyRoster
  <2>2. CallsOwn'
    BY <1>1, <2>1 DEF CallsOwn, Running, Own, Expelled
  <2>. QED  BY <1>1, <2>1, <2>2, HGroupStutter DEF groupVars
<1>3. ASSUME NEW k \in Calls, NEW call, Start(k, call), UNCHANGED groupVars,
             call.op = "commit" =>
                Own(call.commit) /\ ~ Expelled(Commit[call.commit].parent)
      PROVE  CallsOwn' /\ HGroup'
  <2>1. CallsOwn'
    BY <1>3, StartOwn
  <2>. QED  BY <1>1, <1>3, <2>1, HGroupStutter DEF groupVars
<1>4. ASSUME NEW k \in Calls, calls[k] # None, End(k), HGroup'
      PROVE  CallsOwn' /\ HGroup'
  BY <1>4, EndOwn
<1>5. ASSUME NEW k \in Calls, NEW c \in Commits,
             ApplyNext(k, c) \/ ApplyRival(k, c)
      PROVE  CallsOwn' /\ HGroup'
  <2>1. PICK call : Start(k, call) /\ call.op = "applyCommit"
    BY <1>5 DEF ApplyNext, ApplyRival
  <2>. QED  BY <1>3, <1>5, <2>1 DEF ApplyNext, ApplyRival
<1>6. ASSUME NEW k \in Calls, NEW c \in Commits, CommitStart(k, c)
      PROVE  CallsOwn' /\ HGroup'
  <2> DEFINE call == [op |-> "commit", commit |-> c, from |-> state]
  <2>1. Own(c) /\ ~ Expelled(Commit[c].parent)
    BY <1>6 DEF CommitStart, HInv, RemovedFits
  <2>2. Start(k, call) /\ UNCHANGED groupVars /\ call.commit = c
    BY <1>6 DEF CommitStart
  <2> HIDE DEF call
  <2>. QED  BY <1>3, <2>1, <2>2
<1>7. ASSUME NEW k \in Calls,
             EncryptStart(k) \/ \E m \in Messages : OpenStart(k, m)
      PROVE  CallsOwn' /\ HGroup'
  <2>1. CASE EncryptStart(k)
    <3> DEFINE call == [op |-> "encrypt", from |-> state]
    <3>1. Start(k, call) /\ call.op # "commit" /\ UNCHANGED groupVars
      BY <2>1 DEF EncryptStart
    <3> HIDE DEF call
    <3>. QED  BY <1>3, <3>1
  <2>2. ASSUME NEW m \in Messages, OpenStart(k, m)
        PROVE  CallsOwn' /\ HGroup'
    <3> DEFINE call == [op |-> "open", message |-> m, from |-> state]
    <3>1. Start(k, call) /\ call.op # "commit" /\ UNCHANGED groupVars
      BY <2>2 DEF OpenStart
    <3> HIDE DEF call
    <3>. QED  BY <1>3, <3>1
  <2>. QED  BY <1>7, <2>1, <2>2
<1>8. ASSUME NEW k \in Calls, CallStep(k) PROVE CallsOwn' /\ HGroup'
  <2>1. CASE Judge(k)
    <3>1. UNCHANGED <<state, removed, pending, applied, resumable>>
      BY <2>1 DEF Judge
    <3>2. ASSUME NEW l \in Calls, Running(l, "commit")' PROVE calls'[l] = calls[l]
      <4>1. calls[k] \in ApplyCalls
        BY <2>1, CallFacts DEF Judge, HInv, IInv
      <4>2. PICK v : calls' = [calls EXCEPT ![k].verdict = v]
        BY <2>1 DEF Judge
      <4>3. calls'[k].op = "applyCommit"
        BY <4>1, <4>2 DEF ApplyCalls, HInv, IInv, TypeOK
      <4>. QED  BY <3>2, <4>2, <4>3 DEF Running, HInv, IInv, TypeOK
    <3>3. CallsOwn'
      BY <1>1, <3>2 DEF CallsOwn, Running, Own, Expelled
    <3>. QED  BY <1>1, <3>1, <3>3, HGroupStutter
  <2>2. CASE FinishWaiting(k)
    BY <1>4, <2>2, FinishWaitingHGroup DEF FinishWaiting, Running
  <2>3. CASE FinishRejected(k)
    BY <1>1, <1>4, <2>3, HGroupStutter DEF FinishRejected, Running, groupVars
  <2>4. CASE FinishTaken(k)
    BY <1>4, <2>4, FinishTakenHGroup DEF FinishTaken, Running
  <2>5. CASE CommitFinish(k)
    <3>1. pending'.commit = calls[k].commit
      BY <2>5 DEF CommitFinish
    <3>2. PendingOwn'
      BY <1>1, <2>5, <3>1 DEF CommitFinish, CallsOwn, PendingOwn, Own, Expelled
    <3>3. UNCHANGED <<state, removed, applied, resumable>>
      BY <2>5 DEF CommitFinish
    <3>4. HGroup'
      BY <1>1, <3>2, <3>3
      DEF HGroup, RemovedFits, LeftFits, Expelled, ParentOf, Own
    <3>. QED  BY <1>4, <2>5, <3>4 DEF CommitFinish, Running
  <2>6. CASE EncryptFinish(k)
    <3>1. calls[k] \in EncryptCalls /\ calls[k].from.tip = state.tip
      BY <2>6, CallFacts DEF EncryptFinish, HInv, IInv, CallsFit
    <3>2. state'.tip = state.tip
      BY <2>6, <3>1 DEF EncryptFinish, EncryptCalls, ClientStates
    <3>3. HGroup'
      BY <1>1, <2>6, <3>2, HGroupStutter DEF EncryptFinish
    <3>. QED  BY <1>4, <2>6, <3>3 DEF EncryptFinish, Running
  <2>7. CASE OpenFinish(k)
    <3>1. calls[k] \in OpenCalls /\ calls[k].from.tip = state.tip
      BY <2>7, CallFacts DEF OpenFinish, HInv, IInv, CallsFit
    <3>2. state'.tip = state.tip
      BY <2>7, <3>1 DEF OpenFinish, OpenCalls, ClientStates
    <3>3. HGroup'
      BY <1>1, <2>7, <3>2, HGroupStutter DEF OpenFinish
    <3>. QED  BY <1>4, <2>7, <3>3 DEF OpenFinish, Running
  <2>. QED  BY <1>8, <2>1, <2>2, <2>3, <2>4, <2>5, <2>6, <2>7 DEF CallStep
<1>9. CASE Confirm
  <2>1. \A k \in Calls : calls'[k] = None
    BY <1>9 DEF Confirm, MayCall, Idle
  <2>. QED  BY <1>9, <2>1, ConfirmHGroup, NoCallsOwn
<1>10. CASE Drop
  <2>1. /\ pending' = None
        /\ UNCHANGED <<state, removed, applied, resumable, calls>>
    BY <1>10 DEF Drop
  <2>2. HGroup'
    BY <1>1, <2>1
    DEF HGroup, RemovedFits, PendingOwn, LeftFits, Expelled, ParentOf, Own
  <2>3. CallsOwn'
    BY <1>1, <2>1 DEF CallsOwn, Running, Own, Expelled
  <2>. QED  BY <2>2, <2>3
<1>11. CASE Restart
  BY <1>11, RestartHGroup
<1>12. CASE UNCHANGED vars
  <2>1. UNCHANGED <<groupVars, calls>>
    BY <1>12 DEF vars
  <2>2. CallsOwn'
    BY <1>1, <2>1 DEF CallsOwn, Running, Own, Expelled
  <2>. QED  BY <1>1, <2>1, <2>2, HGroupStutter DEF groupVars
<1>. QED
  BY <1>2, <1>5, <1>6, <1>7, <1>8, <1>9, <1>10, <1>11, <1>12 DEF Next

\* The invariant of a caller that awaits each call, with what it left behind.
THEOREM HistoryInductive ==
    ASSUME Serial
    PROVE  Spec => []HInv
BY InitHInv, NextHInv, PTL DEF Spec

\* A device counts as removed exactly when the commit its state came from
\* removed it: no switch, step back, confirmation or restart makes a removed
\* device count as a member, or a member as removed.
THEOREM RemovalReadFromState ==
    ASSUME Serial
    PROVE  Spec => [](removed <=> Expelled(state.tip))
<1>1. HInv => (removed <=> Expelled(state.tip))
  BY DEF HInv, RemovedFits
<1>. QED  BY <1>1, HistoryInductive, PTL

----------------------------------------------------------------------------
(* States resumed *)

\* What LeftStatesResumed says of one step.
LeftResumed ==
    \A left \in resumable :
        state'.tip = left.tip /\ state.tip # left.tip => state'.gen = left.gen

\* The steps that lead to another epoch.
LEMMA EpochChanges ==
    ASSUME IInv, [Next]_vars
    PROVE  \/ state'.tip = state.tip /\ applied' = applied
           \/ \E k \in Calls : FinishWaiting(k) \/ FinishTaken(k)
           \/ Confirm
           \/ Restart
<1>1. ASSUME NEW k \in Calls, EncryptFinish(k) \/ OpenFinish(k)
      PROVE  state'.tip = state.tip /\ applied' = applied
  <2>1. /\ Running(k, "encrypt") => calls[k] \in EncryptCalls
        /\ Running(k, "open") => calls[k] \in OpenCalls
        /\ Running(k, "encrypt") \/ Running(k, "open")
              => calls[k].from.tip = state.tip
    BY CallFacts DEF IInv, CallsFit
  <2>. QED
    BY <1>1, <2>1
    DEF EncryptFinish, OpenFinish, EncryptCalls, OpenCalls, ClientStates
<1>2. ASSUME NEW k \in Calls, CommitFinish(k) \/ Judge(k) \/ FinishRejected(k)
      PROVE  state' = state /\ applied' = applied
  BY <1>2 DEF CommitFinish, Judge, FinishRejected, groupVars
<1>3. ASSUME NEW k \in Calls, NEW c \in Commits,
             ApplyNext(k, c) \/ ApplyRival(k, c) \/ CommitStart(k, c)
      PROVE  state' = state /\ applied' = applied
  BY <1>3 DEF ApplyNext, ApplyRival, CommitStart, groupVars
<1>4. ASSUME NEW k \in Calls,
             EncryptStart(k) \/ \E m \in Messages : OpenStart(k, m)
      PROVE  state' = state /\ applied' = applied
  BY <1>4 DEF EncryptStart, OpenStart, groupVars
<1>5. \/ UNCHANGED vars
      \/ Drop
      \/ \E op \in Ops : VerifyRoster(op)
      => state' = state /\ applied' = applied
  BY DEF vars, groupVars, Drop, VerifyRoster
<1>. QED  BY <1>1, <1>2, <1>3, <1>4, <1>5 DEF Next, CallStep

\* A state left is entered again only by taking the commit that led to it.
LEMMA LeftResumedStep ==
    ASSUME HInv, [Next]_vars
    PROVE  LeftResumed
<1>1. SUFFICES ASSUME NEW left \in resumable,
                      state'.tip = left.tip, state.tip # left.tip
               PROVE  state'.gen = left.gen
  BY DEF LeftResumed
<1>2. left.tip \in Commits /\ ~ Own(left.tip)
  BY DEF HInv, LeftFits
<1>3. ASSUME NEW k \in Calls, FinishTaken(k) PROVE state'.gen = left.gen
  <2> DEFINE next == StateAfter(calls[k].from, calls[k].commit)
  <2>1. state' \in Resumed(next)
    BY <1>3 DEF FinishTaken
  <2> HIDE DEF next
  <2>2. state'.tip = next.tip
    BY <2>1, ResumedFacts
  <2>3. state' \in resumable
    BY <1>1, <2>1, <2>2 DEF Resumed, SameEpoch
  <2>. QED  BY <1>1, <2>3 DEF HInv, LeftFits
<1>4. ASSUME NEW k \in Calls, FinishWaiting(k) PROVE FALSE
  <2>1. ~ removed /\ Follows(applied, state.tip)
    BY <1>4 DEF FinishWaiting, HInv, IInv, CallsFit, ApplyFits, Lineage
  <2>2. PICK from \in Suspect :
            StepsBackTo(from) /\ state' = applied[from].before
    BY <1>1, <1>4 DEF FinishWaiting, StepBack
  <2>3. from \in DOMAIN applied /\ from \in Nat
    BY DEF Suspect, HInv, IInv, TypeOK
  <2>4. state'.tip = ParentOf(applied[from])
    BY <2>1, <2>2, <2>3 DEF StepsBackTo, Follows, ParentOf
  <2>. QED  BY <1>1, <2>1, <2>3, <2>4 DEF HInv, LeftFits
<1>5. ASSUME pending # None, state' = pending.state PROVE FALSE
  <2>1. state'.tip = pending.commit /\ Own(pending.commit)
    BY <1>5 DEF HInv, IInv, PendingFits, PendingOwn
  <2>. QED  BY <1>1, <1>2, <2>1
<1>. QED
  BY <1>1, <1>3, <1>4, <1>5, EpochChanges DEF HInv, Confirm, Restart

\* Entering again an epoch left by stepping back goes on with the sending
\* generation the device had reached there.
THEOREM LeftGenerationsKept ==
    ASSUME Serial
    PROVE  Spec => LeftStatesResumed
<1>1. HInv /\ [Next]_vars => [LeftResumed]_vars
  BY LeftResumedStep
<1>. QED
  BY <1>1, HistoryInductive, PTL DEF Spec, LeftStatesResumed, LeftResumed

----------------------------------------------------------------------------
(* What is settled *)

SettledIn(held, tip) ==
    LET kept == {e \in DOMAIN held : held[e].before # None}
    IN  IF kept = {} THEN tip
        ELSE ParentOf(held[CHOOSE e \in kept : \A x \in kept : e <= x])

\* Everything a step can go back to, the tip included, descends from t.
Behind(t, held, tip) ==
    /\ t \in Branch[tip]
    /\ \A e \in DOMAIN held :
        held[e].before # None => t \in Branch[ParentOf(held[e])]

\* What is settled ends where the first state still kept begins.
LEMMA SettledFacts ==
    ASSUME NEW held, HeldOK(held), NEW tip
    PROVE  \/ /\ SettledIn(held, tip) = tip
              /\ \A e \in DOMAIN held : held[e].before = None
           \/ \E e \in DOMAIN held :
                /\ SettledIn(held, tip) = ParentOf(held[e])
                /\ held[e].before # None
                /\ \A x \in DOMAIN held : held[x].before # None => e <= x
<1> DEFINE kept == {e \in DOMAIN held : held[e].before # None}
           first == CHOOSE e \in kept : \A x \in kept : e <= x
<1>1. CASE kept = {}
  BY <1>1 DEF SettledIn
<1>2. CASE kept # {}
  <2>1. kept \in SUBSET Nat
    BY DEF HeldOK
  <2>2. \E e \in kept : \A x \in kept : e <= x
    <3> HIDE DEF kept
    <3>. QED  BY <1>2, <2>1, LeastNumber
  <2>3. first \in kept /\ \A x \in kept : first <= x
    <3> HIDE DEF kept
    <3>. QED  BY <2>2
  <2>4. SettledIn(held, tip) = ParentOf(held[first])
    BY <1>2 DEF SettledIn
  <2> HIDE DEF first
  <2>. QED  BY <2>3, <2>4
<1>. QED  BY <1>1, <1>2

\* What is settled is behind everything the group can go back to.
LEMMA SettledBehind ==
    ASSUME NEW held, HeldOK(held), NEW tip \in Tips, Follows(held, tip)
    PROVE  Behind(SettledIn(held, tip), held, tip)
<1> DEFINE t == SettledIn(held, tip)
<1>1. \/ t = tip /\ \A e \in DOMAIN held : held[e].before = None
      \/ \E e \in DOMAIN held :
            /\ t = ParentOf(held[e])
            /\ \A x \in DOMAIN held : held[x].before # None => e <= x
  BY SettledFacts
<1> HIDE DEF t
<1>2. SUFFICES Behind(t, held, tip)
  BY DEF t
<1>3. CASE t = tip /\ \A e \in DOMAIN held : held[e].before = None
  BY <1>3, BranchFacts DEF Behind
<1>4. ASSUME NEW e \in DOMAIN held, t = ParentOf(held[e]),
             \A x \in DOMAIN held : held[x].before # None => e <= x
      PROVE  Behind(t, held, tip)
  BY <1>4, OnBranch, OlderOnBranch DEF Behind
<1>. QED  BY <1>1, <1>3, <1>4

\* What is behind everything is behind what is settled.
LEMMA BehindSettled ==
    ASSUME NEW held, HeldOK(held), NEW tip, NEW t, Behind(t, held, tip)
    PROVE  t \in Branch[SettledIn(held, tip)]
<1> DEFINE s == SettledIn(held, tip)
<1>1. \/ s = tip
      \/ \E e \in DOMAIN held : s = ParentOf(held[e]) /\ held[e].before # None
  BY SettledFacts
<1> HIDE DEF s
<1>2. t \in Branch[s]
  BY <1>1 DEF Behind
<1>. QED  BY <1>2 DEF s

\* It stays behind when a commit is taken after it, and when the branch is cut
\* where the state before the cut is kept.
LEMMA BehindTake ==
    ASSUME NEW t, NEW c \in Commits, NEW held, HeldOK(held),
           NEW epoch \in Nat, NEW taken \in AppliedEpochs, taken.commit = c,
           Behind(t, held, Commit[c].parent)
    PROVE  Behind(t, Take(held, epoch, taken), c)
<1> DEFINE T == Take(held, epoch, taken)
<1>1. t \in Branch[Commit[c].parent] /\ t \in Branch[c]
  BY BranchFacts DEF Behind
<1>2. ASSUME NEW e \in DOMAIN T, T[e].before # None
      PROVE  t \in Branch[ParentOf(T[e])]
  <2>1. CASE e = epoch
    BY <1>1, <2>1 DEF Take, ParentOf
  <2>2. CASE e # epoch
    <3>1. e \in DOMAIN held /\ held[e] \in AppliedEpochs
      BY <2>2 DEF Take, HeldOK
    <3>2. \/ T[e] = held[e]
          \/ T[e] = [held[e] EXCEPT !.before = None]
      BY <2>2, <3>1 DEF Take
    <3>3. T[e] = held[e]
      BY <1>2, <3>1, <3>2 DEF AppliedEpochs
    <3>. QED  BY <1>2, <3>1, <3>3 DEF Behind
  <2>. QED  BY <2>1, <2>2
<1>. QED  BY <1>1, <1>2 DEF Behind

LEMMA BehindCut ==
    ASSUME NEW t, NEW held, NEW tip, Behind(t, held, tip),
           NEW from \in DOMAIN held, held[from].before # None
    PROVE  Behind(t, Before(held, from), ParentOf(held[from]))
BY DEF Behind, Before

\* A removed device stays removed.
LEMMA RemovedStays ==
    ASSUME HInv, [Next]_vars, removed
    PROVE  removed'
<1>1. CASE Restart
  <2>1. ~ (pending # None /\ SameEpoch(state, pending.before))
    BY DEF HInv, IInv, PendingFits, PendingOwn, RemovedFits, SameEpoch
  <2>2. state' = state /\ removed' = Expelled(state'.tip)
    BY <1>1, <2>1 DEF Restart
  <2>. QED  BY <2>2 DEF HInv, RemovedFits
<1>2. CASE ~ Restart
  BY <1>2
  DEF Next, CallStep, vars, groupVars, VerifyRoster, ApplyNext, ApplyRival,
      CommitStart, OpenStart, EncryptStart, Judge, FinishWaiting,
      FinishRejected, FinishTaken, CommitFinish, EncryptFinish, OpenFinish,
      Confirm, Drop
<1>. QED  BY <1>1, <1>2

\* What SettledStays says of one step.
SettledStay ==
    ~ removed' => /\ SettledTip \in Branch[SettledTip']
                  /\ SettledTip \in Branch[state'.tip]

\* No step goes back on what is settled.
LEMMA SettledStep ==
    ASSUME HInv, HInv', [Next]_vars
    PROVE  SettledStay
<1> SUFFICES ASSUME ~ removed'
             PROVE  /\ SettledTip \in Branch[SettledTip']
                    /\ SettledTip \in Branch[state'.tip]
  BY DEF SettledStay
<1> DEFINE t == SettledTip
<1>1. ~ removed
  BY RemovedStays
<1>2. /\ HeldOK(applied)
      /\ state.tip \in Tips
      /\ Follows(applied, state.tip)
  BY <1>1 DEF HInv, IInv, TypeOK, HeldOK, ClientStates, Lineage
<1>3. t = SettledIn(applied, state.tip)
  BY DEF SettledTip, SettledIn, ParentOf
<1>4. t' = SettledIn(applied', state'.tip)
  BY DEF SettledTip, SettledIn, ParentOf
<1>5. Behind(t, applied, state.tip)
  BY <1>2, <1>3, SettledBehind
<1> HIDE DEF t
<1>6. SUFFICES Behind(t, applied', state'.tip)
  <2>1. HeldOK(applied')
    BY DEF HInv, IInv, TypeOK, HeldOK
  <2>2. ASSUME Behind(t, applied', state'.tip)
        PROVE  t \in Branch[t'] /\ t \in Branch[state'.tip]
    BY <1>4, <2>1, <2>2, BehindSettled DEF Behind
  <2>. QED  BY <2>2 DEF t
<1>7. ASSUME NEW k \in Calls, FinishTaken(k)
      PROVE  Behind(t, applied', state'.tip)
  <2> DEFINE call == calls[k]
             c == call.commit
             epoch == RecordEpoch(c)
             taken == [commit |-> c, before |-> call.from,
                       baseline |-> call.baseline]
             next == StateAfter(call.from, c)
  <2>1. call \in ApplyCalls /\ ApplyFits(call)
    BY <1>7, CallFacts DEF FinishTaken, HInv, IInv, CallsFit
  <2>2. /\ c \in Commits /\ epoch \in Nat
        /\ taken \in AppliedEpochs /\ taken.commit = c
    BY <2>1, EpochFacts DEF ApplyCalls, AppliedEpochs
  <2>3. state'.tip = c
    <3>1. state' \in Resumed(next) /\ next.tip = c
      BY <1>7 DEF FinishTaken, StateAfter
    <3> HIDE DEF next
    <3>. QED  BY <3>1, ResumedFacts
  <2>4. CASE call.rival = Root
    <3>1. applied' = Take(applied, epoch, taken)
      BY <1>7, <2>4 DEF FinishTaken
    <3>2. Commit[c].parent = state.tip
      BY <2>1, <2>4 DEF ApplyFits
    <3> HIDE DEF call, c, epoch, taken
    <3>. QED  BY <1>2, <1>5, <2>2, <2>3, <3>1, <3>2, BehindTake
  <2>5. CASE call.rival # Root
    <3> DEFINE held == Before(applied, epoch)
    <3>1. ~ Expelled(c)
      BY <1>7 DEF FinishTaken
    <3>2. applied' = UpTo(Take(applied, epoch, taken), epoch)
      BY <1>7, <2>5, <3>1 DEF FinishTaken
    <3>3. applied' = Take(held, epoch, taken)
      BY <1>2, <2>2, <3>2, SwitchFacts
    <3>4. /\ epoch \in DOMAIN applied
          /\ ParentOf(applied[epoch]) = Commit[c].parent
          /\ applied[epoch].before # None
      BY <2>1, <2>2, <2>5 DEF ApplyFits, ParentOf
    <3>5. Behind(t, held, Commit[c].parent)
      BY <1>5, <3>4, BehindCut
    <3>6. HeldOK(held)
      BY <1>2, CutTyped
    <3> HIDE DEF call, c, epoch, taken, held
    <3>. QED  BY <2>2, <2>3, <3>3, <3>5, <3>6, BehindTake
  <2>. QED  BY <2>4, <2>5
<1>8. ASSUME NEW k \in Calls, FinishWaiting(k)
      PROVE  Behind(t, applied', state'.tip)
  <2>1. CASE UNCHANGED <<state, applied>>
    BY <1>5, <2>1
  <2>2. ASSUME NEW from \in Suspect, StepsBackTo(from),
               state' = applied[from].before,
               applied' = Before(applied, from)
        PROVE  Behind(t, applied', state'.tip)
    <3>1. from \in DOMAIN applied /\ from \in Nat
      BY <1>2 DEF Suspect, HeldOK
    <3>2. /\ applied[from].before # None
          /\ state'.tip = ParentOf(applied[from])
      BY <1>2, <2>2, <3>1 DEF StepsBackTo, Follows, ParentOf
    <3>. QED  BY <1>5, <2>2, <3>1, <3>2, BehindCut
  <2>. QED  BY <1>8, <2>1, <2>2 DEF FinishWaiting, StepBack
<1>9. CASE Confirm
  <2> DEFINE c == pending.commit
             epoch == Epoch(pending.before)
             taken == [commit |-> c, before |-> pending.before,
                       baseline |-> bound]
  <2>1. pending \in PendingCommits
    BY <1>9 DEF Confirm, HInv, IInv, TypeOK
  <2>2. /\ c \in Commits /\ epoch \in Nat
        /\ taken \in AppliedEpochs /\ taken.commit = c
    BY <2>1, EpochFacts
    DEF PendingCommits, AppliedEpochs, ClientStates, Epoch, HInv, IInv, TypeOK
  <2>3. state'.tip = c /\ Commit[c].parent = state.tip
    BY <1>9 DEF Confirm, SameEpoch, HInv, IInv, PendingFits
  <2>4. applied' = Take(applied, epoch, taken)
    BY <1>9 DEF Confirm
  <2> HIDE DEF c, epoch, taken
  <2>. QED  BY <1>2, <1>5, <2>2, <2>3, <2>4, BehindTake
<1>10. CASE Restart
  <2>1. DOMAIN applied' = {}
    BY <1>10 DEF Restart
  <2>2. t \in Branch[state'.tip]
    <3>1. CASE state' = state
      BY <1>5, <3>1 DEF Behind
    <3>2. CASE /\ pending # None /\ SameEpoch(state, pending.before)
               /\ state' = pending.state
      <4>1. /\ pending.commit \in Commits
            /\ state'.tip = pending.commit
            /\ Commit[pending.commit].parent = state.tip
        BY <3>2
        DEF SameEpoch, HInv, IInv, PendingFits, TypeOK, PendingCommits
      <4>. QED  BY <1>5, <4>1, BranchFacts DEF Behind
    <3>. QED  BY <1>10, <3>1, <3>2 DEF Restart
  <2>. QED  BY <2>1, <2>2 DEF Behind
<1>11. CASE state'.tip = state.tip /\ applied' = applied
  BY <1>5, <1>11
<1>. QED  BY <1>7, <1>8, <1>9, <1>10, <1>11, EpochChanges DEF HInv

\* What is settled stays: commits that left the window, and all of those
\* before a restart, are never gone back on.
THEOREM SettledForGood ==
    ASSUME Serial
    PROVE  Spec => SettledStays
<1>1. HInv /\ HInv' /\ [Next]_vars => [SettledStay]_vars
  BY SettledStep
<1>. QED
  BY <1>1, HistoryInductive, PTL DEF Spec, SettledStays, SettledStay

----------------------------------------------------------------------------
(* Waiting *)

\* What is waited for after a step that verifies operations was waited for
\* before it.
LEMMA WaitShrinks ==
    ASSUME WaitsForMissing, TypeOK, roster \subseteq roster',
           roster' \in SUBSET Ops, NEW w \in Commits, IsWithheld(w)'
    PROVE  IsWithheld(w)
<1>1. /\ Commit[w].committer \in Members
      /\ Commit[w].frontier \in SUBSET Ops
  BY EpochFacts DEF CommitContents
<1>2. roster \in SUBSET Ops
  BY DEF TypeOK
<1>. QED  BY <1>1, <1>2 DEF WaitsForMissing, IsWithheld

\* A group that waits for nothing, or holds no witness, has no suspects.
LEMMA NoWaitNoSuspect == ~ Waiting => NoSuspect
BY DEF Waiting, WaitingOn, NoSuspect

\* Stepping back leaves no suspect.
LEMMA StepBackNoSuspect ==
    ASSUME IInv, ~ removed, StepBack, UNCHANGED <<witnesses, roster>>
    PROVE  NoSuspect'
<1>1. /\ DOMAIN applied \subseteq Nat
      /\ \A e \in DOMAIN applied : ~ e >= Epoch(state)
  <2>1. Follows(applied, state.tip) /\ DOMAIN applied \subseteq Nat
    BY DEF IInv, Lineage, TypeOK
  <2>2. EpochOf[state.tip] \in Nat
    BY EpochFacts DEF IInv, TypeOK, ClientStates
  <2>. QED  BY <2>1, <2>2 DEF Follows, Epoch
<1>2. /\ \A w \in witnesses : RecordEpoch(w) \in Nat
      /\ \A w : IsWithheld(w)' <=> IsWithheld(w)
  BY EpochFacts DEF IInv, TypeOK, IsWithheld
<1> DEFINE Suspected(w, e) ==
                /\ IsWithheld(w)
                /\ e >= RecordEpoch(w)
                /\ Adds(applied[e].commit)
<1>3. ASSUME NEW w \in witnesses, NEW e \in DOMAIN applied, e \notin Suspect,
             Suspected(w, e)
      PROVE  \E x \in DOMAIN applied : x >= e /\ Own(applied[x].commit)
  <2>1. RecordEpoch(w) <= e
    BY <1>1, <1>2, <1>3
  <2>2. PICK x \in DOMAIN applied : Own(applied[x].commit) /\ ~ x < e
    BY <1>3, <2>1 DEF Suspect
  <2>. QED  BY <1>1, <2>2
<1>4. ASSUME NEW from \in Suspect, StepsBackTo(from),
             applied' = Before(applied, from)
      PROVE  NoSuspect'
  <2>1. from \in DOMAIN applied /\ from \in Nat
    BY <1>1 DEF Suspect
  <2>2. /\ DOMAIN applied' = {e \in DOMAIN applied : e < from}
        /\ \A e \in DOMAIN applied' : applied'[e] = applied[e]
    BY <1>4 DEF Before
  <2>3. ASSUME NEW w \in witnesses, NEW e \in DOMAIN applied', Suspected(w, e)
        PROVE  \E x \in DOMAIN applied' : x >= e /\ Own(applied'[x].commit)
    <3>1. e \in DOMAIN applied /\ e < from /\ e \notin Suspect
      BY <1>1, <1>4, <2>1, <2>2 DEF StepsBackTo
    <3>2. PICK x \in DOMAIN applied : x >= e /\ Own(applied[x].commit)
      BY <1>3, <2>3, <3>1
    <3>3. x < from
      BY <3>2 DEF Suspect
    <3>. QED  BY <2>2, <3>2, <3>3
  <2>. QED  BY <1>2, <2>2, <2>3 DEF NoSuspect, Own, Adds, RecordEpoch
<1>5. ASSUME \A from \in Suspect : ~ StepsBackTo(from), applied' = applied
      PROVE  NoSuspect'
  <2>1. Suspect = {}
    <3>1. SUFFICES ASSUME Suspect # {} PROVE FALSE
      OBVIOUS
    <3>2. Suspect \in SUBSET Nat
      BY <1>1 DEF Suspect
    <3>3. PICK from \in Suspect : \A e \in Suspect : from <= e
      BY <3>1, <3>2, LeastNumber
    <3>4. from \in DOMAIN applied /\ from \in Nat
      BY <1>1 DEF Suspect
    <3>5. PICK w \in witnesses : IsWithheld(w) /\ RecordEpoch(w) <= from
      BY <1>1, <3>4 DEF Suspect
    <3>6. \A e \in DOMAIN applied : e >= from => applied[e].before # None
      BY <1>1, <1>2, <3>4, <3>5 DEF IInv, SuspectsKept
    <3>. QED  BY <1>5, <3>3, <3>6 DEF StepsBackTo
  <2>2. NoSuspect
    BY <1>3, <2>1 DEF NoSuspect
  <2>. QED  BY <1>2, <1>5, <2>2 DEF NoSuspect, Own, Adds, RecordEpoch
<1>. QED  BY <1>4, <1>5 DEF StepBack

\* Every step keeps WaitFits, when a roster that grows only ends waits.
LEMMA NextWaitFits ==
    ASSUME Serial, WaitsForMissing, IInv, WaitFits, [Next]_vars
    PROVE  WaitFits'
<1>1. ASSUME NEW k \in Calls, calls[k] # None,
             ~ (Running(k, "applyCommit") /\ calls[k].verdict = "reject")
      PROVE  NoSuspect
  <2>1. \A l \in Calls : Running(l, "applyCommit") => l = k
    BY <1>1 DEF IInv, OneCall, Running
  <2>. QED  BY <1>1, <2>1 DEF WaitFits
<1>2. ASSUME \A k \in Calls : calls'[k] = None, NoSuspect' PROVE WaitFits'
  BY <1>2 DEF WaitFits, Running
<1>3. ASSUME NEW k \in Calls, calls[k] # None, End(k), NoSuspect'
      PROVE  WaitFits'
  <2>1. \A l \in Calls : calls'[l] = None
    BY <1>3 DEF IInv, TypeOK, OneCall, End
  <2>. QED  BY <1>2, <1>3, <2>1
<1>4. ASSUME NoSuspect, UNCHANGED <<witnesses, applied, roster>>
      PROVE  NoSuspect'
  BY <1>4 DEF NoSuspect, IsWithheld, Own, Adds, RecordEpoch
<1>5. ASSUME NEW k \in Calls, NEW call, Start(k, call),
             call.op = "applyCommit" => call.verdict = "unjudged",
             UNCHANGED <<groupVars, roster>>
      PROVE  WaitFits'
  <2>1. /\ calls'[k] = call
        /\ \A l \in Calls : l # k => calls'[l] = None
    BY <1>5, StartFacts DEF IInv
  <2>2. \A l \in Calls : calls[l] = None
    BY <1>5 DEF Start, MayCall, Idle
  <2>3. NoSuspect
    BY <2>2 DEF WaitFits, Running
  <2>4. NoSuspect'
    BY <1>4, <1>5, <2>3 DEF groupVars
  <2>. QED  BY <1>5, <2>1, <2>4 DEF WaitFits, Running
<1>6. ASSUME NEW op \in Ops, VerifyRoster(op) PROVE WaitFits'
  <2>1. /\ roster \subseteq roster' /\ roster' \in SUBSET Ops
        /\ UNCHANGED <<groupVars, calls>>
    BY <1>6 DEF VerifyRoster, IInv, TypeOK
  <2>2. \A w \in witnesses : IsWithheld(w)' => IsWithheld(w)
    BY <2>1, WaitShrinks DEF IInv, TypeOK
  <2>3. NoSuspect => NoSuspect'
    BY <2>1, <2>2 DEF NoSuspect, Own, Adds, RecordEpoch, groupVars
  <2>4. Waiting' => Waiting
    BY <2>1, <2>2 DEF Waiting, WaitingOn, groupVars
  <2>. QED  BY <2>1, <2>3, <2>4 DEF WaitFits, Running
<1>7. ASSUME NEW k \in Calls, Judge(k) PROVE WaitFits'
  <2>1. calls[k] \in ApplyCalls /\ UNCHANGED <<roster, applied>>
    BY <1>7, CallFacts DEF Judge, IInv
  <2>2. PICK v \in {"accept", "reject"} :
            /\ calls' = [calls EXCEPT ![k].verdict = v]
            /\ v = "accept" => ~ WaitingOn(witnesses')
    BY <1>7 DEF Judge
  <2>3. /\ calls'[k].op = "applyCommit" /\ calls'[k].verdict = v
        /\ calls'[k] # None
        /\ \A l \in Calls : l # k => calls'[l] = None
    <3>1. calls'[k] = [calls[k] EXCEPT !.verdict = v]
      BY <2>2 DEF IInv, TypeOK
    <3>2. /\ calls'[k].op = "applyCommit" /\ calls'[k].verdict = v
          /\ calls'[k] \in ApplyCalls
      BY <2>1, <3>1 DEF ApplyCalls
    <3>3. calls'[k] # None
      BY <3>2, NoneAssumption DEF CallStates
    <3>4. \A l \in Calls : l # k => calls[l] = None
      BY <1>7 DEF IInv, OneCall, Judge, Running
    <3>5. \A l \in Calls : l # k => calls'[l] = calls[l]
      BY <2>2 DEF IInv, TypeOK
    <3>. QED  BY <3>2, <3>3, <3>4, <3>5
  <2>4. v = "accept" => ~ Waiting'
    BY <2>1, <2>2 DEF Waiting, WaitingOn, IsWithheld
  <2>5. v = "accept" => NoSuspect'
    BY <2>4, NoWaitNoSuspect, PTL
  <2>. QED  BY <2>3, <2>4, <2>5 DEF WaitFits, Running
<1>8. ASSUME NEW k \in Calls, FinishWaiting(k) PROVE WaitFits'
  <2>1. ~ removed
    BY <1>8 DEF FinishWaiting, IInv, CallsFit, ApplyFits
  <2>2. NoSuspect'
    BY <1>8, <2>1, StepBackNoSuspect DEF FinishWaiting
  <2>. QED  BY <1>3, <1>8, <2>2 DEF FinishWaiting, Running
<1>9. ASSUME NEW k \in Calls, FinishRejected(k) PROVE WaitFits'
  <2>1. ~ Waiting
    BY <1>9 DEF FinishRejected, WaitFits
  <2>2. NoSuspect'
    BY <1>4, <1>9, <2>1, NoWaitNoSuspect DEF FinishRejected, groupVars
  <2>. QED  BY <1>3, <1>9, <2>2 DEF FinishRejected, Running
<1>10. ASSUME NEW k \in Calls, FinishTaken(k) PROVE WaitFits'
  <2>1. NoSuspect'
    BY <1>10 DEF FinishTaken, Adopt, NoSuspect
  <2>. QED  BY <1>3, <1>10, <2>1 DEF FinishTaken, Running
<1>11. ASSUME NEW k \in Calls,
              CommitFinish(k) \/ EncryptFinish(k) \/ OpenFinish(k)
       PROVE  WaitFits'
  <2>1. /\ calls[k] # None
        /\ ~ Running(k, "applyCommit")
        /\ End(k)
        /\ UNCHANGED <<witnesses, applied, roster>>
    BY <1>11 DEF CommitFinish, EncryptFinish, OpenFinish, Running
  <2>. QED  BY <1>1, <1>3, <1>4, <2>1
<1>12. CASE Confirm \/ Restart
  <2>1. \A k \in Calls : calls'[k] = None
    BY <1>12 DEF Confirm, Restart, MayCall, Idle
  <2>2. NoSuspect'
    BY <1>12 DEF Confirm, Restart, Adopt, NoSuspect
  <2>. QED  BY <1>2, <2>1, <2>2
<1>13. CASE Drop \/ UNCHANGED vars
  <2>1. UNCHANGED <<witnesses, applied, roster, calls>>
    BY <1>13 DEF Drop, vars, groupVars
  <2>2. Waiting' <=> Waiting
    BY <2>1 DEF Waiting, WaitingOn, IsWithheld
  <2>. QED  BY <1>4, <2>1, <2>2 DEF WaitFits, Running
<1>14. ASSUME NEW k \in Calls, NEW c \in Commits,
              ApplyNext(k, c) \/ ApplyRival(k, c) \/ CommitStart(k, c)
       PROVE  WaitFits'
  <2>1. CASE ApplyNext(k, c)
    <3> DEFINE call == [op |-> "applyCommit", commit |-> c, from |-> state,
                        baseline |-> bound, rival |-> Root,
                        verdict |-> "unjudged"]
    <3>1. Start(k, call) /\ UNCHANGED <<groupVars, roster>>
      BY <2>1 DEF ApplyNext
    <3>2. call.verdict = "unjudged"
      OBVIOUS
    <3> HIDE DEF call
    <3>. QED  BY <1>5, <3>1, <3>2
  <2>2. CASE ApplyRival(k, c)
    <3> DEFINE previous == applied[RecordEpoch(c)]
               call == [op |-> "applyCommit", commit |-> c,
                        from |-> previous.before,
                        baseline |-> previous.baseline,
                        rival |-> previous.commit, verdict |-> "unjudged"]
    <3>1. Start(k, call) /\ UNCHANGED <<groupVars, roster>>
      BY <2>2 DEF ApplyRival
    <3>2. call.verdict = "unjudged"
      OBVIOUS
    <3> HIDE DEF call
    <3>. QED  BY <1>5, <3>1, <3>2
  <2>3. CASE CommitStart(k, c)
    <3> DEFINE call == [op |-> "commit", commit |-> c, from |-> state]
    <3>1. Start(k, call) /\ UNCHANGED <<groupVars, roster>>
      BY <2>3 DEF CommitStart
    <3>2. call.op # "applyCommit"
      OBVIOUS
    <3> HIDE DEF call
    <3>. QED  BY <1>5, <3>1, <3>2
  <2>. QED  BY <1>14, <2>1, <2>2, <2>3
<1>15. ASSUME NEW k \in Calls, EncryptStart(k) PROVE WaitFits'
  <2> DEFINE call == [op |-> "encrypt", from |-> state]
  <2>1. Start(k, call) /\ UNCHANGED <<groupVars, roster>>
    BY <1>15 DEF EncryptStart
  <2>2. call.op # "applyCommit"
    OBVIOUS
  <2> HIDE DEF call
  <2>. QED  BY <1>5, <2>1, <2>2
<1>16. ASSUME NEW k \in Calls, NEW m \in Messages, OpenStart(k, m)
       PROVE  WaitFits'
  <2> DEFINE call == [op |-> "open", message |-> m, from |-> state]
  <2>1. Start(k, call) /\ UNCHANGED <<groupVars, roster>>
    BY <1>16 DEF OpenStart
  <2>2. call.op # "applyCommit"
    OBVIOUS
  <2> HIDE DEF call
  <2>. QED  BY <1>5, <2>1, <2>2
<1>. QED
  BY <1>6, <1>7, <1>8, <1>9, <1>10, <1>11, <1>12, <1>13, <1>14, <1>15, <1>16
  DEF Next, CallStep

\* Between calls, a group that waits has stepped back from every add that may
\* rest on rights the withheld operations revoke, under every policy whose
\* waits end, and stay ended, as operations are verified.
THEOREM SteppedBackWhileWaiting ==
    ASSUME Serial, WaitsForMissing
    PROVE  Spec => []NoSuspectWhileWaiting
<1>1. Init => WaitFits
  BY DEF Init, WaitFits, NoSuspect, Running
<1>2. IInv /\ WaitFits /\ [Next]_vars => WaitFits'
  BY NextWaitFits
<1>3. WaitFits => NoSuspectWhileWaiting
  BY DEF WaitFits, NoSuspectWhileWaiting, NoSuspect, Idle, Running
<1>. QED  BY <1>1, <1>2, <1>3, Inductive, PTL DEF Spec

=============================================================================
