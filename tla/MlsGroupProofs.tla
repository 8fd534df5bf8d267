--------------------------- MODULE MlsGroupProofs ---------------------------
(***************************************************************************)
(* Proofs about MlsGroup, for every catalogue of commits, policy, window   *)
(* and number of calls.  TypeOK needs no discipline of the caller; the     *)
(* invariants of the branch assume Serial, a caller that awaits each call. *)
(***************************************************************************)
EXTENDS MlsGroup, TLAPS

----------------------------------------------------------------------------
(* Lemmas *)

\* The epochs of the tree are numbers, one more at each commit.
LEMMA EpochFacts ==
    /\ \A t \in Tips : EpochOf[t] \in Nat
    /\ \A c \in Commits :
        /\ Commit[c] \in CommitContents
        /\ Commit[c].parent \in Tips
        /\ Commit[c].frontier \in SUBSET Ops
        /\ RecordEpoch(c) \in Nat
        /\ EpochOf[c] = RecordEpoch(c) + 1
        /\ c # Root
        /\ c \in Tips
BY CatalogueAssumption DEF CommitContents, RecordEpoch, Tips

\* Taking a commit changes its own entry and, of the others, only the states
\* they keep: those before the window are dropped.
LEMMA TakeFacts ==
    ASSUME NEW held, DOMAIN held \subseteq Nat,
           \A e \in DOMAIN held : held[e] \in AppliedEpochs,
           NEW epoch \in Nat, NEW taken \in AppliedEpochs
    PROVE  /\ DOMAIN Take(held, epoch, taken) = DOMAIN held \cup {epoch}
           /\ Take(held, epoch, taken)[epoch] = taken
           /\ \A e \in DOMAIN held \ {epoch} :
                LET entry == Take(held, epoch, taken)[e] IN
                /\ entry \in AppliedEpochs
                /\ entry.commit = held[e].commit
                /\ entry.baseline = held[e].baseline
                /\ entry.before = IF e < epoch + 1 - Retained THEN None
                                  ELSE held[e].before
           /\ \A e \in DOMAIN held \cup {epoch} :
                Take(held, epoch, taken)[e] \in AppliedEpochs
<1> DEFINE T == Take(held, epoch, taken)
<1>1. DOMAIN T = DOMAIN held \cup {epoch} /\ T[epoch] = taken
  BY DEF Take
<1>2. ASSUME NEW e \in DOMAIN held \ {epoch}
      PROVE  /\ T[e] \in AppliedEpochs
             /\ T[e].commit = held[e].commit
             /\ T[e].baseline = held[e].baseline
             /\ T[e].before = IF e < epoch + 1 - Retained THEN None
                              ELSE held[e].before
  <2>1. held[e] \in AppliedEpochs
    OBVIOUS
  <2>2. T[e] = IF e < epoch + 1 - Retained
               THEN [held[e] EXCEPT !.before = None] ELSE held[e]
    BY DEF Take
  <2>. QED  BY <2>1, <2>2 DEF AppliedEpochs
<1>. QED  BY <1>1, <1>2

\* Dropping the later entries leaves the earlier ones as they are.
LEMMA CutFacts ==
    ASSUME NEW held, NEW epoch
    PROVE  /\ DOMAIN UpTo(held, epoch) = {e \in DOMAIN held : e <= epoch}
           /\ \A e \in DOMAIN UpTo(held, epoch) :
                UpTo(held, epoch)[e] = held[e]
           /\ DOMAIN Before(held, epoch) = {e \in DOMAIN held : e < epoch}
           /\ \A e \in DOMAIN Before(held, epoch) :
                Before(held, epoch)[e] = held[e]
BY DEF UpTo, Before

\* Whatever is taken or dropped, the entries keep their type.
HeldOK(held) ==
    /\ DOMAIN held \subseteq Nat
    /\ \A e \in DOMAIN held : held[e] \in AppliedEpochs

\* Taking a commit keeps the map of those held well formed.
LEMMA TakeTyped ==
    ASSUME NEW held, HeldOK(held),
           NEW epoch \in Nat, NEW taken \in AppliedEpochs
    PROVE  HeldOK(Take(held, epoch, taken))
<1> DEFINE T == Take(held, epoch, taken)
<1>1. DOMAIN T \subseteq Nat
  BY DEF Take, HeldOK
<1>2. ASSUME NEW e \in DOMAIN T PROVE T[e] \in AppliedEpochs
  <2>1. CASE e = epoch
    BY <2>1 DEF Take
  <2>2. CASE e # epoch
    <3>1. e \in DOMAIN held /\ held[e] \in AppliedEpochs
      BY <2>2 DEF Take, HeldOK
    <3>2. \/ T[e] = held[e]
          \/ T[e] = [held[e] EXCEPT !.before = None]
      BY <2>2, <3>1 DEF Take
    <3>. QED  BY <3>1, <3>2 DEF AppliedEpochs
  <2>. QED  BY <2>1, <2>2
<1>. QED  BY <1>1, <1>2 DEF HeldOK

\* So does cutting it at an epoch.
LEMMA CutTyped ==
    ASSUME NEW held, HeldOK(held), NEW epoch
    PROVE  HeldOK(UpTo(held, epoch)) /\ HeldOK(Before(held, epoch))
BY DEF HeldOK, UpTo, Before

\* What a call in flight is, by the operation it runs.
LEMMA CallFacts ==
    ASSUME TypeOK, NEW k \in Calls
    PROVE  /\ Running(k, "applyCommit") => calls[k] \in ApplyCalls
           /\ Running(k, "commit") => calls[k] \in CommitCalls
           /\ Running(k, "encrypt") => calls[k] \in EncryptCalls
           /\ Running(k, "open") => calls[k] \in OpenCalls
BY DEF TypeOK, Running, CallStates, ApplyCalls, CommitCalls, EncryptCalls,
       OpenCalls

----------------------------------------------------------------------------
(* Type correctness *)

\* A state resumed is one of the device's states, or the one entered.
LEMMA ResumedFacts ==
    ASSUME NEW s, NEW t \in Resumed(s)
    PROVE  /\ t = s \/ t \in resumable
           /\ t.tip = s.tip
BY DEF Resumed, SameEpoch

\* The group starts with well-typed state.
LEMMA InitTypeOK == Init => TypeOK
<1> SUFFICES ASSUME Init PROVE TypeOK
  OBVIOUS
<1>1. state \in ClientStates
  BY DEF Init, ClientStates, Tips
<1>2. /\ DOMAIN applied = {}
      /\ calls \in [Calls -> CallStates \cup {None}]
  BY DEF Init
<1>3. bound \in SUBSET Ops /\ roster \in SUBSET Ops
  BY ParameterAssumption DEF Init
<1>. QED  BY <1>1, <1>2, <1>3 DEF Init, TypeOK

\* A call's answer, confirm, a restart or a step of the application leaves
\* every variable in its type.
LEMMA NextTypeOK == TypeOK /\ [Next]_vars => TypeOK'
<1> SUFFICES ASSUME TypeOK, [Next]_vars PROVE TypeOK'
  OBVIOUS
<1> USE EpochFacts
<1>1. ASSUME NEW op \in Ops, VerifyRoster(op) PROVE TypeOK'
  BY <1>1 DEF VerifyRoster, TypeOK, groupVars, traceVars
<1>2. ASSUME NEW k \in Calls, NEW c \in Commits, ApplyNext(k, c) PROVE TypeOK'
  <2>1. [op |-> "applyCommit", commit |-> c, from |-> state,
         baseline |-> bound, rival |-> Root, verdict |-> "unjudged"]
            \in CallStates
    BY DEF TypeOK, CallStates, ApplyCalls, Tips
  <2>. QED  BY <1>2, <2>1 DEF ApplyNext, Start, TypeOK, groupVars, traceVars
<1>3. ASSUME NEW k \in Calls, NEW c \in Commits, ApplyRival(k, c) PROVE TypeOK'
  <2> DEFINE previous == applied[RecordEpoch(c)]
  <2>1. /\ RecordEpoch(c) \in DOMAIN applied
        /\ previous.before # None
    BY <1>3 DEF ApplyRival, Answer
  <2>2. /\ previous.before \in ClientStates
        /\ previous.baseline \in SUBSET Ops
        /\ previous.commit \in Commits
    BY <2>1 DEF TypeOK, AppliedEpochs
  <2>3. [op |-> "applyCommit", commit |-> c, from |-> previous.before,
         baseline |-> previous.baseline, rival |-> previous.commit,
         verdict |-> "unjudged"] \in CallStates
    BY <2>2 DEF CallStates, ApplyCalls, Tips
  <2>. QED  BY <1>3, <2>3 DEF ApplyRival, Start, TypeOK, groupVars, traceVars
<1>4. ASSUME NEW k \in Calls, NEW c \in Commits, CommitStart(k, c) PROVE TypeOK'
  <2>1. [op |-> "commit", commit |-> c, from |-> state] \in CallStates
    BY DEF TypeOK, CallStates, CommitCalls
  <2>. QED  BY <1>4, <2>1 DEF CommitStart, Start, TypeOK, groupVars, traceVars
<1>5. ASSUME NEW k \in Calls, NEW m \in Messages, OpenStart(k, m) PROVE TypeOK'
  <2>1. [op |-> "open", message |-> m, from |-> state] \in CallStates
    BY DEF TypeOK, CallStates, OpenCalls
  <2>. QED  BY <1>5, <2>1 DEF OpenStart, Start, TypeOK, groupVars, traceVars
<1>6. ASSUME NEW k \in Calls, EncryptStart(k) PROVE TypeOK'
  <2>1. [op |-> "encrypt", from |-> state] \in CallStates
    BY DEF TypeOK, CallStates, EncryptCalls
  <2>. QED  BY <1>6, <2>1 DEF EncryptStart, Start, TypeOK, groupVars, traceVars
<1>7. ASSUME NEW k \in Calls, Judge(k) PROVE TypeOK'
  <2>1. calls[k] \in ApplyCalls
    BY <1>7, CallFacts DEF Judge
  <2>2. PICK v \in {"accept", "reject"} :
            calls' = [calls EXCEPT ![k].verdict = v]
    BY <1>7 DEF Judge
  <2>3. [calls[k] EXCEPT !.verdict = v] \in CallStates
    BY <2>1 DEF ApplyCalls, CallStates
  <2>4. calls' \in [Calls -> CallStates \cup {None}]
    BY <2>2, <2>3 DEF TypeOK
  <2>5. witnesses' \in SUBSET Commits
    BY <1>7, <2>1 DEF Judge, TypeOK, ApplyCalls
  <2>. QED  BY <1>7, <2>4, <2>5 DEF Judge, TypeOK, traceVars
<1>8. ASSUME NEW k \in Calls, FinishWaiting(k) PROVE TypeOK'
  <2> DEFINE Typed ==
                /\ state' \in ClientStates
                /\ bound' \in SUBSET Ops
                /\ resumable' \in SUBSET ClientStates
                /\ DOMAIN applied' \subseteq Nat
                /\ \A e \in DOMAIN applied' : applied'[e] \in AppliedEpochs
  <2>1. Typed
    <3>1. CASE UNCHANGED <<resumable, state, bound, applied>>
      BY <3>1 DEF TypeOK
    <3>2. ASSUME NEW from \in Suspect, StepsBackTo(from),
                 resumable' = resumable \cup {state} \cup
                    {applied[e].before :
                        e \in {x \in DOMAIN applied : x > from}},
                 state' = applied[from].before,
                 bound' = applied[from].baseline,
                 applied' = Before(applied, from)
          PROVE  Typed
      <4>1. from \in DOMAIN applied
        BY DEF Suspect
      <4>2. \A e \in DOMAIN applied :
                e >= from => applied[e].before \in ClientStates
        BY <3>2 DEF StepsBackTo, TypeOK, AppliedEpochs
      <4>3. from >= from
        BY <4>1 DEF TypeOK
      <4>4. HeldOK(applied)
        BY DEF HeldOK, TypeOK
      <4>5. state' \in ClientStates /\ bound' \in SUBSET Ops
        BY <3>2, <4>1, <4>2, <4>3, <4>4 DEF HeldOK, AppliedEpochs
      <4>6. resumable' \in SUBSET ClientStates
        <5>1. {applied[e].before : e \in {x \in DOMAIN applied : x > from}}
                \subseteq ClientStates
          BY <4>1, <4>2, <4>4 DEF HeldOK
        <5>. QED  BY <3>2, <5>1 DEF TypeOK
      <4>7. /\ DOMAIN applied' \subseteq Nat
            /\ \A e \in DOMAIN applied' : applied'[e] \in AppliedEpochs
        BY <3>2, <4>4, CutTyped DEF HeldOK
      <4>. QED  BY <4>5, <4>6, <4>7
    <3> HIDE DEF Typed
    <3>. QED  BY <1>8, <3>1, <3>2 DEF FinishWaiting, StepBack
  <2>. QED  BY <1>8, <2>1 DEF FinishWaiting, End, TypeOK, traceVars
<1>9. ASSUME NEW k \in Calls, FinishRejected(k) PROVE TypeOK'
  BY <1>9 DEF FinishRejected, End, TypeOK, groupVars, traceVars
<1>10. ASSUME NEW k \in Calls, FinishTaken(k) PROVE TypeOK'
  <2> DEFINE c == calls[k].commit
             taken == [commit |-> c, before |-> calls[k].from,
                       baseline |-> calls[k].baseline]
  <2>1. calls[k] \in ApplyCalls
    BY <1>10, CallFacts DEF FinishTaken
  <2>2. /\ c \in Commits
        /\ taken \in AppliedEpochs
        /\ StateAfter(calls[k].from, c) \in ClientStates
    BY <2>1 DEF ApplyCalls, AppliedEpochs, StateAfter, ClientStates
  <2>3. RecordEpoch(c) \in Nat
    BY <2>2
  <2> DEFINE epoch == RecordEpoch(c)
             after == Take(applied, epoch, taken)
  <2>5. /\ DOMAIN applied' \subseteq Nat
        /\ \A e \in DOMAIN applied' : applied'[e] \in AppliedEpochs
    <3>1. applied' = UpTo(after, epoch) \/ applied' = after
      BY <1>10 DEF FinishTaken
    <3>2. HeldOK(applied)
      BY DEF HeldOK, TypeOK
    <3>3. taken \in AppliedEpochs /\ epoch \in Nat
      BY <2>2, <2>3
    <3> HIDE DEF taken, epoch
    <3>4. HeldOK(after)
      BY <3>2, <3>3, TakeTyped
    <3> HIDE DEF after
    <3>. QED  BY <3>1, <3>4, CutTyped DEF HeldOK
  <2>6. state' \in ClientStates
    BY <1>10, <2>2, ResumedFacts DEF FinishTaken, TypeOK
  <2>7. resumable' \in SUBSET ClientStates /\ bound' \in SUBSET Ops
    BY <1>10, <2>2 DEF FinishTaken, Adopt, Ahead, TypeOK
  <2>. QED
    BY <1>10, <2>5, <2>6, <2>7
    DEF FinishTaken, Adopt, End, Expelled, TypeOK, traceVars
<1>11. ASSUME NEW k \in Calls, CommitFinish(k) PROVE TypeOK'
  <2>1. calls[k] \in CommitCalls
    BY <1>11, CallFacts DEF CommitFinish
  <2>2. pending' \in PendingCommits /\ made' \in SUBSET Commits
    BY <1>11, <2>1
    DEF CommitFinish, CommitCalls, PendingCommits, StateAfter, ClientStates,
        TypeOK
  <2>. QED  BY <1>11, <2>2 DEF CommitFinish, End, TypeOK, traceVars
<1>12. ASSUME NEW k \in Calls, EncryptFinish(k) PROVE TypeOK'
  <2>1. calls[k] \in EncryptCalls
    BY <1>12, CallFacts DEF EncryptFinish
  <2>2. /\ state' \in ClientStates
        /\ <<calls[k].from.tip, calls[k].from.gen>> \in Tips \X Nat
    BY <1>12, <2>1 DEF EncryptFinish, EncryptCalls, ClientStates
  <2>. QED  BY <1>12, <2>2 DEF EncryptFinish, End, TypeOK
<1>13. ASSUME NEW k \in Calls, OpenFinish(k) PROVE TypeOK'
  <2>1. calls[k] \in OpenCalls
    BY <1>13, CallFacts DEF OpenFinish
  <2>2. state' \in ClientStates /\ calls[k].message \in Messages
    BY <1>13, <2>1 DEF OpenFinish, OpenCalls, ClientStates
  <2>. QED  BY <1>13, <2>2 DEF OpenFinish, End, TypeOK
<1>14. ASSUME Confirm PROVE TypeOK'
  <2> DEFINE taken == [commit |-> pending.commit, before |-> pending.before,
                       baseline |-> bound]
  <2>1. pending \in PendingCommits
    BY <1>14 DEF Confirm, TypeOK
  <2>2. /\ pending.commit \in Commits
        /\ pending.state \in ClientStates
        /\ taken \in AppliedEpochs
        /\ Epoch(pending.before) \in Nat
    BY <2>1 DEF PendingCommits, AppliedEpochs, ClientStates, Epoch, TypeOK
  <2> DEFINE epoch == Epoch(pending.before)
             after == Take(applied, epoch, taken)
  <2>3. /\ DOMAIN applied' \subseteq Nat
        /\ \A e \in DOMAIN applied' : applied'[e] \in AppliedEpochs
    <3>1. applied' = after
      BY <1>14 DEF Confirm
    <3>2. HeldOK(applied)
      BY DEF HeldOK, TypeOK
    <3>3. taken \in AppliedEpochs /\ epoch \in Nat
      BY <2>2
    <3> HIDE DEF taken, epoch
    <3>4. HeldOK(after)
      BY <3>2, <3>3, TakeTyped
    <3> HIDE DEF after
    <3>. QED  BY <3>1, <3>4, CutTyped DEF HeldOK
  <2>. QED  BY <1>14, <2>2, <2>3 DEF Confirm, Adopt, TypeOK, traceVars
<1>15. ASSUME Drop PROVE TypeOK'
  BY <1>15 DEF Drop, TypeOK, traceVars
<1>16. ASSUME Restart PROVE TypeOK'
  <2>1. state' \in ClientStates /\ bound' \in SUBSET Ops
    BY <1>16 DEF Restart, TypeOK, PendingCommits
  <2>. QED  BY <1>16, <2>1 DEF Restart, Expelled, TypeOK
<1>17. CASE UNCHANGED vars
  BY <1>17 DEF vars, groupVars, traceVars, TypeOK
<1>. QED
  BY <1>1, <1>2, <1>3, <1>4, <1>5, <1>6, <1>7, <1>8, <1>9, <1>10, <1>11,
     <1>12, <1>13, <1>14, <1>15, <1>16, <1>17
  DEF Next, CallStep

\* Every reachable state of the group is well typed, whether or not its
\* caller keeps calls apart.
THEOREM TypeCorrect == Spec => []TypeOK
BY InitTypeOK, NextTypeOK, PTL DEF Spec

----------------------------------------------------------------------------
(* The inductive invariant of a group whose caller awaits each call *)

OneCall == \A k, l \in Calls : calls[k] # None /\ calls[l] # None => k = l

\* A call in flight still finds the group as it read it: an applyCommit in the
\* epoch, and with the baseline, of its commit's parent, a commit permitted
\* where it will stand, a message in the epoch in use.
ApplyFits(call) ==
    LET c == call.commit
        e == RecordEpoch(c)
    IN  /\ ~ removed
        /\ call.from.tip = Commit[c].parent
        /\ call.baseline = FrontierAt(Commit[c].parent)
        /\ call.rival = Root => state.tip = Commit[c].parent
        /\ call.rival # Root =>
            /\ e \in DOMAIN applied
            /\ applied[e].commit # c
            /\ Commit[applied[e].commit].parent = Commit[c].parent
            /\ \A x \in DOMAIN applied : x >= e => applied[x].before # None
        /\ call.verdict = "accept" => Permitted(c)

CommitFits(call) ==
    /\ state.tip = Commit[call.commit].parent
    /\ Permitted(call.commit)

CallsFit ==
    \A k \in Calls :
        /\ Running(k, "applyCommit") => ApplyFits(calls[k])
        /\ Running(k, "commit") => CommitFits(calls[k])
        /\ Running(k, "encrypt") => calls[k].from.tip = state.tip
        /\ Running(k, "open") => calls[k].from.tip = state.tip

\* The pending commit was permitted in the epoch it was made in.
PendingFits ==
    pending # None =>
        /\ pending.before.tip = Commit[pending.commit].parent
        /\ pending.state.tip = pending.commit
        /\ Permitted(pending.commit)

\* The states dropped are those of the oldest epochs held.
Suffix(held) ==
    \A x, y \in DOMAIN held :
        x <= y /\ held[x].before # None => held[y].before # None
SuffixKept == ~ removed => Suffix(applied)

IInv ==
    /\ TypeOK
    /\ OneCall
    /\ CallsFit
    /\ PendingFits
    /\ Lineage
    /\ BranchPermitted
    /\ OldStatesDropped
    /\ SuffixKept
    /\ SuspectsKept

----------------------------------------------------------------------------
(* Taking a commit, cutting the branch, switching to a rival *)

\* Taking c after the branch that ends at its parent gives the branch that
\* ends at c, with its older states dropped.
LEMMA TakeBranch ==
    ASSUME NEW held, HeldOK(held), NEW c \in Commits,
           NEW before \in ClientStates, before.tip = Commit[c].parent,
           Follows(held, Commit[c].parent),
           NEW taken,
           taken = [commit |-> c, before |-> before,
                    baseline |-> FrontierAt(Commit[c].parent)]
    PROVE  /\ Follows(Take(held, RecordEpoch(c), taken), c)
           /\ Suffix(held) => Suffix(Take(held, RecordEpoch(c), taken))
           /\ /\ Permitted(c)
              /\ \A e \in DOMAIN held : Permitted(held[e].commit)
              => \A e \in DOMAIN Take(held, RecordEpoch(c), taken) :
                    Permitted(Take(held, RecordEpoch(c), taken)[e].commit)
<1> DEFINE epoch == RecordEpoch(c)
           T == Take(held, epoch, taken)
<1>1. /\ epoch \in Nat
      /\ EpochOf[Commit[c].parent] = epoch
      /\ EpochOf[c] = epoch + 1
  BY EpochFacts DEF RecordEpoch
<1>2. /\ taken.commit = c
      /\ taken.before = before
      /\ taken.baseline = FrontierAt(Commit[c].parent)
  OBVIOUS
<1>3. /\ DOMAIN T = DOMAIN held \cup {epoch}
      /\ T[epoch] = taken
  BY DEF Take
<1>4. ASSUME NEW e \in DOMAIN held
      PROVE  /\ e \in Nat
             /\ e < epoch
             /\ T[e].commit = held[e].commit
             /\ T[e].baseline = held[e].baseline
             /\ T[e].before = IF e < epoch + 1 - Retained THEN None
                              ELSE held[e].before
  <2>1. e \in Nat /\ e < epoch /\ held[e] \in AppliedEpochs
    BY <1>1 DEF HeldOK, Follows
  <2>2. T[e] = IF e < epoch + 1 - Retained
               THEN [held[e] EXCEPT !.before = None] ELSE held[e]
    BY <1>1, <2>1 DEF Take
  <2>. QED  BY <2>1, <2>2 DEF AppliedEpochs
<1> HIDE DEF T
<1>5. Follows(T, c)
  <2> SUFFICES ASSUME NEW e \in DOMAIN T
               PROVE  /\ e < EpochOf[c]
                      /\ RecordEpoch(T[e].commit) = e
                      /\ T[e].baseline = FrontierAt(Commit[T[e].commit].parent)
                      /\ T[e].before # None =>
                            T[e].before.tip = Commit[T[e].commit].parent
                      /\ e + 1 = EpochOf[c] => c = T[e].commit
                      /\ e + 1 < EpochOf[c] =>
                            /\ e + 1 \in DOMAIN T
                            /\ Commit[T[e + 1].commit].parent = T[e].commit
    BY DEF Follows
  <2>1. CASE e = epoch
    BY <1>1, <1>2, <1>3, <2>1
  <2>2. CASE e # epoch
    <3>1. e \in DOMAIN held
      BY <1>3, <2>2
    <3>2. /\ e \in Nat
          /\ e < epoch
          /\ T[e].commit = held[e].commit
          /\ T[e].baseline = held[e].baseline
          /\ T[e].before # None => T[e].before = held[e].before
      BY <1>4, <3>1
    <3>3. /\ RecordEpoch(held[e].commit) = e
          /\ held[e].baseline = FrontierAt(Commit[held[e].commit].parent)
          /\ held[e].before # None =>
                held[e].before.tip = Commit[held[e].commit].parent
          /\ e + 1 = epoch => Commit[c].parent = held[e].commit
          /\ e + 1 < epoch =>
                /\ e + 1 \in DOMAIN held
                /\ Commit[held[e + 1].commit].parent = held[e].commit
      BY <1>1, <3>1 DEF Follows
    <3>4. e + 1 < EpochOf[c] =>
                /\ e + 1 \in DOMAIN T
                /\ Commit[T[e + 1].commit].parent = T[e].commit
      <4>1. CASE e + 1 = epoch
        BY <1>2, <1>3, <3>2, <3>3, <4>1
      <4>2. CASE e + 1 < epoch
        <5>1. e + 1 \in DOMAIN held
          BY <3>3, <4>2
        <5>2. T[e + 1].commit = held[e + 1].commit
          BY <1>4, <5>1
        <5>. QED  BY <1>3, <3>2, <3>3, <4>2, <5>1, <5>2
      <4>. QED  BY <1>1, <3>2, <4>1, <4>2
    <3>. QED  BY <1>1, <3>2, <3>3, <3>4
  <2>. QED  BY <2>1, <2>2
<1>6. ASSUME Suffix(held) PROVE Suffix(T)
  <2> SUFFICES ASSUME NEW x \in DOMAIN T, NEW y \in DOMAIN T, x <= y,
                      T[x].before # None
               PROVE  T[y].before # None
    BY DEF Suffix
  <2>1. CASE y = epoch
    BY <1>2, <1>3, <2>1, NoneAssumption
  <2>2. CASE y # epoch
    <3>1. y \in DOMAIN held /\ y < epoch /\ y \in Nat
      BY <1>3, <1>4, <2>2
    <3>2. x \in DOMAIN held /\ x \in Nat
      BY <1>1, <1>3, <1>4, <3>1
    <3>3. ~ x < epoch + 1 - Retained /\ held[x].before # None
      BY <1>4, <3>2
    <3>4. held[y].before # None
      BY <1>6, <3>1, <3>2, <3>3 DEF Suffix
    <3>5. ~ y < epoch + 1 - Retained
      BY <1>1, <3>1, <3>2, <3>3, ParameterAssumption
    <3>. QED  BY <1>4, <3>1, <3>4, <3>5
  <2>. QED  BY <2>1, <2>2
<1>7. ASSUME Permitted(c), \A e \in DOMAIN held : Permitted(held[e].commit)
      PROVE  \A e \in DOMAIN T : Permitted(T[e].commit)
  BY <1>2, <1>3, <1>4, <1>7
<1>. QED  BY <1>5, <1>6, <1>7 DEF T

\* However the branch was, taking a commit for an epoch leaves the state
\* before a commit only to the Retained epochs before the one it leads to.
LEMMA TakeDrops ==
    ASSUME NEW held, HeldOK(held), NEW epoch \in Nat,
           NEW taken \in AppliedEpochs,
           NEW e \in DOMAIN Take(held, epoch, taken),
           Take(held, epoch, taken)[e].before # None
    PROVE  e \in Nat /\ e >= epoch + 1 - Retained
<1>1. e \in Nat
  BY DEF Take, HeldOK
<1>2. CASE e = epoch
  BY <1>2, ParameterAssumption
<1>3. CASE e # epoch /\ e < epoch + 1 - Retained
  <2>1. e \in DOMAIN held
    BY <1>3 DEF Take
  <2>2. held[e] \in AppliedEpochs
    BY <2>1 DEF HeldOK
  <2>3. Take(held, epoch, taken)[e] = [held[e] EXCEPT !.before = None]
    BY <1>3, <2>1 DEF Take
  <2>. QED  BY <2>2, <2>3 DEF AppliedEpochs
<1>. QED  BY <1>1, <1>2, <1>3, ParameterAssumption

\* Cutting the branch before an epoch held leaves the branch that ends at the
\* parent of the commit taken for it.
LEMMA CutBranch ==
    ASSUME NEW held, HeldOK(held), NEW tip \in Tips, Follows(held, tip),
           NEW from \in DOMAIN held
    PROVE  /\ Follows(Before(held, from), Commit[held[from].commit].parent)
           /\ Suffix(held) => Suffix(Before(held, from))
<1> DEFINE B == Before(held, from)
           parent == Commit[held[from].commit].parent
<1>1. /\ from \in Nat
      /\ EpochOf[parent] = from
      /\ from < EpochOf[tip]
      /\ EpochOf[tip] \in Nat
  BY EpochFacts DEF HeldOK, Follows, RecordEpoch
<1>2. /\ DOMAIN B = {e \in DOMAIN held : e < from}
      /\ \A e \in DOMAIN B : B[e] = held[e]
  BY CutFacts
<1> HIDE DEF B, parent
<1>3. ASSUME NEW e \in DOMAIN B
      PROVE  /\ e < EpochOf[parent]
             /\ RecordEpoch(B[e].commit) = e
             /\ B[e].baseline = FrontierAt(Commit[B[e].commit].parent)
             /\ B[e].before # None =>
                    B[e].before.tip = Commit[B[e].commit].parent
             /\ e + 1 = EpochOf[parent] => parent = B[e].commit
             /\ e + 1 < EpochOf[parent] =>
                    /\ e + 1 \in DOMAIN B
                    /\ Commit[B[e + 1].commit].parent = B[e].commit
  <2>1. e \in DOMAIN held /\ e \in Nat /\ e < from /\ B[e] = held[e]
    BY <1>2 DEF HeldOK
  <2>2. /\ RecordEpoch(held[e].commit) = e
        /\ held[e].baseline = FrontierAt(Commit[held[e].commit].parent)
        /\ held[e].before # None =>
                held[e].before.tip = Commit[held[e].commit].parent
        /\ e + 1 < EpochOf[tip] =>
                /\ e + 1 \in DOMAIN held
                /\ Commit[held[e + 1].commit].parent = held[e].commit
    BY <2>1 DEF Follows
  <2>3. /\ e + 1 \in DOMAIN held
        /\ Commit[held[e + 1].commit].parent = held[e].commit
    BY <1>1, <2>1, <2>2
  <2>4. e + 1 = from => parent = held[e].commit
    BY <2>3 DEF parent
  <2>5. e + 1 < from => e + 1 \in DOMAIN B /\ B[e + 1] = held[e + 1]
    BY <1>2, <2>3
  <2>. QED  BY <1>1, <2>1, <2>2, <2>3, <2>4, <2>5
<1>4. Follows(B, parent)
  BY <1>3 DEF Follows
<1>5. Suffix(held) => Suffix(B)
  BY <1>2 DEF Suffix
<1>. QED  BY <1>4, <1>5 DEF B, parent

\* Switching to a rival is cutting the branch before its epoch and taking it.
LEMMA SwitchFacts ==
    ASSUME NEW held, HeldOK(held), NEW epoch \in Nat, NEW taken
    PROVE  UpTo(Take(held, epoch, taken), epoch) =
                Take(Before(held, epoch), epoch, taken)
<1> DEFINE T == Take(held, epoch, taken)
           L == UpTo(T, epoch)
           R == Take(Before(held, epoch), epoch, taken)
<1>1. DOMAIN L = DOMAIN R
  BY DEF UpTo, Take, Before, HeldOK
<1>2. ASSUME NEW e \in DOMAIN L PROVE L[e] = R[e]
  <2>1. /\ e \in DOMAIN held \cup {epoch}
        /\ e <= epoch
        /\ L[e] = T[e]
    BY <1>2 DEF UpTo, Take
  <2>2. CASE e = epoch
    BY <2>1, <2>2 DEF Take
  <2>3. CASE e # epoch
    <3>1. e \in DOMAIN held /\ e \in Nat /\ e < epoch
      BY <2>1, <2>3 DEF HeldOK
    <3>2. e \in DOMAIN Before(held, epoch) /\ Before(held, epoch)[e] = held[e]
      BY <3>1 DEF Before
    <3>. QED  BY <2>1, <2>3, <3>1, <3>2 DEF Take
  <2>. QED  BY <2>2, <2>3
<1>3. /\ L = [e \in DOMAIN L |-> L[e]]
      /\ R = [e \in DOMAIN R |-> R[e]]
  BY DEF UpTo, Take
<1> HIDE DEF L, R
<1>4. L = R
  BY <1>1, <1>2, <1>3
<1>. QED  BY <1>4 DEF L, R

----------------------------------------------------------------------------
(* Preservation of the invariant *)

\* What the group's own variables satisfy, whatever calls are in flight.
GroupInv ==
    /\ PendingFits
    /\ Lineage
    /\ BranchPermitted
    /\ OldStatesDropped
    /\ SuffixKept
    /\ SuspectsKept

\* A call that starts when its caller awaits each call is the only one.
LEMMA StartFacts ==
    ASSUME Serial, TypeOK, NEW k \in Calls, NEW call, Start(k, call)
    PROVE  /\ calls'[k] = call
           /\ \A l \in Calls : l # k => calls'[l] = None
           /\ OneCall'
<1>1. \A l \in Calls : calls[l] = None
  BY DEF Start, MayCall, Idle
<1>2. calls' = [calls EXCEPT ![k] = call] /\ DOMAIN calls = Calls
  BY DEF Start, TypeOK
<1>3. /\ calls'[k] = call
      /\ \A l \in Calls : l # k => calls'[l] = None
  BY <1>1, <1>2
<1>. QED  BY <1>3 DEF OneCall

\* Once it ends there is none.
LEMMA EndFacts ==
    ASSUME TypeOK, OneCall, NEW k \in Calls, calls[k] # None, End(k)
    PROVE  OneCall' /\ CallsFit'
<1>1. \A l \in Calls : calls'[l] = None
  BY DEF TypeOK, OneCall, End
<1>. QED  BY <1>1 DEF OneCall, CallsFit, Running

\* A step that leaves the group's variables alone leaves GroupInv alone.
LEMMA GroupStutter ==
    ASSUME GroupInv, UNCHANGED groupVars
    PROVE  GroupInv'
BY DEF GroupInv, groupVars, PendingFits, Lineage, BranchPermitted,
       OldStatesDropped, SuffixKept, SuspectsKept, Epoch

\* So does one that changes the state in use within its epoch.
LEMMA GroupSameEpoch ==
    ASSUME GroupInv, state'.tip = state.tip,
           UNCHANGED <<removed, bound, pending, applied, witnesses>>
    PROVE  GroupInv'
BY DEF GroupInv, PendingFits, Lineage, BranchPermitted, OldStatesDropped,
       SuffixKept, SuspectsKept, Epoch

\* The group starts on the branch of no commits.
LEMMA InitIInv == Init => IInv
<1> SUFFICES ASSUME Init PROVE IInv
  OBVIOUS
<1>1. /\ DOMAIN applied = {}
      /\ witnesses = {} /\ pending = None
      /\ state.tip = Root /\ bound = StartFrontier
      /\ \A k \in Calls : calls[k] = None
  BY DEF Init
<1>2. OneCall /\ CallsFit
  BY <1>1 DEF OneCall, CallsFit, Running
<1>3. PendingFits /\ BranchPermitted /\ OldStatesDropped /\ SuffixKept
  BY <1>1 DEF PendingFits, BranchPermitted, OldStatesDropped, SuffixKept, Suffix
<1>4. Lineage /\ SuspectsKept
  BY <1>1 DEF Lineage, FrontierAt, Follows, SuspectsKept
<1>. QED  BY <1>2, <1>3, <1>4, InitTypeOK DEF IInv

\* applyCommit for the current epoch reads the state in use.
LEMMA ApplyNextIInv ==
    ASSUME Serial, IInv, NEW k \in Calls, NEW c \in Commits, ApplyNext(k, c)
    PROVE  OneCall' /\ CallsFit' /\ GroupInv'
<1> DEFINE call == [op |-> "applyCommit", commit |-> c, from |-> state,
                    baseline |-> bound, rival |-> Root, verdict |-> "unjudged"]
<1>1. /\ Start(k, call)
      /\ ~ removed
      /\ state.tip = Commit[c].parent
      /\ UNCHANGED groupVars
  BY DEF ApplyNext, Answer, Readable
<1>2. /\ call.op = "applyCommit" /\ call.commit = c /\ call.from = state
      /\ call.baseline = bound /\ call.rival = Root
      /\ call.verdict = "unjudged"
  OBVIOUS
<1> HIDE DEF call
<1>3. /\ calls'[k] = call
      /\ \A l \in Calls : l # k => calls'[l] = None
      /\ OneCall'
  BY <1>1, StartFacts DEF IInv
<1>4. ApplyFits(calls[k])'
  BY <1>1, <1>2, <1>3 DEF ApplyFits, IInv, Lineage, groupVars
<1>5. CallsFit'
  BY <1>2, <1>3, <1>4 DEF CallsFit, Running
<1>. QED  BY <1>1, <1>3, <1>5, GroupStutter DEF IInv, GroupInv

\* For an epoch already left it reads the entry of the commit taken for it,
\* and the states after it are kept.
LEMMA ApplyRivalIInv ==
    ASSUME Serial, IInv, NEW k \in Calls, NEW c \in Commits, ApplyRival(k, c)
    PROVE  OneCall' /\ CallsFit' /\ GroupInv'
<1> DEFINE e == RecordEpoch(c)
           previous == applied[e]
           call == [op |-> "applyCommit", commit |-> c,
                    from |-> previous.before, baseline |-> previous.baseline,
                    rival |-> previous.commit, verdict |-> "unjudged"]
<1>1. /\ Start(k, call)
      /\ ~ removed
      /\ e \in DOMAIN applied
      /\ previous.commit # c
      /\ previous.before # None
      /\ previous.before.tip = Commit[c].parent
      /\ UNCHANGED groupVars
  BY DEF ApplyRival, Answer, Readable
<1>2. /\ previous.before.tip = Commit[previous.commit].parent
      /\ previous.baseline = FrontierAt(Commit[previous.commit].parent)
      /\ previous.commit \in Commits
  BY <1>1 DEF IInv, Lineage, Follows, TypeOK, AppliedEpochs
<1>3. \A x \in DOMAIN applied : x >= e => applied[x].before # None
  BY <1>1 DEF IInv, SuffixKept, Suffix, TypeOK
<1>4. /\ call.op = "applyCommit" /\ call.commit = c
      /\ call.from = previous.before /\ call.baseline = previous.baseline
      /\ call.rival # Root /\ call.verdict = "unjudged"
  BY <1>2, EpochFacts
<1>5. ApplyFits(call)
  BY <1>1, <1>2, <1>3, <1>4 DEF ApplyFits
<1> HIDE DEF call
<1>6. /\ calls'[k] = call
      /\ \A l \in Calls : l # k => calls'[l] = None
      /\ OneCall'
  BY <1>1, StartFacts DEF IInv
<1>7. ApplyFits(calls[k])'
  BY <1>1, <1>5, <1>6 DEF ApplyFits, groupVars
<1>8. CallsFit'
  BY <1>4, <1>6, <1>7 DEF CallsFit, Running
<1>. QED  BY <1>1, <1>6, <1>8, GroupStutter DEF IInv, GroupInv

\* A commit of this device is permitted at the roster it binds.
LEMMA CommitStartIInv ==
    ASSUME Serial, IInv, NEW k \in Calls, NEW c \in Commits, CommitStart(k, c)
    PROVE  OneCall' /\ CallsFit' /\ GroupInv'
<1> DEFINE call == [op |-> "commit", commit |-> c, from |-> state]
<1>1. /\ Start(k, call)
      /\ state.tip = Commit[c].parent
      /\ Permits(c, Commit[c].frontier, bound)
      /\ UNCHANGED groupVars
  BY DEF CommitStart
<1>2. call.op = "commit" /\ call.commit = c
  OBVIOUS
<1> HIDE DEF call
<1>3. /\ calls'[k] = call
      /\ \A l \in Calls : l # k => calls'[l] = None
      /\ OneCall'
  BY <1>1, StartFacts DEF IInv
<1>4. Permitted(c)
  BY <1>1 DEF Permitted, IInv, Lineage
<1>5. CommitFits(calls[k])'
  BY <1>1, <1>2, <1>3, <1>4 DEF CommitFits, groupVars
<1>6. CallsFit'
  BY <1>2, <1>3, <1>5 DEF CallsFit, Running
<1>. QED  BY <1>1, <1>3, <1>6, GroupStutter DEF IInv, GroupInv

\* encrypt and open read the state in use.
LEMMA MessageStartIInv ==
    ASSUME Serial, IInv, NEW k \in Calls, NEW call, Start(k, call),
           call.op \in {"encrypt", "open"}, call.from = state,
           UNCHANGED groupVars
    PROVE  OneCall' /\ CallsFit' /\ GroupInv'
<1>1. /\ calls'[k] = call
      /\ \A l \in Calls : l # k => calls'[l] = None
      /\ OneCall'
  BY StartFacts DEF IInv
<1>2. CallsFit'
  BY <1>1 DEF CallsFit, Running, groupVars
<1>. QED  BY <1>1, <1>2, GroupStutter DEF IInv, GroupInv

\* A witness comes from a commit whose epoch, and every later one, is held.
LEMMA JudgeIInv ==
    ASSUME Serial, IInv, NEW k \in Calls, Judge(k)
    PROVE  OneCall' /\ CallsFit' /\ GroupInv'
<1> DEFINE c == calls[k].commit
<1>1. calls[k] \in ApplyCalls /\ Running(k, "applyCommit")
  BY CallFacts DEF Judge, IInv
<1>2. ApplyFits(calls[k]) /\ c \in Commits
  BY <1>1 DEF IInv, CallsFit, ApplyCalls
<1>3. PICK v \in {"accept", "reject"} :
        /\ calls' = [calls EXCEPT ![k].verdict = v]
        /\ v = "accept" => Acceptable(calls[k])
  BY DEF Judge
<1>4. /\ calls'[k] = [calls[k] EXCEPT !.verdict = v]
      /\ \A l \in Calls : l # k => calls'[l] = calls[l]
      /\ \A l \in Calls : l # k => calls[l] = None
  BY <1>1, <1>3 DEF IInv, TypeOK, OneCall, Running
<1>5. /\ calls'[k].op = "applyCommit"
      /\ calls'[k].commit = c /\ calls'[k].from = calls[k].from
      /\ calls'[k].baseline = calls[k].baseline
      /\ calls'[k].rival = calls[k].rival
      /\ calls'[k].verdict = v
  BY <1>1, <1>4 DEF ApplyCalls
<1>6. v = "accept" => Permitted(c)
  BY <1>2, <1>3 DEF Acceptable, ApplyFits, Permitted
<1>7. ApplyFits(calls[k])'
  BY <1>2, <1>5, <1>6 DEF ApplyFits, Judge
<1>8. OneCall' /\ CallsFit'
  BY <1>4, <1>5, <1>7 DEF OneCall, CallsFit, Running
<1>9. \A e \in DOMAIN applied :
        RecordEpoch(c) <= e => applied[e].before # None
  <2>1. CASE calls[k].rival = Root
    <3>1. state.tip = Commit[c].parent /\ ~ removed
      BY <1>2, <2>1 DEF ApplyFits
    <3>2. \A e \in DOMAIN applied : e \in Nat /\ e < RecordEpoch(c)
      BY <3>1 DEF IInv, Lineage, Follows, RecordEpoch, TypeOK
    <3>3. RecordEpoch(c) \in Nat
      BY <1>2, EpochFacts
    <3>. QED  BY <3>2, <3>3
  <2>2. CASE calls[k].rival # Root
    <3>1. /\ RecordEpoch(c) \in Nat
          /\ \A e \in DOMAIN applied : e \in Nat
      BY <1>2, EpochFacts DEF IInv, TypeOK
    <3>. QED  BY <1>2, <2>2, <3>1 DEF ApplyFits
  <2>. QED  BY <2>1, <2>2
<1>10. SuspectsKept'
  <2>1. witnesses' \subseteq witnesses \cup {c} /\ applied' = applied
    BY DEF Judge
  <2>. QED  BY <1>9, <2>1 DEF IInv, SuspectsKept
<1>11. PendingFits' /\ Lineage' /\ BranchPermitted' /\ OldStatesDropped'
       /\ SuffixKept'
  BY DEF Judge, IInv, PendingFits, Lineage, BranchPermitted,
         OldStatesDropped, SuffixKept, Epoch
<1>. QED  BY <1>8, <1>10, <1>11 DEF GroupInv

\* Taking c after a branch that ends at its parent keeps GroupInv.  A group
\* that is removed need not be on one branch any more.
LEMMA TakenGroupInv ==
    ASSUME NEW c \in Commits, NEW held, HeldOK(held),
           NEW before \in ClientStates, before.tip = Commit[c].parent,
           NEW taken,
           taken = [commit |-> c, before |-> before,
                    baseline |-> FrontierAt(Commit[c].parent)],
           applied' = Take(held, RecordEpoch(c), taken),
           state'.tip = c, bound' = Commit[c].frontier, witnesses' = {},
           PendingFits',
           ~ removed' =>
                /\ Follows(held, Commit[c].parent)
                /\ Suffix(held)
                /\ Permitted(c)
                /\ \A e \in DOMAIN held : Permitted(held[e].commit)
    PROVE  GroupInv'
<1> DEFINE epoch == RecordEpoch(c)
           T == Take(held, epoch, taken)
<1>1. epoch \in Nat /\ EpochOf[c] = epoch + 1 /\ c # Root
  BY EpochFacts
<1>2. taken \in AppliedEpochs
  <2>1. Commit[c].parent \in Tips
    BY EpochFacts
  <2>2. FrontierAt(Commit[c].parent) \in SUBSET Ops
    BY <2>1, EpochFacts, ParameterAssumption DEF FrontierAt, Tips
  <2>. QED  BY <2>2 DEF AppliedEpochs
<1>3. ~ removed' =>
        /\ Follows(T, c)
        /\ Suffix(T)
        /\ \A e \in DOMAIN T : Permitted(T[e].commit)
  BY TakeBranch
<1>4. \A e \in DOMAIN T :
        T[e].before # None => e \in Nat /\ e >= epoch + 1 - Retained
  BY <1>1, <1>2, TakeDrops
<1> HIDE DEF T, epoch
<1>5. applied' = T
  BY DEF T, epoch
<1>6. Lineage'
  BY <1>1, <1>3, <1>5 DEF Lineage, FrontierAt
<1>7. BranchPermitted' /\ SuffixKept'
  BY <1>3, <1>5 DEF BranchPermitted, SuffixKept
<1>8. OldStatesDropped'
  <2>1. \A e \in DOMAIN T : T[e].before # None => e >= EpochOf[c] - Retained
    BY <1>1, <1>4, ParameterAssumption
  <2>2. Epoch(state') = EpochOf[c]
    BY DEF Epoch
  <2>. QED  BY <1>5, <2>1, <2>2 DEF OldStatesDropped, Epoch
<1>9. SuspectsKept'
  BY DEF SuspectsKept
<1>. QED  BY <1>6, <1>7, <1>8, <1>9 DEF GroupInv

\* applyCommit takes a commit: after the branch in use, or after the branch
\* up to the epoch it won.
LEMMA FinishTakenIInv ==
    ASSUME IInv, NEW k \in Calls, FinishTaken(k)
    PROVE  GroupInv'
<1> DEFINE call == calls[k]
           c == call.commit
           e == RecordEpoch(c)
           taken == [commit |-> c, before |-> call.from,
                     baseline |-> call.baseline]
           next == StateAfter(call.from, c)
<1>1. call \in ApplyCalls /\ ApplyFits(call)
  BY CallFacts DEF FinishTaken, IInv, CallsFit
<1>2. c \in Commits /\ call.from \in ClientStates
  BY <1>1 DEF ApplyCalls
<1>3. /\ call.from.tip = Commit[c].parent
      /\ call.baseline = FrontierAt(Commit[c].parent)
      /\ Permitted(c)
      /\ ~ removed
  BY <1>1 DEF ApplyFits, FinishTaken
<1>4. taken = [commit |-> c, before |-> call.from,
               baseline |-> FrontierAt(Commit[c].parent)]
  BY <1>3
<1>5. state'.tip = c
  <2>1. state' \in Resumed(next)
    BY DEF FinishTaken
  <2>2. next.tip = c
    BY DEF StateAfter
  <2>. QED  BY <2>1, <2>2, ResumedFacts
<1>6. /\ bound' = Commit[c].frontier
      /\ witnesses' = {}
      /\ pending' = pending
      /\ removed' <=> Expelled(c)
  BY <1>3 DEF FinishTaken, Adopt
<1>7. PendingFits'
  BY <1>6 DEF IInv, PendingFits
<1>8. HeldOK(applied) /\ e \in Nat
  BY <1>2, EpochFacts DEF HeldOK, IInv, TypeOK
<1>9. /\ Follows(applied, state.tip)
      /\ Suffix(applied)
      /\ \A x \in DOMAIN applied : Permitted(applied[x].commit)
      /\ state.tip \in Tips
  BY <1>3
  DEF IInv, Lineage, SuffixKept, BranchPermitted, TypeOK, ClientStates
<1>10. CASE call.rival = Root \/ Expelled(c)
  <2>1. applied' = Take(applied, e, taken)
    BY <1>10 DEF FinishTaken
  <2>2. ~ removed' => Follows(applied, Commit[c].parent)
    BY <1>1, <1>6, <1>9, <1>10 DEF ApplyFits
  <2> HIDE DEF taken, call
  <2>. QED
    BY <1>2, <1>3, <1>4, <1>5, <1>6, <1>7, <1>8, <1>9, <2>1, <2>2, TakenGroupInv
<1>11. CASE call.rival # Root /\ ~ Expelled(c)
  <2> DEFINE held == Before(applied, e)
  <2>1. applied' = Take(held, e, taken)
    <3>1. applied' = UpTo(Take(applied, e, taken), e)
      BY <1>11 DEF FinishTaken
    <3>. QED  BY <1>8, <3>1, SwitchFacts
  <2>2. /\ e \in DOMAIN applied
        /\ Commit[applied[e].commit].parent = Commit[c].parent
    BY <1>1, <1>11 DEF ApplyFits
  <2>3. Follows(held, Commit[c].parent) /\ Suffix(held)
    BY <1>8, <1>9, <2>2, CutBranch
  <2>4. HeldOK(held)
    BY <1>8, CutTyped
  <2>5. \A x \in DOMAIN held : Permitted(held[x].commit)
    BY <1>9 DEF Before
  <2> HIDE DEF held, taken, call
  <2>. QED
    BY <1>2, <1>3, <1>4, <1>5, <1>6, <1>7, <2>1, <2>3, <2>4, <2>5,
       TakenGroupInv
<1>. QED  BY <1>10, <1>11

\* Stepping back returns to the branch up to the add stepped back from.
LEMMA FinishWaitingIInv ==
    ASSUME IInv, NEW k \in Calls, FinishWaiting(k)
    PROVE  GroupInv'
<1>1. ~ removed
  BY DEF FinishWaiting, IInv, CallsFit, ApplyFits
<1>2. UNCHANGED <<removed, pending, witnesses>>
  BY DEF FinishWaiting
<1>3. CASE UNCHANGED <<resumable, state, bound, applied>>
  BY <1>2, <1>3, GroupSameEpoch DEF IInv, GroupInv
<1>4. ASSUME NEW from \in Suspect, StepsBackTo(from),
             state' = applied[from].before,
             bound' = applied[from].baseline,
             applied' = Before(applied, from)
      PROVE  GroupInv'
  <2> DEFINE parent == Commit[applied[from].commit].parent
             held == Before(applied, from)
  <2>1. from \in DOMAIN applied /\ from \in Nat
    BY DEF Suspect, IInv, TypeOK
  <2>2. /\ HeldOK(applied)
        /\ Follows(applied, state.tip)
        /\ Suffix(applied)
        /\ state.tip \in Tips
        /\ EpochOf[state.tip] \in Nat
    BY <1>1, EpochFacts
    DEF HeldOK, IInv, Lineage, SuffixKept, TypeOK, ClientStates
  <2>3. /\ state'.tip = parent
        /\ bound' = FrontierAt(parent)
        /\ EpochOf[parent] = from
        /\ from < EpochOf[state.tip]
    BY <1>4, <2>1, <2>2 DEF StepsBackTo, Follows, RecordEpoch
  <2>4. Follows(held, parent) /\ Suffix(held)
    BY <2>1, <2>2, CutBranch
  <2>5. /\ DOMAIN held \subseteq DOMAIN applied
        /\ \A e \in DOMAIN held : held[e] = applied[e]
    BY CutFacts
  <2> HIDE DEF parent, held
  <2>6. applied' = held
    BY <1>4 DEF held
  <2>7. Lineage' /\ SuffixKept'
    BY <2>3, <2>4, <2>6 DEF Lineage, SuffixKept
  <2>8. BranchPermitted'
    BY <1>2, <2>5, <2>6 DEF IInv, BranchPermitted
  <2>9. OldStatesDropped'
    <3>1. ASSUME NEW e \in DOMAIN held, held[e].before # None
          PROVE  e >= from - Retained
      <4>1. e \in Nat /\ e >= EpochOf[state.tip] - Retained
        BY <2>5, <3>1 DEF IInv, OldStatesDropped, Epoch, TypeOK
      <4>. QED  BY <2>1, <2>2, <2>3, <4>1, ParameterAssumption
    <3>. QED  BY <2>3, <2>6, <3>1 DEF OldStatesDropped, Epoch
  <2>10. SuspectsKept'
    BY <1>2, <2>5, <2>6 DEF IInv, SuspectsKept
  <2>11. PendingFits'
    BY <1>2 DEF IInv, PendingFits
  <2>. QED  BY <2>7, <2>8, <2>9, <2>10, <2>11 DEF GroupInv
<1>. QED  BY <1>3, <1>4 DEF FinishWaiting, StepBack

\* confirm takes the pending commit after the branch in use.
LEMMA ConfirmIInv ==
    ASSUME Serial, IInv, Confirm
    PROVE  OneCall' /\ CallsFit' /\ GroupInv'
<1> DEFINE c == pending.commit
           before == pending.before
           taken == [commit |-> c, before |-> before, baseline |-> bound]
<1>1. pending \in PendingCommits
  BY DEF Confirm, IInv, TypeOK
<1>2. c \in Commits /\ before \in ClientStates
  BY <1>1 DEF PendingCommits
<1>3. /\ state.tip = Commit[c].parent
      /\ before.tip = Commit[c].parent
      /\ pending.state.tip = c
      /\ Permitted(c)
      /\ bound = FrontierAt(Commit[c].parent)
  BY DEF Confirm, SameEpoch, IInv, PendingFits, Lineage
<1>4. /\ applied' = Take(applied, RecordEpoch(c), taken)
      /\ state'.tip = c
      /\ bound' = Commit[c].frontier
      /\ witnesses' = {}
      /\ removed' = removed
      /\ pending' = None
  BY <1>3 DEF Confirm, Adopt, Epoch, RecordEpoch
<1>5. HeldOK(applied)
  BY DEF HeldOK, IInv, TypeOK
<1>6. ~ removed =>
        /\ Follows(applied, Commit[c].parent)
        /\ Suffix(applied)
        /\ \A e \in DOMAIN applied : Permitted(applied[e].commit)
  BY <1>3 DEF IInv, Lineage, SuffixKept, BranchPermitted
<1>7. PendingFits'
  BY <1>4 DEF PendingFits
<1>8. taken = [commit |-> c, before |-> before,
               baseline |-> FrontierAt(Commit[c].parent)]
  BY <1>3
<1>9. GroupInv'
  <2> HIDE DEF c, before, taken
  <2>. QED
    BY <1>2, <1>3, <1>4, <1>5, <1>6, <1>7, <1>8, TakenGroupInv
<1>10. /\ \A k \in Calls : calls[k] = None
       /\ calls' = calls
  BY DEF Confirm, MayCall, Idle
<1>11. OneCall' /\ CallsFit'
  BY <1>10 DEF OneCall, CallsFit, Running
<1>. QED  BY <1>9, <1>11

\* A restart starts the branch again at the state restored.
LEMMA RestartIInv ==
    ASSUME IInv, Restart
    PROVE  OneCall' /\ CallsFit' /\ GroupInv'
<1>1. /\ DOMAIN applied' = {} /\ witnesses' = {} /\ pending' = None
      /\ \A k \in Calls : calls'[k] = None
  BY DEF Restart
<1>2. bound' = FrontierAt(state'.tip)
  <2>1. CASE UNCHANGED <<state, bound>>
    BY <2>1 DEF IInv, Lineage
  <2>2. CASE /\ pending # None
             /\ state' = pending.state
             /\ bound' = Commit[pending.commit].frontier
    <3>1. pending.commit \in Commits /\ pending.state.tip = pending.commit
      BY <2>2 DEF IInv, TypeOK, PendingCommits, PendingFits
    <3>. QED  BY <2>2, <3>1, EpochFacts DEF FrontierAt
  <2>. QED  BY <2>1, <2>2 DEF Restart
<1>3. OneCall' /\ CallsFit'
  BY <1>1 DEF OneCall, CallsFit, Running
<1>4. GroupInv'
  BY <1>1, <1>2
  DEF GroupInv, PendingFits, Lineage, Follows, BranchPermitted,
      OldStatesDropped, SuffixKept, Suffix, SuspectsKept
<1>. QED  BY <1>3, <1>4

\* Every step of a group whose caller awaits each call preserves IInv.
LEMMA NextIInv ==
    ASSUME Serial, IInv, [Next]_vars
    PROVE  IInv'
<1> SUFFICES OneCall' /\ CallsFit' /\ GroupInv'
  BY NextTypeOK DEF IInv, GroupInv
<1>1. GroupInv
  BY DEF IInv, GroupInv
<1>2. ASSUME NEW k \in Calls, calls[k] # None, End(k), GroupInv'
      PROVE  OneCall' /\ CallsFit' /\ GroupInv'
  BY <1>2, EndFacts DEF IInv
<1>3. ASSUME NEW op \in Ops, VerifyRoster(op)
      PROVE  OneCall' /\ CallsFit' /\ GroupInv'
  <2>1. UNCHANGED <<groupVars, calls>>
    BY <1>3 DEF VerifyRoster
  <2>2. OneCall' /\ CallsFit'
    BY <2>1
    DEF IInv, OneCall, CallsFit, Running, ApplyFits, CommitFits, groupVars
  <2>. QED  BY <1>1, <2>1, <2>2, GroupStutter
<1>4. ASSUME NEW k \in Calls, NEW c \in Commits,
             ApplyNext(k, c) \/ ApplyRival(k, c) \/ CommitStart(k, c)
      PROVE  OneCall' /\ CallsFit' /\ GroupInv'
  BY <1>4, ApplyNextIInv, ApplyRivalIInv, CommitStartIInv
<1>5. ASSUME NEW k \in Calls, NEW m \in Messages, OpenStart(k, m)
      PROVE  OneCall' /\ CallsFit' /\ GroupInv'
  <2> DEFINE call == [op |-> "open", message |-> m, from |-> state]
  <2>1. Start(k, call) /\ UNCHANGED groupVars
    BY <1>5 DEF OpenStart
  <2>2. call.op = "open" /\ call.from = state
    OBVIOUS
  <2> HIDE DEF call
  <2>. QED  BY <2>1, <2>2, MessageStartIInv
<1>6. ASSUME NEW k \in Calls, EncryptStart(k)
      PROVE  OneCall' /\ CallsFit' /\ GroupInv'
  <2> DEFINE call == [op |-> "encrypt", from |-> state]
  <2>1. Start(k, call) /\ UNCHANGED groupVars
    BY <1>6 DEF EncryptStart
  <2>2. call.op = "encrypt" /\ call.from = state
    OBVIOUS
  <2> HIDE DEF call
  <2>. QED  BY <2>1, <2>2, MessageStartIInv
<1>7. ASSUME NEW k \in Calls, CallStep(k)
      PROVE  OneCall' /\ CallsFit' /\ GroupInv'
  <2>1. CASE Judge(k)
    BY <2>1, JudgeIInv
  <2>2. CASE FinishWaiting(k)
    BY <1>2, <2>2, FinishWaitingIInv DEF FinishWaiting, Running
  <2>3. CASE FinishRejected(k)
    BY <1>1, <1>2, <2>3, GroupStutter DEF FinishRejected, Running
  <2>4. CASE FinishTaken(k)
    BY <1>2, <2>4, FinishTakenIInv DEF FinishTaken, Running
  <2>5. CASE CommitFinish(k)
    <3> DEFINE call == calls[k]
    <3>1. call \in CommitCalls /\ CommitFits(call)
      BY <2>5, CallFacts DEF CommitFinish, IInv, CallsFit
    <3>2. /\ pending'.commit = call.commit
          /\ pending'.before = state
          /\ pending'.state.tip = call.commit
      BY <2>5 DEF CommitFinish, StateAfter
    <3>3. PendingFits'
      BY <3>1, <3>2 DEF PendingFits, CommitFits
    <3>4. UNCHANGED <<state, removed, bound, applied, witnesses>>
      BY <2>5 DEF CommitFinish
    <3>5. GroupInv'
      BY <1>1, <3>3, <3>4
      DEF GroupInv, Lineage, BranchPermitted, OldStatesDropped, SuffixKept,
          SuspectsKept, Epoch
    <3>. QED  BY <1>2, <2>5, <3>5 DEF CommitFinish, Running
  <2>6. CASE EncryptFinish(k)
    <3>1. calls[k] \in EncryptCalls /\ calls[k].from.tip = state.tip
      BY <2>6, CallFacts DEF EncryptFinish, IInv, CallsFit
    <3>2. state'.tip = state.tip
      BY <2>6, <3>1 DEF EncryptFinish, EncryptCalls, ClientStates
    <3>3. GroupInv'
      BY <1>1, <2>6, <3>2, GroupSameEpoch DEF EncryptFinish
    <3>. QED  BY <1>2, <2>6, <3>3 DEF EncryptFinish, Running
  <2>7. CASE OpenFinish(k)
    <3>1. calls[k] \in OpenCalls /\ calls[k].from.tip = state.tip
      BY <2>7, CallFacts DEF OpenFinish, IInv, CallsFit
    <3>2. state'.tip = state.tip
      BY <2>7, <3>1 DEF OpenFinish, OpenCalls, ClientStates
    <3>3. GroupInv'
      BY <1>1, <2>7, <3>2, GroupSameEpoch DEF OpenFinish
    <3>. QED  BY <1>2, <2>7, <3>3 DEF OpenFinish, Running
  <2>. QED  BY <1>7, <2>1, <2>2, <2>3, <2>4, <2>5, <2>6, <2>7 DEF CallStep
<1>8. CASE Confirm
  BY <1>8, ConfirmIInv
<1>9. CASE Drop
  <2>1. /\ pending' = None
        /\ UNCHANGED <<state, removed, bound, applied, witnesses, calls>>
    BY <1>9 DEF Drop
  <2>2. GroupInv'
    BY <1>1, <2>1
    DEF GroupInv, PendingFits, Lineage, BranchPermitted, OldStatesDropped,
        SuffixKept, SuspectsKept, Epoch
  <2>3. OneCall' /\ CallsFit'
    BY <2>1 DEF IInv, OneCall, CallsFit, Running, ApplyFits, CommitFits
  <2>. QED  BY <2>2, <2>3
<1>10. CASE Restart
  BY <1>10, RestartIInv
<1>11. CASE UNCHANGED vars
  <2>1. UNCHANGED <<groupVars, calls>>
    BY <1>11 DEF vars
  <2>2. OneCall' /\ CallsFit'
    BY <2>1
    DEF IInv, OneCall, CallsFit, Running, ApplyFits, CommitFits, groupVars
  <2>. QED  BY <1>1, <2>1, <2>2, GroupStutter
<1>. QED
  BY <1>3, <1>4, <1>5, <1>6, <1>7, <1>8, <1>9, <1>10, <1>11 DEF Next

\* The invariant of a caller that awaits each call.
THEOREM Inductive ==
    ASSUME Serial
    PROVE  Spec => []IInv
BY InitIInv, NextIInv, PTL DEF Spec

\* Whatever the node serves and however the device steps back, switches,
\* confirms and restarts, the commits it holds form one branch that ends at
\* the state it uses.
THEOREM OneBranch ==
    ASSUME Serial
    PROVE  Spec => []Lineage
<1>1. IInv => Lineage
  BY DEF IInv
<1>. QED  BY <1>1, Inductive, PTL

\* Every commit on that branch was permitted where it stands.
THEOREM EveryCommitPermitted ==
    ASSUME Serial
    PROVE  Spec => []BranchPermitted
<1>1. IInv => BranchPermitted
  BY DEF IInv
<1>. QED  BY <1>1, Inductive, PTL

\* The states before commits outside the window are dropped.
THEOREM WindowKept ==
    ASSUME Serial
    PROVE  Spec => []OldStatesDropped
<1>1. IInv => OldStatesDropped
  BY DEF IInv
<1>. QED  BY <1>1, Inductive, PTL

\* Stepping back finds every state it needs.
THEOREM StepsBackSafely ==
    ASSUME Serial
    PROVE  Spec => []SuspectsKept
<1>1. IInv => SuspectsKept
  BY DEF IInv
<1>. QED  BY <1>1, Inductive, PTL

----------------------------------------------------------------------------
(* Rivals *)

\* For every policy, winning an epoch is a strict total order on its rivals.
LEMMA WinsOrder ==
    ASSUME NEW c \in Commits, NEW d \in Commits, NEW x \in Commits
    PROVE  /\ c # d => (Wins(c, d) <=> ~ Wins(d, c))
           /\ Wins(c, d) /\ Wins(d, x) => Wins(c, x)
<1>1. \A y \in Commits :
        /\ y \in Nat
        /\ Reach(Commit[y].frontier) \in Nat
        /\ Priority(y) \in Nat
  BY EpochFacts, PolicyAssumption, CatalogueAssumption
<1>2. c # d => (Wins(c, d) <=> ~ Wins(d, c))
  BY <1>1 DEF Wins
<1>3. Wins(c, d) /\ Wins(d, x) => Wins(c, x)
  BY <1>1 DEF Wins
<1>. QED  BY <1>2, <1>3

\* Whatever roster a device has verified, any two rivals have one winner and
\* winning is transitive.
THEOREM RivalsOrdered == Spec => []RivalsTotallyOrdered
<1>1. RivalsTotallyOrdered
  BY WinsOrder DEF RivalsTotallyOrdered, Rivals
<1>. QED  BY <1>1, PTL

----------------------------------------------------------------------------
(* This device's own commits *)

\* What OwnCommitsStand says of one step.
OwnStand ==
    \A e \in DOMAIN applied :
        Own(applied[e].commit) =>
            \/ e \in DOMAIN applied' /\ applied'[e].commit = applied[e].commit
            \/ \E x \in DOMAIN applied \cap DOMAIN applied' :
                    x <= e /\ applied'[x].commit # applied[x].commit
            \/ restarts' # restarts

\* Taking a commit for an epoch keeps the commits taken for the others.
LEMMA TakeKeeps ==
    ASSUME HeldOK(applied), NEW epoch \in Nat, NEW taken,
           applied' = Take(applied, epoch, taken)
    PROVE  OwnStand
<1> SUFFICES ASSUME NEW e \in DOMAIN applied
             PROVE  \/ /\ e \in DOMAIN applied'
                       /\ applied'[e].commit = applied[e].commit
                    \/ \E x \in DOMAIN applied \cap DOMAIN applied' :
                        x <= e /\ applied'[x].commit # applied[x].commit
  BY DEF OwnStand
<1>1. e \in DOMAIN applied' /\ e \in Nat /\ applied[e] \in AppliedEpochs
  BY DEF Take, HeldOK
<1>2. CASE e = epoch
  BY <1>1, <1>2
<1>3. CASE e # epoch
  <2>1. \/ applied'[e] = applied[e]
        \/ applied'[e] = [applied[e] EXCEPT !.before = None]
    BY <1>3 DEF Take
  <2>. QED  BY <1>1, <2>1 DEF AppliedEpochs
<1>. QED  BY <1>2, <1>3

\* Only a rival of an earlier epoch, or of its own, or a restart drops a
\* commit this device made.
LEMMA OwnStandStep ==
    ASSUME IInv, [Next]_vars
    PROVE  OwnStand
<1>1. HeldOK(applied) /\ DOMAIN applied \subseteq Nat
  BY DEF HeldOK, IInv, TypeOK
<1>2. CASE applied' = applied
  BY <1>2 DEF OwnStand
<1>3. ASSUME NEW k \in Calls, FinishWaiting(k) PROVE OwnStand
  <2>1. ASSUME NEW from \in Suspect, applied' = Before(applied, from)
        PROVE  OwnStand
    <3>1. ASSUME NEW e \in DOMAIN applied, Own(applied[e].commit)
          PROVE  e \in DOMAIN applied' /\ applied'[e] = applied[e]
      <4>1. e < from
        BY <3>1 DEF Suspect
      <4>. QED  BY <2>1, <4>1 DEF Before
    <3>. QED  BY <3>1 DEF OwnStand
  <2>. QED  BY <1>2, <1>3, <2>1 DEF FinishWaiting, StepBack
<1>4. ASSUME NEW k \in Calls, FinishTaken(k) PROVE OwnStand
  <2> DEFINE c == calls[k].commit
             epoch == RecordEpoch(c)
             taken == [commit |-> c, before |-> calls[k].from,
                       baseline |-> calls[k].baseline]
  <2>1. calls[k] \in ApplyCalls /\ ApplyFits(calls[k])
    BY <1>4, CallFacts DEF FinishTaken, IInv, CallsFit
  <2>2. epoch \in Nat
    BY <2>1, EpochFacts DEF ApplyCalls
  <2>3. CASE applied' = Take(applied, epoch, taken)
    BY <1>1, <2>2, <2>3, TakeKeeps
  <2>4. CASE /\ applied' = UpTo(Take(applied, epoch, taken), epoch)
             /\ calls[k].rival # Root
    <3>1. epoch \in DOMAIN applied /\ applied[epoch].commit # c
      BY <2>1, <2>4 DEF ApplyFits
    <3>2. epoch \in DOMAIN applied' /\ applied'[epoch] = taken
      BY <2>2, <2>4 DEF UpTo, Take
    <3>3. ASSUME NEW e \in DOMAIN applied, e < epoch
          PROVE  /\ e \in DOMAIN applied'
                 /\ applied'[e].commit = applied[e].commit
      <4>1. e \in DOMAIN applied' /\ e \in Nat
        BY <1>1, <2>2, <2>4, <3>3 DEF UpTo, Take
      <4>2. \/ applied'[e] = applied[e]
            \/ applied'[e] = [applied[e] EXCEPT !.before = None]
        BY <2>2, <2>4, <3>3, <4>1 DEF UpTo, Take
      <4>. QED  BY <1>1, <4>1, <4>2 DEF HeldOK, AppliedEpochs
    <3>4. ASSUME NEW e \in DOMAIN applied, ~ e < epoch
          PROVE  \E x \in DOMAIN applied \cap DOMAIN applied' :
                    x <= e /\ applied'[x].commit # applied[x].commit
      BY <1>1, <2>2, <3>1, <3>2, <3>4
    <3>. QED  BY <3>3, <3>4 DEF OwnStand
  <2>. QED  BY <1>4, <2>3, <2>4 DEF FinishTaken
<1>5. CASE Confirm
  <2>1. Epoch(pending.before) \in Nat
    BY <1>5, EpochFacts DEF Confirm, IInv, TypeOK, PendingCommits,
       ClientStates, Epoch
  <2>. QED  BY <1>1, <1>5, <2>1, TakeKeeps DEF Confirm
<1>6. CASE Restart
  <2>1. restarts' # restarts
    BY <1>6 DEF Restart, IInv, TypeOK
  <2>. QED  BY <2>1 DEF OwnStand
<1>7. \/ applied' = applied
      \/ \E k \in Calls : FinishWaiting(k) \/ FinishTaken(k)
      \/ Confirm
      \/ Restart
  BY DEF Next, CallStep, vars, groupVars, VerifyRoster, ApplyNext, ApplyRival,
         CommitStart, OpenStart, EncryptStart, Judge, FinishRejected,
         CommitFinish, EncryptFinish, OpenFinish, Drop
<1>. QED  BY <1>2, <1>3, <1>4, <1>5, <1>6, <1>7

\* A commit this device made is dropped only for a rival that took its epoch
\* or an earlier one, or by a restart.
THEOREM OwnCommitsKept ==
    ASSUME Serial
    PROVE  Spec => OwnCommitsStand
<1>1. IInv /\ [Next]_vars => [OwnStand]_vars
  BY OwnStandStep
<1>. QED  BY <1>1, Inductive, PTL DEF Spec, OwnCommitsStand, OwnStand

=============================================================================
