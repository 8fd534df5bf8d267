----------------------- MODULE MlsGroupSessionProofs ------------------------
(***************************************************************************)
(* Proofs about MlsGroupSession: whatever crashes, overlaps or comes back, *)
(* a device has one history per group, starts one with each join package,  *)
(* and lets out nothing beside it, for any number of packages, objects and *)
(* ratchet states.                                                         *)
(***************************************************************************)
EXTENDS MlsGroupSession, TLAPS

Group(state) == Head(state.history)

\* A state is of a group that was begun, and its transitions were made.
Fit(state) ==
    /\ state.history # << >>
    /\ \A i \in DOMAIN state.history : state.history[i] \in 1..born

StatesFit ==
    /\ \A h \in Handles : sessions[h] # None => Fit(sessions[h].state)
    /\ checkpoint # None => Fit(checkpoint)

\* One operation at a time awaits its answer, on a session not consumed.
CallsFit ==
    \A h \in Handles : sessions[h] # None =>
        /\ sessions[h].calls > 0 =>
            sessions[h].transitioning /\ ~ sessions[h].consumed
        /\ sessions[h].calls <= 1

\* No two objects can go on with one group.
OneUsable ==
    \A h, i \in Handles :
        Usable(h) /\ Usable(i)
            /\ Group(sessions[h].state) = Group(sessions[i].state) => h = i

\* NeverBehind, object by object.
Ahead ==
    \A h \in Handles :
        Usable(h) /\ checkpoint # None
            /\ Group(sessions[h].state) = Group(checkpoint) =>
                IsPrefix(checkpoint.history, sessions[h].state.history)

\* TypeOK without the packages.
SessionTypes ==
    /\ born \in 0..MaxBorn
    /\ sessions \in [Handles -> Sessions \union {None}]
    /\ snapshots \subseteq States
    /\ checkpoint \in States \union {None}
    /\ released \subseteq 1..born
    /\ origin \in [1..MaxBorn -> Packages \union {None}]

SessionInv ==
    /\ SessionTypes
    /\ StatesFit
    /\ CallsFit
    /\ OneUsable
    /\ Ahead
    /\ UsableKeepsSecrets

----------------------------------------------------------------------------
(* Histories *)

\* What a history is after one more transition.
LEMMA Longer ==
    ASSUME NEW S, NEW q \in Seq(S), q # << >>, NEW x \in S
    PROVE  /\ Append(q, x) \in Seq(S)
           /\ Append(q, x) # << >>
           /\ Head(Append(q, x)) = Head(q)
           /\ Head(q) = q[1] /\ 1 \in DOMAIN q
           /\ \A i \in DOMAIN Append(q, x) :
                \/ Append(q, x)[i] = x
                \/ i \in DOMAIN q /\ Append(q, x)[i] = q[i]
<1>1. Len(q) \in Nat /\ DOMAIN q = 1..Len(q) /\ Len(q) > 0
  OBVIOUS
<1>2. Len(Append(q, x)) = Len(q) + 1
  OBVIOUS
<1>3. \A i \in 1..Len(q) : Append(q, x)[i] = q[i]
  OBVIOUS
<1>4. DOMAIN Append(q, x) = 1..(Len(q) + 1) /\ Append(q, x)[Len(q) + 1] = x
  OBVIOUS
<1> QED BY <1>1, <1>2, <1>3, <1>4

\* A prefix stays one when the history grows; a history is its own.
LEMMA PrefixOfLonger ==
    ASSUME NEW S, NEW d \in Seq(S), NEW q \in Seq(S), NEW x \in S,
           IsPrefix(d, q)
    PROVE  IsPrefix(d, Append(q, x))
<1>1. Len(d) \in Nat /\ Len(q) \in Nat /\ Len(d) <= Len(q)
  BY DEF IsPrefix
<1>2. Len(Append(q, x)) = Len(q) + 1
  OBVIOUS
<1>3. \A i \in 1..Len(q) : Append(q, x)[i] = q[i]
  OBVIOUS
<1>4. SubSeq(Append(q, x), 1, Len(d)) = SubSeq(q, 1, Len(d))
  BY <1>1, <1>2, <1>3
<1> QED BY <1>1, <1>2, <1>4 DEF IsPrefix

\* A history is a prefix of itself.
LEMMA PrefixOfItself ==
    ASSUME NEW S, NEW q \in Seq(S)
    PROVE  IsPrefix(q, q)
  BY DEF IsPrefix

----------------------------------------------------------------------------
(* States *)

\* The group of a state is the first transition of its history, made before.
LEMMA GroupBegun ==
    ASSUME NEW state \in States, Fit(state)
    PROVE  Group(state) \in 1..born /\ Group(state) = state.history[1]
<1>1. state.history \in Seq(1..MaxBorn) /\ state.history # << >>
  BY DEF States, Fit
<1>2. Head(state.history) = state.history[1] /\ 1 \in DOMAIN state.history
  BY <1>1
<1> QED BY <1>2 DEF Fit, Group

\* Every operation leads to a state of type, one transition further.
LEMMA OneFurther ==
    ASSUME NEW state \in States, NEW operation \in Operations,
           NEW next \in Successors(operation, state),
           born \in Nat, born + 1 \in 1..MaxBorn
    PROVE  /\ next \in States
           /\ next.history = Append(state.history, born + 1)
<1>1. /\ state.history \in Seq(1..MaxBorn) /\ state.epoch \in Nat
      /\ state.members \in 1..MaxMembers /\ state.active \in BOOLEAN
  BY DEF States
<1>2. Append(state.history, born + 1) \in Seq(1..MaxBorn)
  BY <1>1
<1>3. /\ Advanced(state) \in States /\ Ratcheted(state) \in States
      /\ Advanced(state).history = Append(state.history, born + 1)
      /\ Ratcheted(state).history = Append(state.history, born + 1)
      /\ Advanced(state).members = state.members
  <2>1. ASSUME NEW q \in Seq(1..MaxBorn), NEW e \in Nat
        PROVE  /\ [state EXCEPT !.history = q, !.epoch = e] \in States
               /\ [state EXCEPT !.history = q] \in States
               /\ [state EXCEPT !.history = q, !.epoch = e].history = q
               /\ [state EXCEPT !.history = q].history = q
               /\ [state EXCEPT !.history = q, !.epoch = e].members
                    = state.members
    BY DEF States
  <2>2. state.epoch + 1 \in Nat
    BY <1>1
  <2> QED BY <1>2, <2>1, <2>2 DEF Advanced, Ratcheted
<1>4. ASSUME NEW base \in States, NEW n \in 1..MaxMembers, NEW a \in BOOLEAN
      PROVE  /\ [base EXCEPT !.members = n] \in States
             /\ [base EXCEPT !.members = n].history = base.history
             /\ [base EXCEPT !.members = n, !.active = a] \in States
             /\ [base EXCEPT !.members = n, !.active = a].history
                    = base.history
  BY <1>4 DEF States
<1>5. state.active /\ MaxMembers \in Nat
  BY MemberAssumption DEF Successors
<1>6. CASE operation = "add"
  <2>1. PICK n \in 1..(MaxMembers - state.members) :
            next = [Advanced(state) EXCEPT !.members = @ + n]
    BY <1>5, <1>6 DEF Successors, AddMembers
  <2>2. state.members + n \in 1..MaxMembers
    BY <1>1, <1>5
  <2>3. next = [Advanced(state) EXCEPT !.members = state.members + n]
    BY <2>1, <1>3
  <2> QED BY <2>2, <2>3, <1>3, <1>4
<1>7. CASE operation = "remove"
  <2>1. PICK n \in 1..(state.members - 1) :
            next = [Advanced(state) EXCEPT !.members = @ - n]
    BY <1>5, <1>7 DEF Successors, RemoveMembers
  <2>2. state.members - n \in 1..MaxMembers
    BY <1>1, <1>5
  <2>3. next = [Advanced(state) EXCEPT !.members = state.members - n]
    BY <2>1, <1>3
  <2> QED BY <2>2, <2>3, <1>3, <1>4
<1>8. CASE operation = "applyCommit"
  <2>1. PICK c \in (0..MaxMembers) \X (0..(state.members - 1)),
             a \in BOOLEAN :
            /\ AcceptsMemberCount(state, c[1], c[2])
            /\ next = [Advanced(state) EXCEPT !.members = @ + c[1] - c[2],
                                              !.active = a]
    BY <1>5, <1>8 DEF Successors, ApplyCommit
  <2>2. state.members + c[1] - c[2] \in 1..MaxMembers
    BY <2>1, <1>1, <1>5 DEF AcceptsMemberCount
  <2>3. next = [Advanced(state) EXCEPT
                    !.members = state.members + c[1] - c[2], !.active = a]
    BY <2>1, <1>3
  <2> QED BY <2>2, <2>3, <1>3, <1>4
<1>9. CASE operation \in {"refresh", "encrypt", "decrypt"}
  BY <1>3, <1>5, <1>9 DEF Successors, Refresh, Encrypt, Decrypt
<1> QED BY <1>6, <1>7, <1>8, <1>9 DEF Operations

----------------------------------------------------------------------------
(* The objects *)

\* What holds of an object by itself.
ObjectFit(object) ==
    /\ object.calls > 0 => object.transitioning /\ ~ object.consumed
    /\ object.calls <= 1
    /\ ~ object.consumed => ~ object.erased

\* What SessionInv says of one object.
LEMMA ObjectsFit ==
    ASSUME SessionInv, NEW h \in Handles, sessions[h] # None
    PROVE  /\ sessions[h] \in Sessions
           /\ sessions[h].state \in States
           /\ ObjectFit(sessions[h])
           /\ Fit(sessions[h].state)
<1>1. sessions[h] \in Sessions
  BY DEF SessionInv, SessionTypes
<1>2. sessions[h].state \in States
  BY <1>1 DEF Sessions
<1>3. ObjectFit(sessions[h])
  BY DEF SessionInv, CallsFit, UsableKeepsSecrets, Usable, ObjectFit
<1>4. Fit(sessions[h].state)
  BY DEF SessionInv, StatesFit
<1> QED BY <1>1, <1>2, <1>3, <1>4

\* A new session is free and not consumed.
LEMMA NewFits ==
    ASSUME NEW state \in States
    PROVE  /\ NewSession(state) \in Sessions
           /\ NewSession(state).state = state
           /\ ObjectFit(NewSession(state))
           /\ ~ NewSession(state).consumed
  BY DEF NewSession, Sessions, ObjectFit

\* The last call of an object ends.
LEMMA LastCallEnds ==
    ASSUME NEW object \in Sessions, object.calls = 1
    PROVE  /\ Released(object) \in Sessions
           /\ Released(object).state = object.state
           /\ Released(object).consumed = object.consumed
           /\ Released(object).erased = object.erased
           /\ Released(object).calls = 0
           /\ Settled(object) \in Sessions
           /\ Settled(object).state = object.state
           /\ Settled(object).consumed
           /\ Settled(object).calls = 0
<1>1. PICK n \in Nat : n = object.calls - 1
  BY DEF Sessions
<1>2. n = 0
  BY <1>1
<1>3. Released(object) = [object EXCEPT !.transitioning = FALSE, !.calls = n]
  BY <1>1, Zenon DEF Released
<1>4. Settled(object) =
        [object EXCEPT !.consumed = TRUE, !.erased = TRUE,
                       !.transitioning = FALSE, !.calls = n]
  BY <1>1, Zenon DEF Settled
<1>5. [object EXCEPT !.transitioning = FALSE, !.calls = n] \in Sessions
  BY DEF Sessions
<1>6. [object EXCEPT !.consumed = TRUE, !.erased = TRUE,
                     !.transitioning = FALSE, !.calls = n] \in Sessions
  BY DEF Sessions
<1>. QED  BY <1>2, <1>3, <1>4, <1>5, <1>6 DEF Sessions

\* An object changes, and what it can go on with stays as it was.
LEMMA SameState ==
    ASSUME SessionInv, NEW h \in Handles, sessions[h] # None,
           NEW object \in Sessions, ObjectFit(object),
           object.state = sessions[h].state,
           sessions[h].consumed => object.consumed,
           sessions' = [sessions EXCEPT ![h] = object],
           UNCHANGED <<born, snapshots, checkpoint, released, origin>>
    PROVE  SessionInv'
<1>1. SessionTypes /\ StatesFit /\ CallsFit /\ OneUsable /\ Ahead
      /\ UsableKeepsSecrets
  BY DEF SessionInv
<1>2. /\ sessions'[h] = object
      /\ \A i \in Handles : i # h => sessions'[i] = sessions[i]
  BY <1>1 DEF SessionTypes
<1>3. \A i \in Handles : Usable(i)' =>
        Usable(i) /\ sessions'[i].state = sessions[i].state
  BY <1>2 DEF Usable
<1>4. SessionTypes'
  BY <1>1 DEF SessionTypes
<1>5. StatesFit'
  BY <1>1, <1>2 DEF StatesFit, Fit
<1>6. CallsFit' /\ UsableKeepsSecrets'
  BY <1>1, <1>2 DEF CallsFit, UsableKeepsSecrets, Usable, ObjectFit
<1>7. OneUsable' /\ Ahead'
  BY <1>1, <1>3 DEF OneUsable, Ahead, Group
<1> QED BY <1>4, <1>5, <1>6, <1>7 DEF SessionInv

\* Beginning an operation changes no state: only the object, which was free.
LEMMA BeginStep ==
    ASSUME SessionInv, NEW h \in Handles, Begin(h)
    PROVE  SessionInv'
<1> DEFINE object == [sessions[h] EXCEPT !.transitioning = TRUE,
                                         !.calls = 1]
<1>1. /\ sessions[h] # None /\ Available(sessions[h])
      /\ sessions' = [sessions EXCEPT ![h].transitioning = TRUE,
                                      ![h].calls = @ + 1]
      /\ UNCHANGED <<born, snapshots, checkpoint, released, origin>>
  BY DEF Begin
<1>2. sessions[h] \in Sessions /\ ObjectFit(sessions[h])
  BY <1>1, ObjectsFit
<1>3. sessions[h].calls = 0
  BY <1>1, <1>2 DEF ObjectFit, Available, Sessions
<1>4. sessions' = [sessions EXCEPT ![h] = object]
  <2>1. sessions[h].calls + 1 = 1
    BY <1>3
  <2>. QED  BY <1>1, <2>1
<1>5. /\ object \in Sessions /\ object.state = sessions[h].state
      /\ object.consumed = sessions[h].consumed
      /\ object.erased = sessions[h].erased
      /\ object.calls = 1 /\ object.transitioning
  BY <1>2 DEF Sessions
<1>6. ObjectFit(object)
  BY <1>1, <1>2, <1>5 DEF ObjectFit, Available
<1> HIDE DEF object
<1> QED BY <1>1, <1>4, <1>5, <1>6, SameState

\* A failure frees the object and leaves its state and secrets alone.
LEMMA FailStep ==
    ASSUME SessionInv, NEW h \in Handles, Fail(h)
    PROVE  SessionInv'
<1> DEFINE object == Released(sessions[h])
<1>1. /\ sessions[h] # None /\ sessions[h].calls > 0
      /\ sessions' = [sessions EXCEPT ![h] = object]
      /\ UNCHANGED <<born, snapshots, checkpoint, released, origin>>
  BY DEF Fail
<1>2. sessions[h] \in Sessions /\ ObjectFit(sessions[h])
  BY <1>1, ObjectsFit
<1>3. sessions[h].calls = 1
  BY <1>1, <1>2 DEF ObjectFit, Sessions
<1>4. /\ object \in Sessions /\ object.state = sessions[h].state
      /\ object.consumed = sessions[h].consumed
      /\ object.erased = sessions[h].erased
      /\ object.calls = 0
  BY <1>2, <1>3, LastCallEnds
<1>5. ObjectFit(object)
  BY <1>2, <1>4 DEF ObjectFit
<1> HIDE DEF object
<1> QED BY <1>1, <1>4, <1>5, SameState

\* A new object goes on with a group no other object can go on with.
LEMMA ObjectAdded ==
    ASSUME SessionInv, SessionTypes', NEW h \in Handles, NEW state \in States,
           sessions'[h] = NewSession(state), Fit(state)',
           \A i \in Handles : i # h /\ sessions'[i] # None =>
                /\ sessions[i] # None
                /\ sessions'[i].state = sessions[i].state
                /\ ObjectFit(sessions'[i])
                /\ sessions[i].consumed => sessions'[i].consumed
                /\ ~ sessions'[i].consumed =>
                    Group(sessions[i].state) # Group(state),
           born <= born', checkpoint' = checkpoint,
           checkpoint # None /\ Group(state) = Group(checkpoint) =>
                IsPrefix(checkpoint.history, state.history)
    PROVE  SessionInv'
<1>1. SessionTypes /\ StatesFit /\ CallsFit /\ OneUsable /\ Ahead
      /\ UsableKeepsSecrets
  BY DEF SessionInv
<1>2. /\ sessions'[h] = NewSession(state) /\ NewSession(state).state = state
      /\ ObjectFit(NewSession(state))
  BY NewFits
<1>3. \A s : Fit(s) => Fit(s)'
  BY <1>1 DEF Fit, SessionTypes
<1>4. \A i \in Handles : i # h /\ Usable(i)' =>
        /\ Usable(i) /\ sessions'[i].state = sessions[i].state
        /\ Group(sessions[i].state) # Group(state)
  BY DEF Usable
<1>5. StatesFit'
  BY <1>1, <1>2, <1>3 DEF StatesFit
<1>6. CallsFit' /\ UsableKeepsSecrets'
  BY <1>2 DEF CallsFit, UsableKeepsSecrets, Usable, ObjectFit
<1>7. OneUsable'
  BY <1>1, <1>2, <1>4 DEF OneUsable, Group
<1>8. Ahead'
  BY <1>1, <1>2, <1>4 DEF Ahead, Group
<1> QED BY <1>5, <1>6, <1>7, <1>8 DEF SessionInv

\* The object consumed makes way for one whose history is one longer, so the
\* group has one usable object before and after, and Ahead is kept.
LEMMA SucceedStep ==
    ASSUME SessionInv, NEW h \in Handles, NEW h2 \in Handles,
           NEW operation \in Operations, Succeed(h, h2, operation)
    PROVE  SessionInv'
<1>1. /\ sessions[h] # None /\ sessions[h].calls > 0
      /\ sessions[h2] = None /\ born < MaxBorn
      /\ born' = born + 1
      /\ UNCHANGED <<snapshots, checkpoint, released, origin>>
  BY DEF Succeed, Free
<1>2. PICK state \in Successors(operation, sessions[h].state) :
        sessions' = [sessions EXCEPT ![h] = Settled(@),
                                     ![h2] = NewSession(state)]
  BY DEF Succeed, Free
<1> DEFINE old == sessions[h].state
<1>3. SessionTypes /\ OneUsable /\ Ahead
  BY DEF SessionInv
<1>4. /\ sessions[h] \in Sessions /\ old \in States
      /\ ObjectFit(sessions[h]) /\ Fit(old)
  BY <1>1, ObjectsFit
<1>5. born \in Nat /\ born + 1 \in 1..MaxBorn
  BY <1>1, <1>3, MemberAssumption DEF SessionTypes
<1>6. state \in States /\ state.history = Append(old.history, born + 1)
  BY <1>2, <1>4, <1>5, OneFurther
<1>7. old.history \in Seq(1..MaxBorn) /\ old.history # << >>
  BY <1>4 DEF States, Fit
<1>8. /\ state.history # << >> /\ Group(state) = Group(old)
      /\ \A i \in DOMAIN state.history :
            \/ state.history[i] = born + 1
            \/ i \in DOMAIN old.history /\ state.history[i] = old.history[i]
  BY <1>5, <1>6, <1>7, Longer DEF Group
<1>9. Fit(state)'
  BY <1>1, <1>4, <1>5, <1>8 DEF Fit
<1>10. ~ sessions[h].consumed
  BY <1>1, <1>4 DEF ObjectFit
<1>11. checkpoint # None /\ Group(state) = Group(checkpoint) =>
            IsPrefix(checkpoint.history, state.history)
  <2> SUFFICES ASSUME checkpoint # None, Group(state) = Group(checkpoint)
               PROVE  IsPrefix(checkpoint.history, state.history)
    OBVIOUS
  <2>1. IsPrefix(checkpoint.history, old.history)
    BY <1>1, <1>3, <1>8, <1>10 DEF Ahead, Usable
  <2>2. checkpoint.history \in Seq(1..MaxBorn)
    BY <1>3 DEF SessionTypes, States
  <2>3. IsPrefix(checkpoint.history, Append(old.history, born + 1))
    BY <1>5, <1>7, <2>1, <2>2, PrefixOfLonger
  <2> QED BY <1>6, <2>3
<1>12. /\ Settled(sessions[h]) \in Sessions
       /\ Settled(sessions[h]).state = old
       /\ Settled(sessions[h]).consumed
       /\ Settled(sessions[h]).calls = 0
  <2>1. sessions[h].calls = 1
    BY <1>1, <1>4 DEF ObjectFit, Sessions
  <2> QED BY <1>4, <2>1, LastCallEnds
<1>13. ObjectFit(Settled(sessions[h]))
  BY <1>12 DEF ObjectFit
<1>14. NewSession(state) \in Sessions
  BY <1>6, NewFits
<1>15. h # h2
  BY <1>1
<1>16. /\ sessions'[h] = Settled(sessions[h])
       /\ sessions'[h2] = NewSession(state)
       /\ \A i \in Handles : i # h /\ i # h2 => sessions'[i] = sessions[i]
       /\ sessions' \in [Handles -> Sessions \union {None}]
  BY <1>2, <1>3, <1>12, <1>14, <1>15 DEF SessionTypes
<1>17. SessionTypes'
  BY <1>1, <1>3, <1>5, <1>16 DEF SessionTypes
<1>18. ASSUME NEW i \in Handles, i # h2, sessions'[i] # None
       PROVE  /\ sessions[i] # None
              /\ sessions'[i].state = sessions[i].state
              /\ ObjectFit(sessions'[i])
              /\ sessions[i].consumed => sessions'[i].consumed
              /\ ~ sessions'[i].consumed =>
                    Group(sessions[i].state) # Group(state)
  <2>1. CASE i = h
    BY <1>1, <1>12, <1>13, <1>16, <2>1
  <2>2. CASE i # h
    <3>1. sessions'[i] = sessions[i] /\ ObjectFit(sessions[i])
      BY <1>16, <1>18, <2>2, ObjectsFit
    <3>2. ~ sessions[i].consumed =>
                Group(sessions[i].state) # Group(sessions[h].state)
      BY <1>1, <1>3, <1>10, <1>18, <2>2, <3>1 DEF OneUsable, Usable
    <3> QED BY <1>8, <1>18, <3>1, <3>2
  <2> QED BY <2>1, <2>2
<1>19. born <= born'
  BY <1>1, <1>5
<1> HIDE DEF old
<1> QED BY <1>1, <1>6, <1>9, <1>11, <1>16, <1>17, <1>18, <1>19, ObjectAdded

\* Fewer objects: nothing more can be behind or beside another.
LEMMA ForgetStep ==
    ASSUME SessionInv, NEW h \in Handles, Forget(h)
    PROVE  SessionInv'
<1>1. SessionTypes /\ StatesFit /\ CallsFit /\ OneUsable /\ Ahead
      /\ UsableKeepsSecrets
  BY DEF SessionInv
<1>2. /\ sessions' = [sessions EXCEPT ![h] = None]
      /\ UNCHANGED <<born, snapshots, checkpoint, released, origin>>
  BY DEF Forget
<1>3. SessionTypes'
  BY <1>1, <1>2 DEF SessionTypes
<1>4. \A i \in Handles : sessions'[i] # None =>
            sessions[i] # None /\ sessions'[i] = sessions[i]
  BY <1>1, <1>2 DEF SessionTypes
<1>5. StatesFit'
  BY <1>1, <1>2, <1>4 DEF StatesFit, Fit
<1>6. CallsFit' /\ UsableKeepsSecrets'
  BY <1>1, <1>4 DEF CallsFit, UsableKeepsSecrets, Usable
<1>7. OneUsable' /\ Ahead'
  BY <1>1, <1>2, <1>4 DEF OneUsable, Ahead, Usable, Group
<1> QED BY <1>3, <1>5, <1>6, <1>7 DEF SessionInv

\* What a package starts: a group of its own.
LEMMA Begins ==
    ASSUME born \in Nat, born + 1 \in 1..MaxBorn,
           NEW state \in Founded \union Joined, Constructible(state)
    PROVE  state \in States /\ state.history = << born + 1 >>
<1> DEFINE first == << born + 1 >>
<1>1. first \in Seq(1..MaxBorn)
  OBVIOUS
<1>2. \E n \in 1..MaxMembers, e \in {0, 1} :
        state = [history |-> first, epoch |-> e, members |-> n, active |-> TRUE]
  BY MemberAssumption DEF Founded, Joined, Constructible
<1> HIDE DEF first
<1>3. state \in States /\ state.history = first
  BY <1>1, <1>2 DEF States
<1> QED BY <1>3 DEF first

\* A new group has no other object and no checkpoint, as its number is new.
LEMMA StartStep ==
    ASSUME SessionInv, NEW p \in Packages, NEW h \in Handles,
           NEW Made, Made \subseteq Founded \union Joined, Start(p, h, Made)
    PROVE  SessionInv'
<1>1. /\ sessions[h] = None /\ born < MaxBorn /\ born' = born + 1
      /\ origin' = [origin EXCEPT ![born + 1] = p]
      /\ UNCHANGED <<snapshots, checkpoint, released>>
  BY DEF Start, Free
<1>2. PICK state \in Founded \union Joined :
        /\ Constructible(state)
        /\ sessions' = [sessions EXCEPT ![h] = NewSession(state)]
  BY DEF Start, Free
<1>3. SessionTypes /\ StatesFit
  BY DEF SessionInv
<1>4. born \in Nat /\ born + 1 \in 1..MaxBorn
  BY <1>1, <1>3, MemberAssumption DEF SessionTypes
<1>5. state \in States /\ state.history = << born + 1 >>
  BY <1>2, <1>4, Begins
<1>6. Fit(state)' /\ Group(state) = born + 1
  BY <1>1, <1>4, <1>5 DEF Fit, Group
<1>7. NewSession(state) \in Sessions
  BY <1>5, NewFits
<1>8. /\ sessions'[h] = NewSession(state)
      /\ \A i \in Handles : i # h => sessions'[i] = sessions[i]
      /\ sessions' \in [Handles -> Sessions \union {None}]
  BY <1>2, <1>3, <1>7 DEF SessionTypes
<1>9. SessionTypes'
  <2>1. released' \subseteq 1..born' /\ born' \in 0..MaxBorn
    BY <1>1, <1>3, <1>4 DEF SessionTypes
  <2>2. origin' \in [1..MaxBorn -> Packages \union {None}]
    BY <1>1, <1>3 DEF SessionTypes
  <2> QED BY <1>1, <1>3, <1>8, <2>1, <2>2 DEF SessionTypes
<1>10. \A s \in States : Fit(s) => Group(s) # Group(state)
  BY <1>4, <1>6, GroupBegun
<1>11. ASSUME NEW i \in Handles, i # h, sessions'[i] # None
       PROVE  /\ sessions[i] # None
              /\ sessions'[i].state = sessions[i].state
              /\ ObjectFit(sessions'[i])
              /\ sessions[i].consumed => sessions'[i].consumed
              /\ ~ sessions'[i].consumed =>
                    Group(sessions[i].state) # Group(state)
  <2>1. sessions'[i] = sessions[i]
    BY <1>8, <1>11
  <2>2. /\ sessions[i].state \in States /\ ObjectFit(sessions[i])
        /\ Fit(sessions[i].state)
    BY <1>11, <2>1, ObjectsFit
  <2> QED BY <1>10, <1>11, <2>1, <2>2
<1>12. checkpoint # None => Group(state) # Group(checkpoint)
  <2> SUFFICES ASSUME checkpoint # None
               PROVE  Group(state) # Group(checkpoint)
    OBVIOUS
  <2>1. checkpoint \in States /\ Fit(checkpoint)
    BY <1>3 DEF SessionTypes, StatesFit
  <2> QED BY <1>10, <2>1
<1>13. born <= born'
  BY <1>1, <1>4
<1> QED BY <1>1, <1>5, <1>6, <1>8, <1>9, <1>11, <1>12, <1>13, ObjectAdded

\* What is restored is the checkpoint itself, when no object is there.
LEMMA RestoreStep ==
    ASSUME SessionInv, NEW state \in snapshots, NEW h \in Handles,
           Restore(state, h)
    PROVE  SessionInv'
<1>1. /\ checkpoint # None /\ state = checkpoint
      /\ \A i \in Handles : sessions[i] = None
      /\ sessions' = [sessions EXCEPT ![h] = NewSession(state)]
      /\ UNCHANGED <<born, snapshots, checkpoint, released, origin>>
  BY DEF Restore, Free, Restores
<1>2. SessionTypes /\ StatesFit
  BY DEF SessionInv
<1>3. state \in States /\ Fit(state)
  BY <1>1, <1>2 DEF SessionTypes, StatesFit
<1>4. Fit(state)'
  BY <1>1, <1>3 DEF Fit
<1>5. NewSession(state) \in Sessions
  BY <1>3, NewFits
<1>6. /\ sessions'[h] = NewSession(state)
      /\ \A i \in Handles : i # h => sessions'[i] = None
      /\ sessions' \in [Handles -> Sessions \union {None}]
  BY <1>1, <1>2, <1>5 DEF SessionTypes
<1>7. SessionTypes'
  BY <1>1, <1>2, <1>6 DEF SessionTypes
<1>8. IsPrefix(checkpoint.history, state.history)
  BY <1>1, <1>3, PrefixOfItself DEF States
<1>9. born <= born'
  BY <1>1, <1>2 DEF SessionTypes
<1> QED BY <1>1, <1>3, <1>4, <1>6, <1>7, <1>8, <1>9, ObjectAdded

\* Snapshots are part of no other condition.
LEMMA StoreSnapshotStep ==
    ASSUME SessionInv, NEW h \in Handles, StoreSnapshot(h)
    PROVE  SessionInv'
<1>1. SessionTypes /\ StatesFit /\ CallsFit /\ OneUsable /\ Ahead
      /\ UsableKeepsSecrets
  BY DEF SessionInv
<1>2. /\ sessions[h] # None
      /\ snapshots' = snapshots \union {sessions[h].state}
      /\ UNCHANGED <<born, sessions, checkpoint, released, origin>>
  BY DEF StoreSnapshot
<1>3. sessions[h].state \in States
  BY <1>2, ObjectsFit
<1>4. SessionTypes'
  BY <1>1, <1>2, <1>3 DEF SessionTypes
<1>5. StatesFit' /\ CallsFit' /\ UsableKeepsSecrets' /\ OneUsable' /\ Ahead'
  BY <1>1, <1>2
     DEF StatesFit, Fit, CallsFit, UsableKeepsSecrets, Usable, OneUsable,
         Ahead, Group
<1> QED BY <1>4, <1>5 DEF SessionInv

\* The object stored is the only usable one of its group, so none is behind it.
LEMMA StoreCheckpointStep ==
    ASSUME SessionInv, NEW h \in Handles, StoreCheckpoint(h)
    PROVE  SessionInv'
<1>1. SessionTypes /\ StatesFit /\ CallsFit /\ OneUsable
      /\ UsableKeepsSecrets
  BY DEF SessionInv
<1>2. /\ sessions[h] # None /\ ~ sessions[h].consumed
      /\ checkpoint' = sessions[h].state
      /\ UNCHANGED <<born, sessions, snapshots, released, origin>>
  BY DEF StoreCheckpoint, Available
<1>3. sessions[h].state \in States /\ Fit(sessions[h].state)
  BY <1>2, ObjectsFit
<1>4. SessionTypes'
  BY <1>1, <1>2, <1>3 DEF SessionTypes
<1>5. StatesFit'
  BY <1>1, <1>2, <1>3 DEF StatesFit, Fit
<1>6. CallsFit' /\ UsableKeepsSecrets' /\ OneUsable'
  BY <1>1, <1>2 DEF CallsFit, UsableKeepsSecrets, Usable, OneUsable, Group
<1>7. Ahead'
  <2> SUFFICES ASSUME NEW i \in Handles, Usable(i)',
                      (Group(sessions[i].state) = Group(checkpoint))'
               PROVE  IsPrefix(checkpoint.history, sessions[i].state.history)'
    BY DEF Ahead
  <2>1. i = h
    BY <1>1, <1>2 DEF OneUsable, Usable, Group
  <2>2. IsPrefix(sessions[h].state.history, sessions[h].state.history)
    BY <1>3, PrefixOfItself DEF States
  <2> QED BY <1>2, <2>1, <2>2 DEF IsPrefix
<1> QED BY <1>4, <1>5, <1>6, <1>7 DEF SessionInv

\* What is let out was begun before.
LEMMA ReleaseStep ==
    ASSUME SessionInv, Release
    PROVE  SessionInv'
<1>1. SessionTypes /\ StatesFit /\ CallsFit /\ OneUsable /\ Ahead
      /\ UsableKeepsSecrets
  BY DEF SessionInv
<1>2. /\ checkpoint # None
      /\ UNCHANGED <<born, sessions, snapshots, checkpoint, origin>>
  BY DEF Release
<1>3. released' \subseteq 1..born
  <2>1. PICK i \in DOMAIN checkpoint.history :
            released' = released \union {checkpoint.history[i]}
    BY DEF Release
  <2>2. checkpoint.history[i] \in 1..born
    BY <1>1, <1>2 DEF StatesFit, Fit
  <2> QED BY <1>1, <2>1, <2>2 DEF SessionTypes
<1>4. SessionTypes'
  BY <1>1, <1>2, <1>3 DEF SessionTypes
<1>5. StatesFit' /\ CallsFit' /\ UsableKeepsSecrets' /\ OneUsable' /\ Ahead'
  BY <1>1, <1>2
     DEF StatesFit, Fit, CallsFit, UsableKeepsSecrets, Usable, OneUsable,
         Ahead, Group
<1> QED BY <1>4, <1>5 DEF SessionInv

\* After a crash there is no object; the checkpoint is what it was.
LEMMA CrashStep ==
    ASSUME SessionInv, Crash
    PROVE  SessionInv'
<1>1. SessionTypes /\ StatesFit
  BY DEF SessionInv
<1>2. /\ sessions' = [h \in Handles |-> None]
      /\ UNCHANGED <<born, snapshots, checkpoint, released, origin>>
  BY DEF Crash
<1>3. SessionTypes'
  BY <1>1, <1>2 DEF SessionTypes
<1>4. \A i \in Handles : sessions'[i] = None
  BY <1>2
<1>5. StatesFit' /\ CallsFit' /\ UsableKeepsSecrets' /\ OneUsable' /\ Ahead'
  BY <1>1, <1>2, <1>4
     DEF StatesFit, Fit, CallsFit, UsableKeepsSecrets, Usable, OneUsable,
         Ahead
<1> QED BY <1>3, <1>5 DEF SessionInv

\* Steps of packages only leave the sessions as they are.
LEMMA SessionsAlone ==
    ASSUME SessionInv, UNCHANGED sessionVars
    PROVE  SessionInv'
<1>1. SessionTypes /\ StatesFit /\ CallsFit /\ OneUsable /\ Ahead
      /\ UsableKeepsSecrets
  BY DEF SessionInv
<1>2. UNCHANGED <<born, sessions, snapshots, checkpoint, released, origin>>
  BY DEF sessionVars
<1>3. SessionTypes'
  BY <1>1, <1>2 DEF SessionTypes
<1>4. StatesFit' /\ CallsFit' /\ UsableKeepsSecrets' /\ OneUsable' /\ Ahead'
  BY <1>1, <1>2
     DEF StatesFit, Fit, CallsFit, UsableKeepsSecrets, Usable, OneUsable,
         Ahead, Group
<1> QED BY <1>3, <1>4 DEF SessionInv

\* Every step keeps SessionInv.
LEMMA SessionStep ==
    ASSUME SessionInv, [Next]_vars
    PROVE  SessionInv'
<1>1. ASSUME PackageStep /\ UNCHANGED sessionVars  PROVE SessionInv'
  BY <1>1, SessionsAlone
<1>2. ASSUME NEW p \in Packages, UseStart(p) \/ UseFail(p)  PROVE SessionInv'
  BY <1>2, SessionsAlone DEF UseStart, UseFail
<1>3. ASSUME NEW p \in Packages, NEW h \in Handles, Create(p, h) \/ Join(p, h)
      PROVE  SessionInv'
  BY <1>3, StartStep DEF Create, Join
<1>4. ASSUME UNCHANGED vars  PROVE SessionInv'
  BY <1>4, SessionsAlone DEF vars
<1> QED BY <1>1, <1>2, <1>3, <1>4, BeginStep, FailStep, SucceedStep, ForgetStep,
           StoreSnapshotStep, StoreCheckpointStep, RestoreStep, ReleaseStep,
           CrashStep
        DEF Next

\* It holds at the start, when there is nothing.
LEMMA SessionInit == Init => SessionInv
<1> SUFFICES ASSUME Init PROVE SessionInv
  OBVIOUS
<1>1. /\ born = 0 /\ sessions = [h \in Handles |-> None] /\ snapshots = {}
      /\ checkpoint = None /\ released = {}
      /\ origin = [n \in 1..MaxBorn |-> None]
  BY DEF Init
<1>2. SessionTypes
  BY <1>1, MemberAssumption DEF SessionTypes
<1>3. StatesFit /\ CallsFit /\ UsableKeepsSecrets /\ OneUsable /\ Ahead
  BY <1>1 DEF StatesFit, CallsFit, UsableKeepsSecrets, Usable, OneUsable, Ahead
<1> QED BY <1>2, <1>3 DEF SessionInv

----------------------------------------------------------------------------
(* The packages *)

\* The package the group of a state was begun with.
From(state) == origin[Group(state)]

\* A package that may start a history: not consumed, or in use.
MayStart(package) == ~ package.consumed \/ package.inUse

\* Nothing there to go on from was begun with this package.
NotStarted(p) ==
    /\ trusted[p] # "tombstone"
    /\ checkpoint # None => From(checkpoint) # p
    /\ \A h \in Handles : Usable(h) => From(sessions[h].state) # p

PackagesFresh ==
    \A p \in Packages :
        packages[p] # None /\ MayStart(packages[p]) => NotStarted(p)

\* A package whose group is trusted is a tombstone; one whose group is only
\* in memory is in memory too, or a tombstone.
Buried ==
    /\ checkpoint # None =>
        \A p \in Packages : From(checkpoint) = p => trusted[p] = "tombstone"
    /\ \A p \in Packages, h \in Handles :
        Usable(h) /\ From(sessions[h].state) = p =>
            trusted[p] = "tombstone" \/ packages[p] # None

MakingFit ==
    \A p \in Packages :
        making[p] # "none" =>
            packages[p] = None /\ trusted[p] = "none" /\ identity \in Bytes

\* PackageStartsOneHistory, object by object.
OneGroup ==
    /\ \A h, i \in Handles :
        Usable(h) /\ Usable(i)
            /\ From(sessions[h].state) = From(sessions[i].state) =>
                Group(sessions[h].state) = Group(sessions[i].state)
    /\ \A h \in Handles :
        Usable(h) /\ checkpoint # None
            /\ From(sessions[h].state) = From(checkpoint) =>
                Group(sessions[h].state) = Group(checkpoint)

PackageInv ==
    /\ PackageTypeOK
    /\ KeysWhileNeeded
    /\ MakingFit
    /\ PackagesFresh
    /\ Buried
    /\ OneGroup

\* KeysWhileNeeded, of one package.
KeysFit(package) ==
    /\ package.keys = (IF package.consumed THEN "zero" ELSE "live")
    /\ package.inUse <=> package.copy = "live"

\* What PackageInv says of one package.
LEMMA PackageFits ==
    ASSUME PackageInv, NEW p \in Packages, packages[p] # None
    PROVE  packages[p] \in PackageObjects /\ KeysFit(packages[p])
  BY DEF PackageInv, PackageTypeOK, KeysWhileNeeded, KeysFit

\* A package changes, perhaps the one just made.
LEMMA PackageChanged ==
    ASSUME PackageInv, NEW p \in Packages, NEW package \in PackageObjects,
           KeysFit(package), MayStart(package) => NotStarted(p),
           packages' = [packages EXCEPT ![p] = package],
           \/ packages[p] # None /\ making' = making
           \/ trusted[p] # "none" /\ making' = making
           \/ making' = [making EXCEPT ![p] = "none"],
           UNCHANGED <<identity, trusted, blobs, sessionVars>>
    PROVE  PackageInv'
<1>1. /\ PackageTypeOK /\ KeysWhileNeeded /\ MakingFit
      /\ PackagesFresh /\ Buried /\ OneGroup
  BY DEF PackageInv
<1>2. UNCHANGED <<sessions, checkpoint, origin>>
  BY DEF sessionVars
<1>3. /\ packages'[p] = package /\ package # None
      /\ \A q \in Packages : q # p => packages'[q] = packages[q]
      /\ packages' \in [Packages -> PackageObjects \union {None}]
  BY <1>1, PackageAssumption DEF PackageTypeOK
<1>4. making'[p] = "none" /\ \A q \in Packages : q # p => making'[q] = making[q]
  BY <1>1 DEF PackageTypeOK, MakingFit
<1>5. making' \in [Packages -> {"none", "suite"} \union Bytes]
  BY <1>1 DEF PackageTypeOK
<1>6. PackageTypeOK'
  BY <1>1, <1>3, <1>5 DEF PackageTypeOK
<1>7. KeysWhileNeeded'
  BY <1>1, <1>3 DEF KeysWhileNeeded, KeysFit
<1>8. MakingFit'
  BY <1>1, <1>3, <1>4 DEF MakingFit
<1>9. \A q : NotStarted(q)' <=> NotStarted(q)
  BY <1>2 DEF NotStarted, From, Group, Usable
<1>10. PackagesFresh'
  BY <1>1, <1>3, <1>9 DEF PackagesFresh
<1>11. Buried' /\ OneGroup'
  BY <1>1, <1>2, <1>3 DEF Buried, OneGroup, From, Group, Usable
<1> QED BY <1>6, <1>7, <1>8, <1>10, <1>11 DEF PackageInv

\* No package changes; one may be begun, or stored for the first time.
LEMMA PackagesKept ==
    ASSUME PackageInv, PackageTypeOK', MakingFit',
           \A p \in Packages : (trusted'[p] = "tombstone") <=>
                               (trusted[p] = "tombstone"),
           UNCHANGED <<packages, sessionVars>>
    PROVE  PackageInv'
<1>1. KeysWhileNeeded /\ PackagesFresh /\ Buried /\ OneGroup
  BY DEF PackageInv
<1>2. UNCHANGED <<sessions, checkpoint, origin>>
  BY DEF sessionVars
<1>3. \A q \in Packages : NotStarted(q)' <=> NotStarted(q)
  BY <1>2 DEF NotStarted, From, Group, Usable
<1>4. KeysWhileNeeded' /\ PackagesFresh'
  BY <1>1, <1>3 DEF KeysWhileNeeded, PackagesFresh
<1>5. Buried' /\ OneGroup'
  BY <1>1, <1>2 DEF Buried, OneGroup, From, Group, Usable
<1> QED BY <1>4, <1>5 DEF PackageInv

\* While a package is made there is no object of it yet.
LEMMA MakingStep ==
    ASSUME PackageInv, UNCHANGED sessionVars,
           \/ GenerateIdentity \/ RestoreIdentity \/ DestroyIdentity
           \/ \E p \in Packages : MakeStart(p) \/ MakeCopy(p)
    PROVE  PackageInv'
<1>1. PackageTypeOK /\ MakingFit
  BY DEF PackageInv
<1>2. CASE GenerateIdentity \/ RestoreIdentity \/ DestroyIdentity
  <2>1. UNCHANGED <<making, packages, blobs, trusted>>
        /\ identity' \in {"live", "zero"}
    BY <1>2 DEF GenerateIdentity, RestoreIdentity, DestroyIdentity
  <2>2. PackageTypeOK' /\ MakingFit'
    BY <1>1, <2>1 DEF PackageTypeOK, MakingFit, Bytes
  <2> QED BY <2>1, <2>2, PackagesKept
<1>3. ASSUME NEW p \in Packages, MakeStart(p)  PROVE PackageInv'
  <2>1. /\ packages[p] = None /\ trusted[p] = "none" /\ identity = "live"
        /\ making' = [making EXCEPT ![p] = "suite"]
        /\ UNCHANGED <<identity, packages, blobs, trusted>>
    BY <1>3 DEF MakeStart
  <2>2. PackageTypeOK' /\ MakingFit'
    BY <1>1, <2>1 DEF PackageTypeOK, MakingFit, Bytes
  <2> QED BY <2>1, <2>2, PackagesKept
<1>4. ASSUME NEW p \in Packages, MakeCopy(p)  PROVE PackageInv'
  <2>1. /\ making[p] = "suite"
        /\ making' = [making EXCEPT ![p] = identity]
        /\ UNCHANGED <<identity, packages, blobs, trusted>>
    BY <1>4 DEF MakeCopy
  <2>2. identity \in Bytes
    BY <1>1, <2>1 DEF MakingFit
  <2>3. PackageTypeOK' /\ MakingFit'
    BY <1>1, <2>1, <2>2 DEF PackageTypeOK, MakingFit
  <2> QED BY <2>1, <2>3, PackagesKept
<1> QED BY <1>2, <1>3, <1>4

\* A package made has started nothing: no group is there of a package that
\* was neither in memory nor a tombstone (Buried).
LEMMA MakeFinishStep ==
    ASSUME PackageInv, NEW p \in Packages, MakeFinish(p), UNCHANGED sessionVars
    PROVE  PackageInv'
<1>1. PackageTypeOK /\ MakingFit /\ Buried
  BY DEF PackageInv
<1>2. /\ making[p] \in Bytes /\ making' = [making EXCEPT ![p] = "none"]
      /\ UNCHANGED <<identity, blobs, trusted>>
  BY DEF MakeFinish
<1>3. packages[p] = None /\ trusted[p] = "none"
  BY <1>1, <1>2 DEF MakingFit, Bytes
<1>4. CASE making[p] = "live"
  <2>1. packages' = [packages EXCEPT ![p] = FreshPackage("live")]
    BY <1>4 DEF MakeFinish, Signs
  <2>2. FreshPackage("live") \in PackageObjects /\ KeysFit(FreshPackage("live"))
    BY DEF FreshPackage, PackageObjects, KeysFit, Bytes
  <2>3. NotStarted(p)
    BY <1>1, <1>3 DEF NotStarted, Buried
  <2> QED BY <1>2, <2>1, <2>2, <2>3, PackageChanged
<1>5. CASE making[p] = "zero"
  <2>1. packages' = packages
    BY <1>5 DEF MakeFinish, Signs
  <2>2. PackageTypeOK' /\ MakingFit'
    BY <1>1, <1>2, <2>1 DEF PackageTypeOK, MakingFit
  <2> QED BY <1>2, <2>1, <2>2, PackagesKept
<1> QED BY <1>2, <1>4, <1>5 DEF Bytes

\* destroy, a private package handed over, the start and the failure of a use:
\* a package that may start a history after it might before.
LEMMA PackageUsed ==
    ASSUME PackageInv, NEW p \in Packages, UNCHANGED sessionVars,
           DestroyPackage(p) \/ ConsumePackage(p) \/ UseStart(p) \/ UseFail(p)
    PROVE  PackageInv'
<1> DEFINE old == packages[p]
<1>1. /\ old # None
      /\ UNCHANGED <<identity, making, blobs, trusted>>
  BY DEF DestroyPackage, ConsumePackage, UseStart, UseFail
<1>2. old \in PackageObjects /\ KeysFit(old)
  BY <1>1, PackageFits
<1>3. MayStart(old) => NotStarted(p)
  BY <1>1 DEF PackageInv, PackagesFresh
<1>4. CASE DestroyPackage(p) \/ ConsumePackage(p)
  <2>1. packages' = [packages EXCEPT ![p] = Wiped(old)]
    BY <1>4 DEF DestroyPackage, ConsumePackage
  <2>2. Wiped(old) \in PackageObjects /\ KeysFit(Wiped(old))
    BY <1>2 DEF Wiped, PackageObjects, KeysFit, Bytes
  <2>3. MayStart(Wiped(old)) => MayStart(old)
    BY <1>2 DEF Wiped, PackageObjects, MayStart
  <2> HIDE DEF old
  <2> QED BY <1>1, <1>3, <2>1, <2>2, <2>3, PackageChanged DEF old
<1>5. CASE UseStart(p)
  <2>1. Unused(old) /\ packages' = [packages EXCEPT ![p] = Taken(old)]
    BY <1>5 DEF UseStart
  <2>2. Taken(old) \in PackageObjects /\ KeysFit(Taken(old))
    BY <1>2, <2>1 DEF Taken, PackageObjects, KeysFit, Bytes, Unused
  <2>3. MayStart(old)
    BY <2>1 DEF Unused, MayStart
  <2> QED BY <1>1, <1>3, <2>1, <2>2, <2>3, PackageChanged
<1>6. CASE UseFail(p)
  <2>1. packages' = [packages EXCEPT ![p] = GivenBack(old)]
    BY <1>6 DEF UseFail
  <2>2. GivenBack(old) \in PackageObjects /\ KeysFit(GivenBack(old))
    BY <1>2 DEF GivenBack, PackageObjects, KeysFit, Bytes
  <2>3. MayStart(GivenBack(old)) => MayStart(old)
    BY <1>2 DEF GivenBack, PackageObjects, MayStart
  <2> QED BY <1>1, <1>3, <2>1, <2>2, <2>3, PackageChanged
<1> QED BY <1>4, <1>5, <1>6

\* Storing a package makes it trusted, and no package that started a history
\* is stored.
LEMMA StorePackageStep ==
    ASSUME PackageInv, NEW p \in Packages, StorePackage(p),
           UNCHANGED sessionVars
    PROVE  PackageInv'
<1>1. PackageTypeOK /\ MakingFit
  BY DEF PackageInv
<1>2. /\ packages[p] # None /\ trusted[p] = "none"
      /\ blobs' = blobs \union {p}
      /\ trusted' = [trusted EXCEPT ![p] = "package"]
      /\ UNCHANGED <<identity, making, packages>>
  BY DEF StorePackage
<1>3. PackageTypeOK' /\ MakingFit'
  BY <1>1, <1>2 DEF PackageTypeOK, MakingFit
<1>4. \A q \in Packages : (trusted'[q] = "tombstone") <=>
                          (trusted[q] = "tombstone")
  BY <1>1, <1>2 DEF PackageTypeOK
<1> QED BY <1>2, <1>3, <1>4, PackagesKept

\* What is restored is no tombstone, so no group trusted or in memory began
\* with it (Buried).
LEMMA RestorePackageStep ==
    ASSUME PackageInv, NEW p \in Packages, RestorePackage(p),
           UNCHANGED sessionVars
    PROVE  PackageInv'
<1>1. Buried
  BY DEF PackageInv
<1>2. /\ packages[p] = None /\ trusted[p] = "package"
      /\ packages' = [packages EXCEPT ![p] = FreshPackage("live")]
      /\ UNCHANGED <<identity, making, blobs, trusted>>
  BY DEF RestorePackage, Restorable
<1>3. FreshPackage("live") \in PackageObjects /\ KeysFit(FreshPackage("live"))
  BY DEF FreshPackage, PackageObjects, KeysFit, Bytes
<1>4. NotStarted(p)
  BY <1>1, <1>2 DEF NotStarted, Buried
<1> QED BY <1>2, <1>3, <1>4, PackageChanged

\* The groups there are to go on from are among those there were.
LEMMA GroupsKept ==
    ASSUME PackageInv, UNCHANGED <<packageVars, checkpoint, origin>>,
           \A h \in Handles : Usable(h)' =>
            \/ \E i \in Handles :
                /\ Usable(i)
                /\ Group(sessions'[h].state) = Group(sessions[i].state)
            \/ /\ checkpoint # None
               /\ Group(sessions'[h].state) = Group(checkpoint)
    PROVE  PackageInv'
<1>1. /\ PackageTypeOK /\ KeysWhileNeeded /\ MakingFit
      /\ PackagesFresh /\ Buried /\ OneGroup
  BY DEF PackageInv
<1>2. UNCHANGED <<identity, making, packages, blobs, trusted>>
  BY DEF packageVars
<1>3. PackageTypeOK' /\ KeysWhileNeeded' /\ MakingFit'
  BY <1>1, <1>2 DEF PackageTypeOK, KeysWhileNeeded, MakingFit
<1>4. checkpoint # None =>
        (From(checkpoint)' = From(checkpoint)
            /\ Group(checkpoint)' = Group(checkpoint))
  BY DEF From, Group
<1>5. \A h \in Handles : Usable(h)' =>
            \/ \E i \in Handles :
                /\ Usable(i)
                /\ From(sessions[h].state)' = From(sessions[i].state)
                /\ Group(sessions[h].state)' = Group(sessions[i].state)
            \/ /\ checkpoint # None
               /\ From(sessions[h].state)' = From(checkpoint)
               /\ Group(sessions[h].state)' = Group(checkpoint)
  BY DEF From, Group
<1>6. PackagesFresh'
  BY <1>1, <1>2, <1>4, <1>5 DEF PackagesFresh, NotStarted
<1>7. Buried'
  BY <1>1, <1>2, <1>4, <1>5 DEF Buried
<1>8. OneGroup'
  BY <1>1, <1>4, <1>5 DEF OneGroup
<1> QED BY <1>3, <1>6, <1>7, <1>8 DEF PackageInv

\* The operations and what the application does between them.
LEMMA GroupsKeptStep ==
    ASSUME SessionInv, PackageInv, NEW h \in Handles,
           \/ Begin(h) \/ Fail(h)
           \/ Forget(h)
           \/ StoreSnapshot(h)
           \/ Release
    PROVE  PackageInv'
<1>1. sessions \in [Handles -> Sessions \union {None}]
  BY DEF SessionInv, SessionTypes
<1>2. UNCHANGED <<packageVars, checkpoint, origin>>
  BY DEF Begin, Fail, Forget, StoreSnapshot, Release
<1>3. \A i \in Handles : Usable(i)' =>
        Usable(i) /\ sessions'[i].state = sessions[i].state
  <2>1. ASSUME Begin(h) \/ Fail(h),
               NEW i \in Handles, Usable(i)'
        PROVE  Usable(i) /\ sessions'[i].state = sessions[i].state
    <3>1. sessions[h] # None /\ sessions[h] \in Sessions
      BY <1>1, <2>1 DEF Begin, Fail
    <3>2. CASE i # h
      BY <1>1, <2>1, <3>2 DEF Begin, Fail, Usable
    <3>3. CASE i = h
      BY <1>1, <2>1, <3>1, <3>3 DEF Begin, Fail, Usable, Released, Sessions
    <3> QED BY <3>2, <3>3
  <2>2. ASSUME Forget(h), NEW i \in Handles, Usable(i)'
        PROVE  Usable(i) /\ sessions'[i].state = sessions[i].state
    BY <1>1, <2>2 DEF Forget, Usable
  <2>3. ASSUME StoreSnapshot(h) \/ Release, NEW i \in Handles, Usable(i)'
        PROVE  Usable(i) /\ sessions'[i].state = sessions[i].state
    BY <2>3 DEF StoreSnapshot, Release, Usable
  <2> QED BY <2>1, <2>2, <2>3
<1> QED BY <1>2, <1>3, GroupsKept DEF Group

\* A transition goes on in the group it found.
LEMMA GroupsGrowStep ==
    ASSUME SessionInv, PackageInv, NEW h \in Handles, NEW h2 \in Handles,
           NEW operation \in Operations, Succeed(h, h2, operation)
    PROVE  PackageInv'
<1>1. /\ sessions[h] # None /\ sessions[h].calls > 0
      /\ sessions[h2] = None /\ born < MaxBorn
      /\ UNCHANGED <<packageVars, checkpoint, origin>>
  BY DEF Succeed, Free
<1>2. PICK state \in Successors(operation, sessions[h].state) :
        sessions' = [sessions EXCEPT ![h] = Settled(@),
                                     ![h2] = NewSession(state)]
  BY DEF Succeed, Free
<1>3. SessionTypes
  BY DEF SessionInv
<1>4. /\ sessions[h] \in Sessions /\ sessions[h].state \in States
      /\ ObjectFit(sessions[h]) /\ Fit(sessions[h].state)
  BY <1>1, ObjectsFit
<1>5. born \in Nat /\ born + 1 \in 1..MaxBorn
  BY <1>1, <1>3, MemberAssumption DEF SessionTypes
<1>6. /\ state \in States
      /\ state.history = Append(sessions[h].state.history, born + 1)
  BY <1>2, <1>4, <1>5, OneFurther
<1>7. /\ sessions[h].state.history \in Seq(1..MaxBorn)
      /\ sessions[h].state.history # << >>
  BY <1>4 DEF States, Fit
<1>8. Group(state) = Group(sessions[h].state)
  BY <1>5, <1>6, <1>7, Longer DEF Group
<1>9. Usable(h)
  BY <1>1, <1>4 DEF ObjectFit, Usable
<1>10. Settled(sessions[h]).consumed
  BY <1>4 DEF Settled, Sessions
<1>11. NewSession(state).state = state
  BY <1>6, NewFits
<1>12. ASSUME NEW i \in Handles, Usable(i)'
       PROVE  \E j \in Handles :
                /\ Usable(j)
                /\ Group(sessions'[i].state) = Group(sessions[j].state)
  <2>1. CASE i = h2
    BY <1>1, <1>2, <1>3, <1>8, <1>9, <1>11, <2>1 DEF SessionTypes
  <2>2. CASE i # h2
    <3>1. i # h
      BY <1>2, <1>3, <1>10, <1>12, <2>2 DEF SessionTypes, Usable
    <3>2. sessions'[i] = sessions[i]
      BY <1>2, <1>3, <2>2, <3>1 DEF SessionTypes
    <3> QED BY <1>12, <3>2 DEF Usable
  <2> QED BY <2>1, <2>2
<1> QED BY <1>1, <1>12, GroupsKept

\* The session restored is of the group of the checkpoint.
LEMMA GroupsRestoredStep ==
    ASSUME SessionInv, PackageInv, NEW state \in snapshots, NEW h \in Handles,
           Restore(state, h)
    PROVE  PackageInv'
<1>1. /\ checkpoint # None /\ state = checkpoint
      /\ \A i \in Handles : sessions[i] = None
      /\ sessions' = [sessions EXCEPT ![h] = NewSession(state)]
      /\ UNCHANGED <<packageVars, checkpoint, origin>>
  BY DEF Restore, Free, Restores
<1>2. SessionTypes
  BY DEF SessionInv
<1>3. NewSession(state).state = state
  BY <1>1, <1>2, NewFits DEF SessionTypes
<1>4. \A i \in Handles : Usable(i)' =>
        Group(sessions'[i].state) = Group(checkpoint)
  BY <1>1, <1>2, <1>3 DEF SessionTypes, Usable
<1> QED BY <1>1, <1>4, GroupsKept

\* A package starts its one group.
LEMMA GroupStartedStep ==
    ASSUME SessionInv, PackageInv, NEW p \in Packages, NEW h \in Handles,
           NEW Made, Made \subseteq Founded \union Joined, Start(p, h, Made)
    PROVE  PackageInv'
<1>1. /\ packages[p] # None /\ packages[p].inUse
      /\ sessions[h] = None /\ born < MaxBorn
      /\ packages' = [packages EXCEPT ![p] = Spent(@)]
      /\ origin' = [origin EXCEPT ![born + 1] = p]
      /\ UNCHANGED <<identity, making, blobs, trusted, checkpoint>>
  BY DEF Start, Free
<1>2. PICK state \in Founded \union Joined :
        /\ Constructible(state)
        /\ sessions' = [sessions EXCEPT ![h] = NewSession(state)]
  BY DEF Start, Free
<1>3. /\ PackageTypeOK /\ KeysWhileNeeded /\ MakingFit
      /\ PackagesFresh /\ Buried /\ OneGroup
  BY DEF PackageInv
<1>4. SessionTypes /\ StatesFit
  BY DEF SessionInv
<1>5. born \in Nat /\ born + 1 \in 1..MaxBorn
  BY <1>1, <1>4, MemberAssumption DEF SessionTypes
<1>6. state \in States /\ state.history = << born + 1 >>
  BY <1>2, <1>5, Begins
<1>7. Group(state) = born + 1 /\ origin'[born + 1] = p
  BY <1>1, <1>4, <1>5, <1>6 DEF Group, SessionTypes
<1>8. NotStarted(p)
  BY <1>1, <1>3 DEF PackagesFresh, MayStart
<1>9. packages[p] \in PackageObjects /\ KeysFit(packages[p])
  BY <1>1, PackageFits
<1>10. /\ Spent(packages[p]) \in PackageObjects
       /\ KeysFit(Spent(packages[p]))
       /\ ~ MayStart(Spent(packages[p]))
  BY <1>9 DEF Spent, Wiped, PackageObjects, KeysFit, Bytes, MayStart
<1>11. /\ packages'[p] = Spent(packages[p]) /\ packages'[p] # None
       /\ \A q \in Packages : q # p => packages'[q] = packages[q]
       /\ packages' \in [Packages -> PackageObjects \union {None}]
  BY <1>1, <1>3, <1>10, PackageAssumption DEF PackageTypeOK
<1>12. PackageTypeOK' /\ KeysWhileNeeded' /\ MakingFit'
  <2>1. PackageTypeOK'
    BY <1>1, <1>3, <1>11 DEF PackageTypeOK
  <2>2. KeysWhileNeeded'
    BY <1>3, <1>10, <1>11 DEF KeysWhileNeeded, KeysFit
  <2>3. MakingFit'
    BY <1>1, <1>3, <1>11 DEF MakingFit
  <2> QED BY <2>1, <2>2, <2>3
<1>13. \A s \in States : Fit(s) =>
            (Group(s) # born + 1 /\ origin'[Group(s)] = origin[Group(s)])
  BY <1>1, <1>4, <1>5, GroupBegun DEF SessionTypes
<1>14. checkpoint # None =>
            (Group(checkpoint) # born + 1
                /\ From(checkpoint)' = From(checkpoint)
                /\ Group(checkpoint)' = Group(checkpoint))
  <2>1. checkpoint # None => checkpoint \in States /\ Fit(checkpoint)
    BY <1>4 DEF SessionTypes, StatesFit
  <2> QED BY <1>1, <1>13, <2>1 DEF From, Group
<1>15. /\ sessions'[h] = NewSession(state) /\ sessions'[h].state = state
       /\ \A i \in Handles : i # h => sessions'[i] = sessions[i]
  BY <1>2, <1>4, <1>6, NewFits DEF SessionTypes
<1>16. ASSUME NEW i \in Handles, i # h, Usable(i)'
       PROVE  /\ Usable(i)
              /\ From(sessions[i].state)' = From(sessions[i].state)
              /\ Group(sessions[i].state)' = Group(sessions[i].state)
  <2>1. sessions'[i] = sessions[i] /\ Usable(i)
    BY <1>15, <1>16 DEF Usable
  <2>2. sessions[i].state \in States /\ Fit(sessions[i].state)
    BY <2>1, ObjectsFit DEF Usable
  <2> QED BY <1>13, <2>1, <2>2 DEF From, Group
<1>17. From(sessions[h].state)' = p /\ Group(sessions[h].state)' = born + 1
  BY <1>7, <1>15 DEF From, Group
<1>18. PackagesFresh'
  BY <1>1, <1>3, <1>10, <1>11, <1>14, <1>16, <1>17
     DEF PackagesFresh, NotStarted
<1>19. Buried'
  BY <1>1, <1>3, <1>11, <1>14, <1>16, <1>17 DEF Buried
<1>20. OneGroup'
  <2>1. checkpoint' = checkpoint
    BY <1>1
  <2>2. checkpoint # None => From(checkpoint) # p
    BY <1>8 DEF NotStarted
  <2>3. \A i \in Handles : i # h /\ Usable(i)' => From(sessions[i].state)' # p
    BY <1>8, <1>16 DEF NotStarted
  <2> QED BY <1>3, <1>14, <1>16, <1>17, <2>1, <2>2, <2>3 DEF OneGroup
<1> QED BY <1>12, <1>18, <1>19, <1>20 DEF PackageInv

\* A group becomes the trusted one, and its package a tombstone.
LEMMA GroupTrustedStep ==
    ASSUME SessionInv, PackageInv, NEW h \in Handles, StoreCheckpoint(h)
    PROVE  PackageInv'
<1> DEFINE p == From(sessions[h].state)
<1>1. /\ sessions[h] # None /\ Usable(h)
      /\ checkpoint' = sessions[h].state
      /\ trusted' = [trusted EXCEPT ![p] = "tombstone"]
      /\ UNCHANGED <<identity, making, packages, blobs, sessions, origin>>
  BY DEF StoreCheckpoint, Available, Usable, From, Group
<1>2. /\ PackageTypeOK /\ KeysWhileNeeded /\ MakingFit
      /\ PackagesFresh /\ Buried /\ OneGroup
  BY DEF PackageInv
<1>3. \A q \in Packages : trusted'[q] = IF q = p THEN "tombstone" ELSE trusted[q]
  BY <1>1, <1>2 DEF PackageTypeOK
<1>4. p \in Packages => trusted[p] = "tombstone" \/ packages[p] # None
  BY <1>1, <1>2 DEF Buried
<1>5. p \in Packages => ~ NotStarted(p)
  BY <1>1 DEF NotStarted
<1>6. /\ From(checkpoint)' = p /\ Group(checkpoint)' = Group(sessions[h].state)
      /\ \A i \in Handles :
            /\ Usable(i)' <=> Usable(i)
            /\ From(sessions[i].state)' = From(sessions[i].state)
            /\ Group(sessions[i].state)' = Group(sessions[i].state)
  BY <1>1 DEF From, Group, Usable
<1> HIDE DEF p
<1>7. PackageTypeOK'
  BY <1>1, <1>2 DEF PackageTypeOK
<1>8. KeysWhileNeeded'
  BY <1>1, <1>2 DEF KeysWhileNeeded
<1>9. MakingFit'
  BY <1>1, <1>2, <1>3, <1>4 DEF MakingFit
<1>10. PackagesFresh'
  <2> SUFFICES ASSUME NEW q \in Packages, packages[q] # None,
                      MayStart(packages[q])
               PROVE  NotStarted(q)'
    BY <1>1 DEF PackagesFresh, MayStart
  <2>1. NotStarted(q) /\ q # p
    BY <1>2, <1>5 DEF PackagesFresh
  <2> QED BY <1>3, <1>6, <2>1 DEF NotStarted
<1>11. Buried'
  BY <1>1, <1>2, <1>3, <1>6 DEF Buried
<1>12. OneGroup'
  BY <1>1, <1>2, <1>6 DEF OneGroup, p
<1> QED BY <1>7, <1>8, <1>9, <1>10, <1>11, <1>12 DEF PackageInv

\* A crash leaves the checkpoint, whose package is a tombstone.
LEMMA GroupsLostStep ==
    ASSUME SessionInv, PackageInv, Crash
    PROVE  PackageInv'
<1>1. PackageTypeOK /\ Buried
  BY DEF PackageInv
<1>2. /\ identity' \in {"none", "stored"}
      /\ making' = [p \in Packages |-> "none"]
      /\ packages' = [p \in Packages |-> None]
      /\ sessions' = [h \in Handles |-> None]
      /\ UNCHANGED <<blobs, trusted, checkpoint, origin>>
  BY DEF Crash, PackageCrash
<1>3. \A h \in Handles : ~ Usable(h)'
  BY <1>2 DEF Usable
<1>4. PackageTypeOK'
  BY <1>1, <1>2 DEF PackageTypeOK
<1>5. KeysWhileNeeded' /\ MakingFit' /\ PackagesFresh'
  BY <1>2 DEF KeysWhileNeeded, MakingFit, PackagesFresh
<1>6. Buried' /\ OneGroup'
  BY <1>1, <1>2, <1>3 DEF Buried, OneGroup, From, Group
<1> QED BY <1>4, <1>5, <1>6 DEF PackageInv

\* Every step keeps PackageInv, given SessionInv.
LEMMA PackagesStep ==
    ASSUME SessionInv, PackageInv, [Next]_vars
    PROVE  PackageInv'
<1>1. ASSUME PackageStep, UNCHANGED sessionVars  PROVE PackageInv'
  BY <1>1, MakingStep, MakeFinishStep, PackageUsed, StorePackageStep,
     RestorePackageStep DEF PackageStep
<1>2. ASSUME NEW p \in Packages, UseStart(p) \/ UseFail(p)
      PROVE  PackageInv'
  <2>1. UNCHANGED sessionVars
    BY <1>2 DEF UseStart, UseFail
  <2> QED BY <1>2, <2>1, PackageUsed
<1>3. ASSUME NEW p \in Packages, NEW h \in Handles, Create(p, h) \/ Join(p, h)
      PROVE  PackageInv'
  BY <1>3, GroupStartedStep DEF Create, Join
<1>4. ASSUME NEW h \in Handles,
             \/ Begin(h) \/ Fail(h)
             \/ Forget(h)
             \/ StoreSnapshot(h)
      PROVE  PackageInv'
  BY <1>4, GroupsKeptStep
<1>5. ASSUME Release  PROVE PackageInv'
  <2>1. UNCHANGED <<packageVars, sessions, checkpoint, origin>>
    BY <1>5 DEF Release
  <2> QED BY <2>1, GroupsKept DEF Usable, Group
<1>6. ASSUME UNCHANGED vars  PROVE PackageInv'
  <2>1. UNCHANGED <<packageVars, sessions, checkpoint, origin>>
    BY <1>6 DEF vars, sessionVars
  <2> QED BY <2>1, GroupsKept DEF Usable, Group
<1> QED BY <1>1, <1>2, <1>3, <1>4, <1>5, <1>6, GroupsGrowStep,
           GroupTrustedStep, GroupsRestoredStep, GroupsLostStep
        DEF Next

\* It holds at the start.
LEMMA PackagesInit == Init => PackageInv
<1> SUFFICES ASSUME Init PROVE PackageInv
  OBVIOUS
<1>1. /\ identity = "none" /\ making = [p \in Packages |-> "none"]
      /\ packages = [p \in Packages |-> None] /\ blobs = {}
      /\ trusted = [p \in Packages |-> "none"]
      /\ checkpoint = None /\ sessions = [h \in Handles |-> None]
  BY DEF Init, PackageInit
<1>2. PackageTypeOK
  BY <1>1 DEF PackageTypeOK
<1>3. \A h \in Handles : ~ Usable(h)
  BY <1>1 DEF Usable
<1>4. KeysWhileNeeded /\ MakingFit /\ PackagesFresh /\ Buried /\ OneGroup
  BY <1>1, <1>3 DEF KeysWhileNeeded, MakingFit, PackagesFresh, Buried, OneGroup
<1> QED BY <1>2, <1>4 DEF PackageInv

----------------------------------------------------------------------------
(* Theorems *)

\* In every state, at most one object can go on with a group and none is
\* behind its trusted checkpoint, and no package that may still start a
\* history has one.
THEOREM Inductive == Spec => [](SessionInv /\ PackageInv)
<1>1. Init => SessionInv /\ PackageInv
  BY SessionInit, PackagesInit
<1>2. SessionInv /\ PackageInv /\ [Next]_vars => (SessionInv /\ PackageInv)'
  BY SessionStep, PackagesStep
<1> QED BY <1>1, <1>2, PTL DEF Spec

\* Every variable keeps its type: no session holds more members than allowed.
THEOREM TypeCorrect == Spec => []TypeOK
<1>1. SessionInv /\ PackageInv => TypeOK
  BY DEF SessionInv, PackageInv, SessionTypes, TypeOK
<1> QED BY <1>1, Inductive, PTL

\* No session that can still be used is behind the trusted checkpoint of its
\* group or beside it.
THEOREM NoneBehind == Spec => []NeverBehind
<1>1. SessionInv => NeverBehind
  <2> SUFFICES ASSUME SessionInv, checkpoint # None,
                      NEW h \in Handles, Usable(h),
                      Group(sessions[h].state) = Group(checkpoint)
               PROVE  IsPrefix(checkpoint.history, sessions[h].state.history)
    BY Zenon DEF NeverBehind, Held, Durable, Group
  <2> QED BY DEF SessionInv, Ahead
<1> QED BY <1>1, Inductive, PTL

\* A join package starts one history, also when a crash brings it back.
THEOREM OneHistoryPerPackage == Spec => []PackageStartsOneHistory
<1>1. PackageInv => PackageStartsOneHistory
  <2> SUFFICES ASSUME PackageInv,
                      NEW a \in Held \union ({Durable} \ {<< >>}),
                      NEW b \in Held \union ({Durable} \ {<< >>}),
                      origin[Head(a)] = origin[Head(b)]
               PROVE  Head(a) = Head(b)
    BY DEF PackageStartsOneHistory
  <2>1. OneGroup
    BY DEF PackageInv
  <2>2. \/ \E h \in Handles : Usable(h) /\ a = sessions[h].state.history
        \/ checkpoint # None /\ a = checkpoint.history
    BY DEF Held, Durable
  <2>3. \/ \E h \in Handles : Usable(h) /\ b = sessions[h].state.history
        \/ checkpoint # None /\ b = checkpoint.history
    BY DEF Held, Durable
  <2> QED BY <2>1, <2>2, <2>3 DEF OneGroup, From, Group
<1> QED BY <1>1, Inductive, PTL

\* The keys of a package are there exactly until it is consumed, and the copy
\* of them exactly as long as a use of it.
THEOREM KeysKept == Spec => []KeysWhileNeeded
<1>1. PackageInv => KeysWhileNeeded
  BY DEF PackageInv
<1> QED BY <1>1, Inductive, PTL

\* A session not consumed has its secrets, whatever failed on it.
THEOREM SecretsKept == Spec => []UsableKeepsSecrets
<1>1. SessionInv => UsableKeepsSecrets
  BY DEF SessionInv
<1> QED BY <1>1, Inductive, PTL

\* A prefix is the history itself, or the history goes on from it.
LEMMA PrefixOrMore ==
    ASSUME NEW S, NEW d \in Seq(S), NEW q \in Seq(S), IsPrefix(d, q), d # q
    PROVE  Len(q) > Len(d) /\ SubSeq(q, 1, Len(d)) = d
<1>1. /\ Len(d) \in Nat /\ Len(q) \in Nat /\ Len(d) <= Len(q)
      /\ SubSeq(d, 1, Len(d)) = SubSeq(q, 1, Len(d))
  BY DEF IsPrefix
<1>2. SubSeq(d, 1, Len(d)) = d /\ SubSeq(q, 1, Len(q)) = q
  OBVIOUS
<1>3. Len(d) # Len(q)
  BY <1>1, <1>2
<1>4. Len(q) > Len(d)
  BY <1>1, <1>3
<1>5. SubSeq(q, 1, Len(d)) = d
  BY <1>1, <1>2, Zenon
<1> QED BY <1>4, <1>5

\* A stored checkpoint adopts transitions, a release shows one adopted, and
\* no other step is seen.
LEMMA StepImplements ==
    ASSUME SessionInv, [Next]_vars
    PROVE  Lineage!Next \/ UNCHANGED <<Durable, released>>
<1>1. SessionTypes /\ StatesFit /\ Ahead
  BY DEF SessionInv
<1>2. checkpoint # None => Durable \in Seq(1..MaxBorn)
  BY <1>1 DEF SessionTypes, States, Durable
<1>3. ASSUME NEW h \in Handles, StoreCheckpoint(h)
      PROVE  Lineage!Adopt \/ UNCHANGED <<Durable, released>>
  <2> DEFINE q == sessions[h].state.history
  <2>1. /\ Usable(h) /\ checkpoint' = sessions[h].state /\ released' = released
        /\ checkpoint # None => SameGroup(sessions[h].state, checkpoint)
    BY <1>3 DEF StoreCheckpoint, Available, Usable
  <2>2. sessions[h].state \in States /\ q # << >>
    BY <2>1, ObjectsFit DEF Usable, Fit
  <2>3. q \in Seq(1..MaxBorn) /\ Durable' = q
    BY <2>1, <2>2, NoneAssumption DEF States, Durable
  <2> HIDE DEF q
  <2>4. CASE checkpoint = None
    <3>1. Durable = << >>
      BY <2>4 DEF Durable
    <3>2. Len(q) > 0 /\ SubSeq(q, 1, 0) = << >>
      BY <2>2, <2>3
    <3> QED BY <2>1, <2>3, <3>1, <3>2 DEF Lineage!Adopt
  <2>5. CASE checkpoint # None
    <3>1. IsPrefix(Durable, q)
      BY <1>1, <2>1, <2>5 DEF Ahead, SameGroup, Group, Durable, q
    <3>2. Durable = q \/ (Len(q) > Len(Durable)
                            /\ SubSeq(q, 1, Len(Durable)) = Durable)
      BY <1>2, <2>3, <2>5, <3>1, PrefixOrMore
    <3> QED BY <2>1, <2>3, <3>2 DEF Lineage!Adopt
  <2> QED BY <2>4, <2>5
<1>4. ASSUME Release  PROVE Lineage!Release
  <2>1. /\ checkpoint # None /\ checkpoint' = checkpoint
        /\ \E i \in DOMAIN checkpoint.history :
            released' = released \union {checkpoint.history[i]}
    BY <1>4 DEF Release
  <2>2. Durable = checkpoint.history /\ Durable' = Durable
    BY <2>1 DEF Durable
  <2>3. DOMAIN Durable = 1..Len(Durable)
    BY <1>2, <2>1
  <2> QED BY <2>1, <2>2, <2>3 DEF Lineage!Release
<1>5. ASSUME UNCHANGED <<checkpoint, released>>
      PROVE  UNCHANGED <<Durable, released>>
  BY <1>5 DEF Durable
<1>6. ASSUME NEW p \in Packages,
             \/ UseStart(p) \/ UseFail(p)
             \/ \E h \in Handles : Create(p, h) \/ Join(p, h)
      PROVE  UNCHANGED <<checkpoint, released>>
  BY <1>6 DEF UseStart, UseFail, Create, Join, Start, sessionVars
<1>7. ASSUME NEW h \in Handles,
             \/ Begin(h) \/ Fail(h)
             \/ \E h2 \in Handles, operation \in Operations :
                    Succeed(h, h2, operation)
             \/ Forget(h)
             \/ StoreSnapshot(h)
             \/ \E state \in snapshots : Restore(state, h)
      PROVE  UNCHANGED <<checkpoint, released>>
  BY <1>7 DEF Begin, Fail, Succeed, Forget, StoreSnapshot, Restore
<1>8. ASSUME UNCHANGED sessionVars \/ Crash \/ UNCHANGED vars
      PROVE  UNCHANGED <<checkpoint, released>>
  BY <1>8 DEF Crash, vars, sessionVars
<1> QED BY <1>3, <1>4, <1>5, <1>6, <1>7, <1>8 DEF Next, Lineage!Next

\* The device keeps what MlsSessionLineage promises: one history that only
\* grows, and nothing let out that is not part of it.
THEOREM HistoryAsPromised == Spec => OneHistory
<1>1. Init => Lineage!Init
  BY DEF Init, Lineage!Init, Durable
<1>2. SessionInv /\ [Next]_vars => [Lineage!Next]_<<Durable, released>>
  BY StepImplements
<1> QED BY <1>1, <1>2, Inductive, PTL DEF Spec, OneHistory, Lineage!Spec
=============================================================================
