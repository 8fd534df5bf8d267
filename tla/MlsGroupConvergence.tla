------------------------ MODULE MlsGroupConvergence ------------------------
(***************************************************************************)
(* Where every member of a group ends: the branch of commits that win      *)
(* their epochs under the whole roster.  It is a function of the published *)
(* commits and the roster alone, so devices that reach it agree.           *)
(***************************************************************************)
EXTENDS MlsGroup

\* The commits a member may take after tip, by the roster each one binds.
Candidates(tip) ==
    {c \in Commits \ Broken :
        /\ ~ Own(c)
        /\ Commit[c].parent = tip
        /\ Permits(c, Commit[c].frontier, FrontierAt(tip))}

\* The rank of c against d with every roster operation verified.
Outranks(c, d) ==
    LET stands(x) == Permits(x, Ops, Ops)
        reach(x) == Reach(Commit[x].frontier)
        key(x) == <<IF stands(x) THEN 1 ELSE 0, reach(x), Priority(x), 0 - x>>
    IN  \E i \in 1..4 :
            /\ key(c)[i] > key(d)[i]
            /\ \A j \in 1..(i - 1) : key(c)[j] = key(d)[j]

\* The tip at the end of the branch of winners that starts at each tip.
WinningTip[tip \in Tips] ==
    IF Candidates(tip) = {} THEN tip
    ELSE WinningTip[CHOOSE c \in Candidates(tip) :
                        \A d \in Candidates(tip) \ {c} : Outranks(c, d)]

\* The node serves every commit again and again, every call in flight
\* settles, and every roster operation is verified in the end.
FairSpec ==
    /\ Spec
    /\ \A op \in Ops : WF_vars(VerifyRoster(op))
    /\ \A k \in Calls : WF_vars(CallStep(k))
    /\ \A c \in Commits :
        SF_vars(\E k \in Calls : ApplyNext(k, c) \/ ApplyRival(k, c))

\* Whatever the order the node serves commits and the roster arrives in, the
\* device ends in the state of the winning branch and stays there.
Converges == <>[](state.tip = WinningTip[Root])

=============================================================================
