----------------------------- MODULE MCMlsGroup -----------------------------
(* Instances of MlsGroup for TLC: a roster in which alice kicks carol, the *)
(* membership policy, and catalogues of commits.                           *)
EXTENDS MlsGroupConvergence, FiniteSets

MCMembers == {"me", "alice", "bob", "carol", "dave", "erin", "frank"}
MCOps == {"kick"}

\* Carol commits nothing once the frontier holds her kick, and nothing steps
\* back to a frontier that leaves out what the group has bound.
MCAllows(c, baseline, frontier) ==
    /\ baseline \subseteq frontier
    /\ Commit[c].committer = "carol" => "kick" \notin frontier

\* Dave is let in on carol's word only, frank by whoever kicked her.
MCAdmits(id, frontier) ==
    /\ id = "dave" => "kick" \notin frontier
    /\ id = "frank" => "kick" \in frontier

MCReach(frontier) == Cardinality(frontier)

\* A removal ranks above anything else.
MCPriority(c) == Cardinality(Commit[c].removed)

MCWithheld(committer, frontier, verified) ==
    /\ ~ frontier \subseteq verified
    /\ committer = "carol" => "kick" \notin verified

\* Under this policy a roster that grows only ever ends a wait.
ASSUME PolicyAwaitsMissing == WaitsForMissing

NoMessages == [m \in {} |-> Root]

Entry(parent, committer, added, removedIds, frontier) ==
    [parent |-> parent, committer |-> committer, added |-> added,
     removed |-> removedIds, frontier |-> frontier]

\* The epoch of each commit's state in a tree that starts at epoch 0 and
\* numbers children above their parents.
Depths(tree) ==
    LET depth[t \in DOMAIN tree \cup {Root}] ==
            IF t = Root THEN 0 ELSE depth[tree[t].parent] + 1
    IN  depth

\* Rivals at two epochs, own commits and restarts.
GroupCatalogue == <<
    Entry(0, "carol", {"dave"}, {}, {}),            \* 1
    Entry(0, "alice", {}, {"carol"}, {"kick"}),     \* 2
    Entry(0, "me", {}, {}, {}),                     \* 3
    Entry(1, "bob", {}, {}, {}),                    \* 4
    Entry(1, "me", {}, {}, {}),                     \* 5
    Entry(4, "bob", {"erin"}, {}, {}),              \* 6
    Entry(6, "alice", {}, {}, {"kick"}),            \* 7
    Entry(5, "bob", {"erin"}, {}, {}),              \* 8
    Entry(0, "bob", {"frank"}, {}, {}) >>           \* 9
GroupCommits == 1..9
GroupEpochs == Depths(GroupCatalogue)

\* Rivals over two concurrent operations: carol, kicked by one of them, has
\* the lowest id, and the commits of alice and bob rank the same but for theirs;
\* bob's fourth commit has an update path that does not verify.
BothOps == {"kick", "branch"}
RivalCatalogue == <<
    Entry(0, "carol", {"dave"}, {"bob"}, {"branch"}),       \* 1
    Entry(0, "alice", {}, {"carol"}, {"kick"}),             \* 2
    Entry(0, "bob", {}, {"alice"}, {"branch"}),             \* 3
    Entry(0, "bob", {}, {}, {"kick", "branch"}),            \* 4
    Entry(1, "alice", {"erin"}, {}, {"branch"}),             \* 5
    Entry(2, "bob", {}, {}, {"kick"}),                      \* 6
    Entry(2, "alice", {"erin"}, {}, {"kick", "branch"}),    \* 7
    Entry(7, "bob", {}, {}, {"kick", "branch"}) >>          \* 8
RivalCommits == 1..8
RivalEpochs == Depths(RivalCatalogue)

\* Carol removes this device; alice's kick of carol wins the epoch.
RemovalCatalogue == <<
    Entry(0, "carol", {}, {"me"}, {}),                      \* 1
    Entry(0, "alice", {}, {"carol"}, {"kick"}),             \* 2
    Entry(2, "bob", {}, {}, {"kick"}) >>                    \* 3
RemovalCommits == 1..3
RemovalEpochs == Depths(RemovalCatalogue)

\* An add to step back from and a rival that ranks below it, each binding the
\* operation the other leaves out.
RetakeCatalogue == <<
    Entry(0, "bob", {"erin"}, {}, {"branch"}),              \* 1
    Entry(0, "alice", {}, {}, {"kick"}) >>                  \* 2
RetakeCommits == 1..2
RetakeEpochs == Depths(RetakeCatalogue)

\* An add to step back from, a commit to wait on, and commits of this device.
OwnCatalogue == <<
    Entry(0, "bob", {"erin"}, {}, {}),                      \* 1
    Entry(0, "alice", {}, {"carol"}, {"kick"}),             \* 2
    Entry(0, "me", {}, {}, {"kick"}),                       \* 3
    Entry(0, "me", {}, {}, {}) >>                           \* 4
OwnCommits == 1..4
OwnEpochs == Depths(OwnCatalogue)

\* One message of another member, sent in the first epoch.
OneMessage == [m \in {"hello"} |-> Root]
=============================================================================
