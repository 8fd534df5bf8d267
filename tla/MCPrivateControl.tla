-------------------------- MODULE MCPrivateControl --------------------------
(* An instance of PrivateControl for TLC: two honest devices and a bad one; *)
(* a policy where the bad one is an authority beside both, one that drops  *)
(* it and moves the sequencer, one that leaves it everything, and one no   *)
(* record may carry.                                                       *)
EXTENDS PrivateControl, TLC

MCPolicy(devices, authorities, threshold, sequencer) ==
    [devices |-> devices, authorities |-> authorities,
     threshold |-> threshold, sequencer |-> sequencer,
     freshness |-> IF sequencer = "m" THEN "m" ELSE "a", lease |-> 1]

MCPolicies ==
    {MCPolicy({"a", "b", "m"}, {"a", "b", "m"}, 2, "a"),
     MCPolicy({"a", "b"}, {"a", "b"}, 1, "b"),
     MCPolicy({"m"}, {"m"}, 1, "m"),
     MCPolicy({"a"}, {"a", "b"}, 1, "a")}

OneHonest == {"a", "b"}
OneBad == {"m"}

\* Only whether two operations or nonces are the same matters.
MCSymmetry == Permutations(Operations) \cup Permutations(Nonces)
=============================================================================
