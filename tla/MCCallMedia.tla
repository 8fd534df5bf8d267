---------------------------- MODULE MCCallMedia ----------------------------
(* An instance of CallMediaFrameOpener for TLC: three epochs, two sealers  *)
(* that contend for the one place of an epoch, and more frames of one of   *)
(* them than its window of two holds.                                      *)
EXTENDS CallMediaFrameOpener

Frame(epoch, sealer, sequence) ==
    [epoch |-> epoch, sealer |-> sealer, sequence |-> sequence]

MCEpochs == 0..2
MCAuthentic ==
    {Frame(0, "a", 0)} \cup {Frame(1, "a", q) : q \in 0..3}
        \cup {Frame(1, "b", 0), Frame(2, "a", 0)}

\* A frame of a sealer id nobody sealed under, which never authenticates.
MCFrames == MCAuthentic \cup {Frame(1, "c", 0)}
=============================================================================
