------------------------- MODULE CallMediaDelivery -------------------------
(***************************************************************************)
(* What opening call media frames promises, whatever the network repeats,  *)
(* reorders, forges or delays (src/docs/call-media-frames.md): only frames *)
(* that authenticate open, each at most once, none that is Size behind its *)
(* sealer, none of an epoch before that of a frame already opened, and no  *)
(* more than MaxSealers sealers per epoch.                                 *)
(***************************************************************************)
EXTENDS Integers, FiniteSets

CONSTANTS Frames, Authentic, Size, MaxSealers

VARIABLE opened     \* how often each frame was opened

Opened == {frame \in Frames : opened[frame] > 0}

SealersOpened(epoch) ==
    {frame.sealer : frame \in {f \in Opened : f.epoch = epoch}}

Deliver(frame) ==
    /\ frame \in Authentic
    /\ opened[frame] = 0
    /\ \A before \in Opened :
        /\ before.epoch <= frame.epoch
        /\ before.epoch = frame.epoch /\ before.sealer = frame.sealer =>
                before.sequence < frame.sequence + Size
    /\ Cardinality(SealersOpened(frame.epoch) \cup {frame.sealer}) <= MaxSealers
    /\ opened' = [opened EXCEPT ![frame] = 1]

Init == opened = [frame \in Frames |-> 0]
Next == \E frame \in Frames : Deliver(frame)
Spec == Init /\ [][Next]_opened

=============================================================================
