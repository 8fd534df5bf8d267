------------------------- MODULE MlsSessionLineage --------------------------
(***************************************************************************)
(* What a device in a group promises, whatever its objects and its storage *)
(* go through (docs/mls-key-lifecycle.md, "MLS transitions and             *)
(* persistence"): it has one history.  The history only grows at its end,  *)
(* and a transition leaves the device, as a frame sent or a plaintext      *)
(* shown, only when it is part of it.                                      *)
(***************************************************************************)
EXTENDS Naturals, Sequences

VARIABLES
    history,    \* the transitions of the device, in order
    released    \* those the rest of the world has seen

Init == history = << >> /\ released = {}

\* Some transitions are made durable.
Adopt ==
    /\ Len(history') > Len(history)
    /\ SubSeq(history', 1, Len(history)) = history
    /\ released' = released

\* One of them is seen.
Release ==
    /\ \E i \in 1..Len(history) : released' = released \union {history[i]}
    /\ history' = history

Next == Adopt \/ Release

Spec == Init /\ [][Next]_<<history, released>>
=============================================================================
