----------------------- MODULE CallMediaReplayWindow -----------------------
(***************************************************************************)
(* The replay window of one sealer                                         *)
(* (src/src/internal/CallMediaReplayWindow.ts): a ring of Size flags and   *)
(* the highest sequence accepted, -1 before the first.  A slot stands for  *)
(* the one sequence of the last Size that falls on it.                     *)
(***************************************************************************)
EXTENDS Integers

CONSTANT Size           \* SIZE

ASSUME SizeAssumption == Size \in Nat \ {0}

Slots == 0..(Size - 1)
Windows == [accepted : [Slots -> BOOLEAN], highest : Nat \cup {-1}]

Slot(sequence) == sequence % Size

NewWindow == [accepted |-> [slot \in Slots |-> FALSE], highest |-> -1]

\* Mutant of Admits: a window that starts one sequence late.
AdmitsFewer(window, sequence) ==
    \/ sequence > window.highest
    \/ /\ sequence > window.highest - Size + 1
       /\ ~ window.accepted[Slot(sequence)]

Admits(window, sequence) ==
    \/ sequence > window.highest
    \/ /\ sequence > window.highest - Size
       /\ ~ window.accepted[Slot(sequence)]

\* Mutant of PassedOver: the slot of the sequence itself is the last cleared,
\* those skipped before it stay.
PassedOverLast(window, sequence) ==
    IF sequence > window.highest THEN {Slot(sequence)} ELSE {}

\* The slots of the sequences passed over on the way to one past the highest;
\* all of them when it is Size ahead or more.
PassedOver(window, sequence) ==
    {Slot(window.highest + step) : step \in
        {n \in 1..Size : n <= sequence - window.highest}}

Accept(window, sequence) ==
    [accepted |->
        [slot \in Slots |->
            \/ slot = Slot(sequence)
            \/ /\ slot \notin PassedOver(window, sequence)
               /\ window.accepted[slot]],
     highest |->
        IF sequence > window.highest THEN sequence ELSE window.highest]

=============================================================================
