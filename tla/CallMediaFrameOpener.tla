------------------------ MODULE CallMediaFrameOpener ------------------------
(***************************************************************************)
(* Opening the call media frames of one remote sender                      *)
(* (src/src/CallMediaFrameOpener.ts).  Keys come in increasing epochs and  *)
(* are imported asynchronously; frames come in any order, repeated or      *)
(* forged, and any number of open calls overlap.                           *)
(*                                                                         *)
(* A frame is its header: epoch, sealer and sequence.  Authentic holds the *)
(* headers a holder of the key sealed a frame under, for this call, sender *)
(* and track; any copy of a frame may be tampered with, and then does not  *)
(* authenticate.  Each await of `open` ends a step: what the call read     *)
(* before it is kept in `calls`, and the other calls run in between.       *)
(***************************************************************************)
EXTENDS CallMediaReplayWindow, Sequences, FiniteSets

CONSTANTS
    Epochs,         \* the epochs of the keys added
    Sealers,        \* sealer ids
    Frames,         \* the frames the network may present, by header
    Authentic,      \* those a holder of the key sealed
    MaxEpochs,      \* MAX_EPOCHS
    MaxSealers,     \* MAX_SEALERS_PER_EPOCH
    Calls,          \* slots for open calls in flight
    None            \* no call

Headers == [epoch : Epochs, sealer : Sealers, sequence : Nat]

ASSUME FrameAssumption ==
    /\ Epochs \subseteq Nat
    /\ Frames \subseteq Headers
    /\ Authentic \subseteq Frames

ASSUME LimitAssumption ==
    /\ MaxEpochs = 2
    /\ MaxSealers \in Nat \ {0}

VARIABLES
    latest,     \* the epoch of the last key added, -1 before the first
    epochs,     \* the epochs held, each with its key and its sealers
    imports,    \* the keys added, in order: how far their import is
    calls,      \* the open calls in flight, None in a free slot
    opened      \* how often each frame was opened

vars == <<latest, epochs, imports, calls, opened>>

----------------------------------------------------------------------------
(* Data *)

\* A held epoch keeps the number of its key in `imports`, which stands for
\* the identity of the CallMediaEpoch, and the window of each sealer a frame
\* of which has authenticated.
IsHeldEpoch(held) ==
    /\ held = [key |-> held.key, sealers |-> held.sealers]
    /\ held.key \in DOMAIN imports
    /\ held.sealers \in [DOMAIN held.sealers -> Windows]
    /\ DOMAIN held.sealers \subseteq Sealers

Imports == [epoch : Epochs, status : {"pending", "ready", "failed"}]

\* `known` says the call found the sealer's key when it started; else it
\* derives one from the call key.
OpenCalls ==
    [frame : Frames, genuine : BOOLEAN, key : Nat, known : BOOLEAN,
     step : {"deriving", "opening"}]

ASSUME NoneAssumption == None \notin OpenCalls

Newest(epoch) == \A held \in DOMAIN epochs : held <= epoch
Without(held, dropped) == [e \in DOMAIN held \ dropped |-> held[e]]

SealersOf(frame) == epochs[frame.epoch].sealers
Known(frame) == frame.sealer \in DOMAIN SealersOf(frame)
WindowOf(frame) == SealersOf(frame)[frame.sealer]
Room(frame) == Cardinality(DOMAIN SealersOf(frame)) < MaxSealers

\* The opener still holds the very epoch the call started with.
Holds(call) ==
    /\ call.frame.epoch \in DOMAIN epochs
    /\ epochs[call.frame.epoch].key = call.key

\* Mutant of Retainable: the number of sealers is not asked for again.
RetainableByAll(frame) == Known(frame) => Admits(WindowOf(frame), frame.sequence)

\* A frame that authenticated can be recorded: its sealer's window takes its
\* sequence, or there is room for one more sealer.
Retainable(frame) ==
    IF Known(frame) THEN Admits(WindowOf(frame), frame.sequence)
    ELSE Room(frame)

\* Mutant of Retained: a window that was made meanwhile is replaced.
RetainedAnew(frame) ==
    [id \in DOMAIN SealersOf(frame) \cup {frame.sealer} |->
        IF id = frame.sealer THEN Accept(NewWindow, frame.sequence)
        ELSE SealersOf(frame)[id]]

\* The sealers of the epoch once the frame is recorded.  A call that made a
\* window of its own uses the one another call retained meanwhile.
Retained(frame) ==
    [id \in DOMAIN SealersOf(frame) \cup {frame.sealer} |->
        IF id # frame.sealer THEN SealersOf(frame)[id]
        ELSE Accept(IF Known(frame) THEN WindowOf(frame) ELSE NewWindow,
                    frame.sequence)]

\* Mutant of Superseded: a newer frame leaves the older epochs.
NoneSuperseded(epoch) == {}

\* The epochs dropped once a frame of `epoch` opens.
Superseded(epoch) ==
    IF Newest(epoch) THEN {held \in DOMAIN epochs : held < epoch} ELSE {}

----------------------------------------------------------------------------
(* Keys *)

Init ==
    /\ latest = -1
    /\ epochs = [e \in {} |-> None]
    /\ imports = <<>>
    /\ calls = [k \in Calls |-> None]
    /\ opened = [frame \in Frames |-> 0]

\* Mutant of Evicted: one epoch more is held.
EvictedLate(held) ==
    IF Cardinality(held) <= MaxEpochs + 1 THEN {}
    ELSE {e \in held : \A other \in held : e <= other}

\* The oldest of the epochs held, when they are too many.
Evicted(held) ==
    IF Cardinality(held) <= MaxEpochs THEN {}
    ELSE {e \in held : \A other \in held : e <= other}

\* addKey up to its await: the key of a later epoch is held while it is
\* imported, and the oldest of three epochs is dropped.
AddKey(epoch) ==
    /\ epoch > latest
    /\ latest' = epoch
    /\ imports' = Append(imports, [epoch |-> epoch, status |-> "pending"])
    /\ LET entry == [key |-> Len(imports) + 1, sealers |-> [id \in {} |-> None]]
           held == [e \in DOMAIN epochs \cup {epoch} |->
                        IF e = epoch THEN entry ELSE epochs[e]]
       IN  epochs' = Without(held, Evicted(DOMAIN held))
    /\ UNCHANGED <<calls, opened>>

KeyImported(i) ==
    /\ imports[i].status = "pending"
    /\ imports' = [imports EXCEPT ![i].status = "ready"]
    /\ UNCHANGED <<latest, epochs, calls, opened>>

\* The platform refuses the key: addKey gives its epoch up.
KeyRefused(i) ==
    /\ imports[i].status = "pending"
    /\ imports' = [imports EXCEPT ![i].status = "failed"]
    /\ epochs' = Without(epochs, {imports[i].epoch})
    /\ UNCHANGED <<latest, calls, opened>>

----------------------------------------------------------------------------
(* Frames *)

\* open up to the await of the sealer's key.  A frame of an epoch not held,
\* or of a new sealer of a full epoch, is refused at once.
OpenStart(k, frame, genuine) ==
    /\ calls[k] = None
    /\ genuine => frame \in Authentic
    /\ frame.epoch \in DOMAIN epochs
    /\ Known(frame) \/ Room(frame)
    /\ calls' = [calls EXCEPT ![k] =
            [frame |-> frame, genuine |-> genuine,
             key |-> epochs[frame.epoch].key, known |-> Known(frame),
             step |-> "deriving"]]
    /\ UNCHANGED <<latest, epochs, imports, opened>>

End(k) == calls' = [calls EXCEPT ![k] = None]

\* The sealer's key is there and its window admits the sequence; a new window
\* admits any.
OpenAdmit(k) ==
    /\ calls[k] # None
    /\ calls[k].step = "deriving"
    /\ calls[k].known /\ Holds(calls[k]) =>
            Admits(WindowOf(calls[k].frame), calls[k].frame.sequence)
    /\ ~ calls[k].known => imports[calls[k].key].status = "ready"
    /\ calls' = [calls EXCEPT ![k].step = "opening"]
    /\ UNCHANGED <<latest, epochs, imports, opened>>

\* What is asked once the frame is decrypted: it authenticated, its epoch is
\* still held and it can be recorded.
Opens(call) == call.genuine /\ Holds(call) /\ Retainable(call.frame)

OpenFinish(k) ==
    /\ calls[k] # None
    /\ calls[k].step = "opening"
    /\ Opens(calls[k])
    /\ LET frame == calls[k].frame IN
       /\ epochs' = Without([epochs EXCEPT ![frame.epoch].sealers =
                                Retained(frame)],
                            Superseded(frame.epoch))
       /\ opened' = [opened EXCEPT ![frame] = @ + 1]
    /\ End(k)
    /\ UNCHANGED <<latest, imports>>

\* open throws, and leaves the opener as it was.
OpenRefuse(k) ==
    /\ calls[k] # None
    /\ IF calls[k].step = "deriving"
       THEN \/ /\ ~ calls[k].known
               /\ imports[calls[k].key].status = "failed"
            \/ /\ calls[k].known
               /\ Holds(calls[k])
               /\ ~ Admits(WindowOf(calls[k].frame), calls[k].frame.sequence)
       ELSE ~ Opens(calls[k])
    /\ End(k)
    /\ UNCHANGED <<latest, epochs, imports, opened>>

----------------------------------------------------------------------------

Next ==
    \/ \E epoch \in Epochs : AddKey(epoch)
    \/ \E i \in DOMAIN imports : KeyImported(i) \/ KeyRefused(i)
    \/ \E k \in Calls :
        \/ \E frame \in Frames, genuine \in BOOLEAN :
                OpenStart(k, frame, genuine)
        \/ OpenAdmit(k)
        \/ OpenFinish(k)
        \/ OpenRefuse(k)

Spec == Init /\ [][Next]_vars

----------------------------------------------------------------------------
(* Safety *)

\* Every variable keeps its type, and no key or frame makes the opener hold
\* more than MaxEpochs epochs.
TypeOK ==
    /\ latest \in Epochs \cup {-1}
    /\ DOMAIN epochs \subseteq Epochs
    /\ \A e \in DOMAIN epochs : IsHeldEpoch(epochs[e])
    /\ Cardinality(DOMAIN epochs) <= MaxEpochs
    /\ imports \in Seq(Imports)
    /\ calls \in [Calls -> OpenCalls \cup {None}]
    /\ opened \in [Frames -> Nat]

FramesOf(e, id) == {f \in Frames : f.epoch = e /\ f.sealer = id}

\* What a ring of Size flags says of each sealer of a held epoch is what was
\* opened: its highest sequence, and of the last Size those not to open again.
WindowsExact ==
    \A e \in DOMAIN epochs : \A id \in DOMAIN epochs[e].sealers :
        LET window == epochs[e].sealers[id] IN
        /\ \E f \in FramesOf(e, id) :
                opened[f] > 0 /\ f.sequence = window.highest
        /\ \A f \in FramesOf(e, id) :
                /\ opened[f] > 0 => f.sequence <= window.highest
                /\ window.highest - Size < f.sequence =>
                        (Admits(window, f.sequence) <=> opened[f] = 0)

\* A sealer takes one of the places of its epoch when a frame of it opens,
\* never before, and the places are no more than MaxSealers.
SealersEarned ==
    \A e \in DOMAIN epochs :
        /\ DOMAIN epochs[e].sealers =
                {f.sealer : f \in {g \in Frames : g.epoch = e /\ opened[g] > 0}}
        /\ Cardinality(DOMAIN epochs[e].sealers) <= MaxSealers

\* Once a frame of an epoch opened, no older epoch is held, nor will be.
OlderDropped ==
    \A f \in Frames :
        opened[f] > 0 =>
            /\ f.epoch <= latest
            /\ \A e \in DOMAIN epochs : f.epoch <= e

\* A genuine frame that found its epoch held is refused only when the epoch
\* is gone, another copy opened first, its sealer went Size ahead, or other
\* sealers filled the epoch: never for a forged frame or one out of order.
RefusedForCause ==
    [][\A k \in Calls :
        calls[k] # None /\ calls'[k] = None /\ calls[k].genuine =>
            LET f == calls[k].frame IN
            \/ opened'[f] > 0
            \/ f.epoch \notin DOMAIN epochs
            \/ \E g \in FramesOf(f.epoch, f.sealer) :
                    opened[g] > 0 /\ g.sequence >= f.sequence + Size
            \/ /\ \A g \in FramesOf(f.epoch, f.sealer) : opened[g] = 0
               /\ Cardinality(DOMAIN epochs[f.epoch].sealers) = MaxSealers
      ]_vars

Delivery == INSTANCE CallMediaDelivery

\* The opener delivers frames as CallMediaDelivery promises.
Delivers == Delivery!Spec

=============================================================================
