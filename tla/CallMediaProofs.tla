-------------------------- MODULE CallMediaProofs --------------------------
(***************************************************************************)
(* Proofs about CallMediaFrameOpener: the ring of a sealer is exactly the  *)
(* set of its frames that may not open again, and the opener delivers      *)
(* frames as CallMediaDelivery promises, for every window size, every      *)
(* number of sealers, and any overlap of calls.                            *)
(***************************************************************************)
EXTENDS CallMediaFrameOpener, FiniteSetTheorems, TLAPS

----------------------------------------------------------------------------
(* The ring *)

\* Dividing by Size: quotient and remainder.
LEMMA Division ==
    ASSUME NEW s \in Int
    PROVE  /\ Slot(s) \in Slots
           /\ s \div Size \in Int
           /\ s = Size * (s \div Size) + Slot(s)
  BY SizeAssumption DEF Slot, Slots

\* Multiples of Size are Size apart.
LEMMA Multiples ==
    ASSUME NEW a \in Int, NEW b \in Int
    PROVE  /\ Size * a \in Int
           /\ Size * (a + b) = Size * a + Size * b
           /\ a < b => Size * a + Size <= Size * b
<1>1. Size * a \in Int /\ Size * (a + b) = Size * a + Size * b
  BY SizeAssumption
<1>2. ASSUME a < b PROVE Size * a + Size <= Size * b
  <2>1. \A x \in Int : x >= 1 => Size * x >= Size
    BY SizeAssumption
  <2>2. Size * (b - a) >= Size
    BY <1>2, <2>1
  <2>3. Size * b = Size * a + Size * (b - a)
    BY SizeAssumption
  <2>4. Size * a \in Int /\ Size * b \in Int /\ Size * (b - a) \in Int
    BY SizeAssumption
  <2> QED BY <2>2, <2>3, <2>4, SizeAssumption
<1> QED BY <1>1, <1>2

\* A sequence is the only one of its slot in any row of Size.
LEMMA SlotsApart ==
    ASSUME NEW s \in Int, NEW t \in Int, s < t, t < s + Size
    PROVE  Slot(s) # Slot(t)
<1> SUFFICES ASSUME Slot(s) = Slot(t) PROVE FALSE
  OBVIOUS
<1>1. PICK a \in Int : s = Size * a + Slot(s)
  BY Division
<1>2. PICK b \in Int : t = Size * b + Slot(t)
  BY Division
<1>3. Slot(s) \in Int /\ Slot(t) \in Int
  BY Division, SizeAssumption DEF Slots
<1>4. Size * a \in Int /\ Size * b \in Int
  BY Multiples
<1>5. Size * a < Size * b /\ Size * b < Size * a + Size
  BY <1>1, <1>2, <1>3, <1>4, SizeAssumption
<1>6. a < b => Size * a + Size <= Size * b
  BY Multiples
<1>7. b < a => Size * b + Size <= Size * a
  BY Multiples
<1> QED BY <1>4, <1>5, <1>6, <1>7, SizeAssumption

\* The slots of any Size sequences in a row are all the slots.
LEMMA SlotsCovered ==
    ASSUME NEW s \in Int, NEW t \in Int
    PROVE  \E step \in 1..Size : Slot(s + step) = Slot(t)
<1> DEFINE rest == t - s - 1
<1>1. PICK k \in Int, r \in Slots : rest = Size * k + r
  BY Division
<1> DEFINE u == s + (1 + r)
<1>2. 1 + r \in 1..Size /\ r \in Int /\ u \in Int
  BY SizeAssumption DEF Slots
<1>3. t = u + Size * k
  <2> Size * k \in Int
    BY Multiples
  <2> QED BY <1>1, <1>2
<1>4. PICK a \in Int : u = Size * a + Slot(u)
  BY <1>2, Division
<1>5. PICK b \in Int : t = Size * b + Slot(t)
  BY Division
<1>6. Slot(u) \in 0..(Size - 1) /\ Slot(t) \in 0..(Size - 1)
  BY <1>2, Division DEF Slots
<1> HIDE DEF u, rest
<1>7. Size * (a + k) = Size * a + Size * k
  BY Multiples
<1>8. /\ Size * a \in Int /\ Size * k \in Int /\ Size * b \in Int
      /\ Size * (a + k) \in Int
  BY Multiples
<1>9. Size * b + Slot(t) = Size * (a + k) + Slot(u)
  <2>1. Slot(u) \in Int
    BY <1>6, SizeAssumption
  <2>2. \A x, y, z \in Int : (x + y) + z = (x + z) + y
    OBVIOUS
  <2>3. (Size * a + Slot(u)) + Size * k = (Size * a + Size * k) + Slot(u)
    BY <1>8, <2>1, <2>2
  <2> QED BY <1>3, <1>4, <1>5, <1>7, <2>3
<1>10. a + k < b => Size * (a + k) + Size <= Size * b
  BY Multiples
<1>11. b < a + k => Size * b + Size <= Size * (a + k)
  BY Multiples
<1>12. b = a + k
  BY <1>6, <1>8, <1>9, <1>10, <1>11, SizeAssumption
<1>13. Slot(t) = Slot(u)
  BY <1>6, <1>8, <1>9, <1>12, SizeAssumption
<1> QED BY <1>2, <1>13 DEF u

----------------------------------------------------------------------------
(* The replay window *)

\* The window of a new sealer is a window.
LEMMA NewWindowType == NewWindow \in Windows
  BY DEF NewWindow, Windows

\* Accepting keeps the window a window, and its highest the maximum.
LEMMA AcceptType ==
    ASSUME NEW w \in Windows, NEW s \in Nat
    PROVE  /\ Accept(w, s) \in Windows
           /\ w.highest \in Int
           /\ Accept(w, s).highest =
                    IF s > w.highest THEN s ELSE w.highest
<1>1. w.highest \in Nat \cup {-1} /\ w.accepted \in [Slots -> BOOLEAN]
  BY DEF Windows
<1>2. [slot \in Slots |->
            \/ slot = Slot(s)
            \/ slot \notin PassedOver(w, s) /\ w.accepted[slot]]
        \in [Slots -> BOOLEAN]
  BY <1>1
<1> QED BY <1>1, <1>2 DEF Accept, Windows

\* Accepting a sequence the window admits closes it for that sequence, and
\* changes the answer for no other of the last Size.
LEMMA AcceptExact ==
    ASSUME NEW w \in Windows, NEW s \in Nat, NEW t \in Nat,
           Admits(w, s), t > Accept(w, s).highest - Size
    PROVE  Admits(Accept(w, s), t) <=> (t # s /\ Admits(w, t))
<1> DEFINE h == w.highest
           v == Accept(w, s)
<1>1. h \in Int /\ v.highest = IF s > h THEN s ELSE h
  BY AcceptType
<1>2. Slot(t) \in Slots /\ Slot(s) \in Slots
  BY Division
<1>3. v.accepted[Slot(t)] <=>
            \/ Slot(t) = Slot(s)
            \/ Slot(t) \notin PassedOver(w, s) /\ w.accepted[Slot(t)]
  BY <1>2 DEF Accept
<1>4. Admits(v, t) <=> (t > v.highest \/ ~ v.accepted[Slot(t)])
  BY DEF Admits
<1>5. CASE t > v.highest
  BY <1>1, <1>4, <1>5 DEF Admits
<1>6. CASE t <= v.highest /\ s > h
  <2>1. v.highest = s
    BY <1>1, <1>6
  <2>2. CASE t = s
    BY <1>3, <1>4, <1>6, <2>1, <2>2
  <2>3. CASE t # s /\ t > h
    <3>1. Slot(t) # Slot(s)
      BY <1>6, <2>1, <2>3, SlotsApart, SizeAssumption
    <3>2. PICK n \in 1..Size : Slot(h + n) = Slot(t) /\ n <= s - h
      <4>1. CASE t - h <= Size
        <5>1. t - h \in 1..Size /\ h + (t - h) = t /\ t - h <= s - h
          BY <1>1, <1>6, <2>1, <2>3, <4>1, SizeAssumption
        <5> QED BY <5>1
      <4>2. CASE t - h > Size
        <5>1. PICK n \in 1..Size : Slot(h + n) = Slot(t)
          <6>1. \A a, b \in Int :
                    \E n \in 1..Size : Slot(a + n) = Slot(b)
            BY SlotsCovered
          <6>2. h \in Int /\ t \in Int
            BY <1>1
          <6> HIDE DEF h
          <6> QED BY <6>1, <6>2
        <5> QED BY <1>1, <1>6, <2>1, <4>2, <5>1, SizeAssumption
      <4> QED BY <1>1, <4>1, <4>2, SizeAssumption
    <3>3. Slot(t) \in PassedOver(w, s)
      BY <3>2 DEF PassedOver
    <3> QED BY <1>3, <1>4, <2>3, <3>1, <3>3 DEF Admits
  <2>4. CASE t # s /\ t <= h
    <3>1. Slot(t) # Slot(s)
      BY <1>1, <1>6, <2>1, <2>4, SlotsApart, SizeAssumption
    <3>2. Slot(t) \notin PassedOver(w, s)
      <4> SUFFICES ASSUME NEW n \in 1..Size, n <= s - h
                   PROVE  Slot(t) # Slot(h + n)
        BY DEF PassedOver
      <4>1. h + n \in Int /\ t < h + n /\ h + n < t + Size
        BY <1>1, <2>1, <2>4, SizeAssumption
      <4> QED BY <4>1, SlotsApart
    <3>3. Admits(w, t) <=> ~ w.accepted[Slot(t)]
      BY <1>1, <1>6, <2>1, <2>4, SizeAssumption DEF Admits
    <3> QED BY <1>1, <1>3, <1>4, <1>6, <2>4, <3>1, <3>2, <3>3
  <2> QED BY <1>1, <2>2, <2>3, <2>4
<1>7. CASE t <= v.highest /\ s <= h
  <2>1. v.highest = h
    BY <1>1, <1>7
  <2>2. PassedOver(w, s) = {}
    BY <1>1, <1>7 DEF PassedOver
  <2>3. Slot(t) = Slot(s) => t = s
    <3>1. s > h - Size
      BY <1>1, <1>7 DEF Admits
    <3>2. t < s => Slot(t) # Slot(s)
      BY <1>1, <1>7, <2>1, SlotsApart, SizeAssumption
    <3>3. s < t => Slot(t) # Slot(s)
      BY <1>1, <1>7, <2>1, <3>1, SlotsApart, SizeAssumption
    <3> QED BY <3>2, <3>3
  <2>4. Admits(w, t) <=> ~ w.accepted[Slot(t)]
    BY <1>1, <1>7, <2>1, SizeAssumption DEF Admits
  <2> QED BY <1>1, <1>3, <1>4, <1>7, <2>1, <2>2, <2>3, <2>4
<1> QED BY <1>1, <1>5, <1>6, <1>7

----------------------------------------------------------------------------
(* Held epochs: two at most *)

\* Two elements are all of a set of no more than two.
LEMMA TwoAreAll ==
    ASSUME NEW S, IsFiniteSet(S), Cardinality(S) <= 2,
           NEW a \in S, NEW b \in S, a # b
    PROVE  S = {a, b}
<1>1. IsFiniteSet(S \ {a}) /\ Cardinality(S \ {a}) = Cardinality(S) - 1
  BY FS_RemoveElement
<1>2. /\ IsFiniteSet((S \ {a}) \ {b})
      /\ Cardinality((S \ {a}) \ {b}) = Cardinality(S \ {a}) - 1
  BY <1>1, FS_RemoveElement
<1>3. Cardinality(S) \in Int /\ Cardinality((S \ {a}) \ {b}) \in Nat
  BY <1>2, FS_CardinalityType
<1>4. Cardinality((S \ {a}) \ {b}) = 0
  BY <1>1, <1>2, <1>3
<1>5. (S \ {a}) \ {b} = {}
  BY <1>2, <1>4, FS_EmptySet
<1> QED BY <1>5

\* Of a later epoch and no more than two others, no more than two stay.
LEMMA EvictedLeavesTwo ==
    ASSUME NEW S, IsFiniteSet(S), S \subseteq Nat, Cardinality(S) <= MaxEpochs,
           NEW epoch \in Nat, \A e \in S : e < epoch
    PROVE  LET held == S \cup {epoch} IN
           /\ IsFiniteSet(held \ Evicted(held))
           /\ Cardinality(held \ Evicted(held)) <= MaxEpochs
<1> DEFINE held == S \cup {epoch}
<1>1. IsFiniteSet(held) /\ Cardinality(held) = Cardinality(S) + 1
  <2>1. epoch \notin S
    BY DEF Evicted
  <2> QED BY <2>1, FS_AddElement
<1>2. Cardinality(S) \in Nat
  BY FS_CardinalityType
<1>3. CASE Cardinality(held) <= MaxEpochs
  <2>1. held \ Evicted(held) = held
    BY <1>3 DEF Evicted
  <2> QED BY <1>1, <1>3, <2>1
<1>4. CASE ~ Cardinality(held) <= MaxEpochs
  <2>1. Cardinality(S) = 2 /\ Cardinality(held) = 3
    BY <1>1, <1>2, <1>4, LimitAssumption
  <2>2. PICK a \in S : TRUE
    <3>1. S # {}
      <4>1. Cardinality({}) = 0
        BY FS_EmptySet
      <4> QED BY <2>1, <4>1
    <3> QED BY <3>1
  <2>3. IsFiniteSet(S \ {a}) /\ Cardinality(S \ {a}) = 1
    BY <2>1, FS_RemoveElement
  <2>4. PICK b \in S : b # a
    <3>1. S \ {a} # {}
      <4>1. Cardinality({}) = 0
        BY FS_EmptySet
      <4> QED BY <2>3, <4>1
    <3> QED BY <3>1
  <2>5. S = {a, b}
    BY <2>1, <2>4, TwoAreAll
  <2>6. PICK least \in S : \A e \in held : least <= e
    <3>1. CASE a <= b
      BY <2>5, <3>1
    <3>2. CASE b <= a
      BY <2>5, <3>2
    <3> QED BY <3>1, <3>2
  <2>7. least \in Evicted(held)
    BY <1>4, <2>6 DEF Evicted
  <2>8. /\ IsFiniteSet(held \ {least})
        /\ Cardinality(held \ {least}) = 2
    BY <1>1, <2>1, <2>6, FS_RemoveElement
  <2>9. held \ Evicted(held) \in SUBSET (held \ {least})
    BY <2>7
  <2>10. /\ IsFiniteSet(held \ Evicted(held))
         /\ Cardinality(held \ Evicted(held)) <= Cardinality(held \ {least})
    BY <2>8, <2>9, FS_Subset
  <2> QED BY <2>8, <2>10, LimitAssumption
<1> QED BY <1>3, <1>4

----------------------------------------------------------------------------
(* The inductive invariant *)

\* The epochs held are those of keys added and not refused, few of each.
HeldFit ==
    /\ IsFiniteSet(DOMAIN epochs)
    /\ \A e \in DOMAIN epochs :
        /\ e <= latest
        /\ imports[epochs[e].key].epoch = e
        /\ imports[epochs[e].key].status # "failed"
        /\ IsFiniteSet(DOMAIN epochs[e].sealers)

\* No epoch has two keys, and none is later than the latest.
KeysFit ==
    \A i \in DOMAIN imports :
        /\ imports[i].epoch <= latest
        /\ \A j \in DOMAIN imports :
                imports[i].epoch = imports[j].epoch => i = j

\* A call keeps the key of its frame's epoch, and only a frame somebody
\* sealed is genuine.
CallsFit ==
    \A k \in Calls :
        calls[k] # None =>
            /\ calls[k].key \in DOMAIN imports
            /\ imports[calls[k].key].epoch = calls[k].frame.epoch
            /\ calls[k].genuine => calls[k].frame \in Authentic

\* A sealer a call found stays known as long as its epoch is held.
SealersKnown ==
    \A k \in Calls :
        calls[k] # None /\ calls[k].known /\ Holds(calls[k]) =>
            Known(calls[k].frame)

IInv ==
    /\ TypeOK
    /\ HeldFit
    /\ KeysFit
    /\ CallsFit
    /\ SealersKnown
    /\ SealersEarned
    /\ OlderDropped
    /\ WindowsExact

\* What WindowsExact says of one window, given how often the frames opened.
Exact(e, id, window, count) ==
    /\ \E f \in FramesOf(e, id) :
            count[f] > 0 /\ f.sequence = window.highest
    /\ \A f \in FramesOf(e, id) :
            /\ count[f] > 0 => f.sequence <= window.highest
            /\ window.highest - Size < f.sequence =>
                    (Admits(window, f.sequence) <=> count[f] = 0)

\* WindowsExact, by the windows and by what was opened, before and after.
LEMMA ExactFacts ==
    /\ WindowsExact <=>
            \A e \in DOMAIN epochs : \A id \in DOMAIN epochs[e].sealers :
                Exact(e, id, epochs[e].sealers[id], opened)
    /\ WindowsExact' <=>
            \A e \in DOMAIN epochs' : \A id \in DOMAIN epochs'[e].sealers :
                Exact(e, id, epochs'[e].sealers[id], opened')
BY DEF WindowsExact, Exact

----------------------------------------------------------------------------
(* Lemmas of the steps *)

\* What is left once epochs are dropped.
LEMMA WithoutFacts ==
    ASSUME NEW held, NEW dropped, NEW W, W = Without(held, dropped)
    PROVE  /\ DOMAIN W = DOMAIN held \ dropped
           /\ \A e \in DOMAIN W : W[e] = held[e]
BY DEF Without

\* Epochs are numbers.
LEMMA EpochFacts == \A e \in Epochs : e \in Nat /\ e \in Int
<1>1. Epochs \subseteq Nat
  BY FrameAssumption
<1> QED BY <1>1

\* A header is its epoch, sealer and sequence.
LEMMA FrameFacts ==
    /\ \A f \in Frames :
        f.epoch \in Epochs /\ f.epoch \in Nat /\ f.sealer \in Sealers
        /\ f.sequence \in Nat
    /\ \A f, g \in Frames :
        f.epoch = g.epoch /\ f.sealer = g.sealer /\ f.sequence = g.sequence
            => f = g
<1> SUFFICES ASSUME NEW f \in Frames, NEW g \in Frames
             PROVE  /\ f.epoch \in Epochs /\ f.epoch \in Nat
                    /\ f.sealer \in Sealers /\ f.sequence \in Nat
                    /\ f.epoch = g.epoch /\ f.sealer = g.sealer
                        /\ f.sequence = g.sequence => f = g
  OBVIOUS
<1>1. f \in Headers /\ g \in Headers
  BY FrameAssumption
<1>2. /\ f.epoch \in Epochs /\ f.sealer \in Sealers /\ f.sequence \in Nat
      /\ f = [epoch |-> f.epoch, sealer |-> f.sealer, sequence |-> f.sequence]
      /\ g = [epoch |-> g.epoch, sealer |-> g.sealer, sequence |-> g.sequence]
  BY <1>1 DEF Headers
<1> QED BY <1>2, EpochFacts

\* Epochs that stay untouched while no frame opens keep what is said of them.
LEMMA HeldKept ==
    ASSUME SealersEarned, OlderDropped, WindowsExact,
           IsFiniteSet(DOMAIN epochs), Cardinality(DOMAIN epochs) <= MaxEpochs,
           opened' = opened, latest' = latest,
           DOMAIN epochs' \subseteq DOMAIN epochs,
           \A e \in DOMAIN epochs' : epochs'[e] = epochs[e]
    PROVE  /\ SealersEarned' /\ OlderDropped' /\ WindowsExact'
           /\ IsFiniteSet(DOMAIN epochs')
           /\ Cardinality(DOMAIN epochs') <= MaxEpochs
<1>1. SealersEarned'
  BY DEF SealersEarned
<1>2. OlderDropped'
  BY DEF OlderDropped
<1>3. WindowsExact'
  BY ExactFacts
<1>4. /\ IsFiniteSet(DOMAIN epochs')
      /\ Cardinality(DOMAIN epochs') <= Cardinality(DOMAIN epochs)
  <2> DOMAIN epochs' \in SUBSET DOMAIN epochs
    OBVIOUS
  <2> QED BY FS_Subset
<1>5. /\ Cardinality(DOMAIN epochs') \in Nat
      /\ Cardinality(DOMAIN epochs) \in Nat
  BY <1>4, FS_CardinalityType
<1> QED BY <1>1, <1>2, <1>3, <1>4, <1>5, LimitAssumption

\* Nor is a sealer forgotten by an epoch that stays.
LEMMA KnownKept ==
    ASSUME SealersKnown, CallsFit,
           \A k \in Calls : calls'[k] = calls[k] \/ calls'[k] = None,
           \A e \in DOMAIN epochs' :
                epochs'[e].key \in DOMAIN imports =>
                    /\ e \in DOMAIN epochs
                    /\ epochs'[e].key = epochs[e].key
                    /\ DOMAIN epochs[e].sealers \subseteq
                            DOMAIN epochs'[e].sealers
    PROVE  SealersKnown'
<1> SUFFICES ASSUME NEW k \in Calls, calls'[k] # None,
                    calls'[k].known, Holds(calls[k])'
             PROVE  Known(calls[k].frame)'
  BY DEF SealersKnown
<1> DEFINE e == calls[k].frame.epoch
<1>1. calls'[k] = calls[k]
  OBVIOUS
<1>2. e \in DOMAIN epochs' /\ epochs'[e].key = calls[k].key
  BY <1>1 DEF Holds
<1>3. calls[k].key \in DOMAIN imports
  BY <1>1 DEF CallsFit
<1>4. Holds(calls[k])
  BY <1>2, <1>3 DEF Holds
<1>5. calls[k].frame.sealer \in DOMAIN epochs[e].sealers
  BY <1>1, <1>4 DEF SealersKnown, Known, SealersOf
<1>6. calls[k].frame.sealer \in DOMAIN epochs'[e].sealers
  BY <1>2, <1>3, <1>5
<1> QED BY <1>1, <1>6 DEF Known, SealersOf

\* Initially nothing is held, and nothing opened.
LEMMA InitIInv == Init => IInv
<1> SUFFICES ASSUME Init PROVE IInv
  OBVIOUS
<1>1. DOMAIN epochs = {}
  BY DEF Init
<1>2. IsFiniteSet(DOMAIN epochs) /\ Cardinality(DOMAIN epochs) = 0
  BY <1>1, FS_EmptySet
<1>3. /\ imports = <<>> /\ imports \in Seq(Imports)
      /\ DOMAIN imports = {}
  BY DEF Init
<1>4. TypeOK
  BY <1>1, <1>2, <1>3, LimitAssumption DEF Init, TypeOK
<1>5. HeldFit /\ KeysFit /\ CallsFit /\ SealersKnown
  BY <1>1, <1>2, <1>3 DEF Init, HeldFit, KeysFit, CallsFit, SealersKnown
<1>6. SealersEarned /\ OlderDropped /\ WindowsExact
  BY <1>1 DEF Init, SealersEarned, OlderDropped, WindowsExact
<1> QED BY <1>4, <1>5, <1>6 DEF IInv

\* A key of a later epoch: it comes without sealers, no frame of it opened.
LEMMA AddKeyIInv ==
    ASSUME IInv, NEW epoch \in Epochs, AddKey(epoch)
    PROVE  IInv'
<1> /\ TypeOK /\ HeldFit /\ KeysFit /\ CallsFit /\ SealersKnown
    /\ SealersEarned /\ OlderDropped /\ WindowsExact
  BY DEF IInv
<1> DEFINE n == Len(imports) + 1
           entry == [key |-> n, sealers |-> [id \in {} |-> None]]
           held == [e \in DOMAIN epochs \cup {epoch} |->
                        IF e = epoch THEN entry ELSE epochs[e]]
           added == [epoch |-> epoch, status |-> "pending"]
<1>1. /\ latest' = epoch /\ calls' = calls /\ opened' = opened
      /\ imports' = Append(imports, added)
      /\ epochs' = Without(held, Evicted(DOMAIN held))
      /\ epoch > latest
  BY DEF AddKey
<1>2. /\ imports \in Seq(Imports) /\ added \in Imports
      /\ latest \in Int /\ epoch \in Nat /\ Len(imports) \in Nat
      /\ DOMAIN epochs \subseteq Nat
  BY EpochFacts DEF TypeOK, Imports
<1>3. /\ imports' \in Seq(Imports)
      /\ DOMAIN imports' = DOMAIN imports \cup {n}
      /\ n \notin DOMAIN imports
      /\ imports'[n] = added
      /\ \A i \in DOMAIN imports :
            imports'[i] = imports[i] /\ imports[i] \in Imports
  BY <1>1, <1>2
<1>4. \A e \in DOMAIN epochs : e < epoch
  BY <1>1, <1>2 DEF HeldFit
<1>5. DOMAIN held = DOMAIN epochs \cup {epoch}
  OBVIOUS
<1>6. /\ DOMAIN epochs' = DOMAIN held \ Evicted(DOMAIN held)
      /\ \A e \in DOMAIN epochs' : epochs'[e] = held[e]
  <2> HIDE DEF held
  <2>1. epochs' = Without(held, Evicted(DOMAIN held))
    BY <1>1
  <2>2. epochs' =
            [e \in DOMAIN held \ Evicted(DOMAIN held) |-> held[e]]
    BY <2>1 DEF Without
  <2>3. DOMAIN epochs' = DOMAIN held \ Evicted(DOMAIN held)
    BY <2>2
  <2>4. ASSUME NEW e \in DOMAIN epochs' PROVE epochs'[e] = held[e]
    BY <2>2, <2>3
  <2> QED BY <2>3, <2>4
<1>7. IsFiniteSet(DOMAIN epochs') /\ Cardinality(DOMAIN epochs') <= MaxEpochs
  <2>1. /\ IsFiniteSet(DOMAIN epochs) /\ DOMAIN epochs \subseteq Nat
        /\ Cardinality(DOMAIN epochs) <= MaxEpochs
    BY <1>2 DEF HeldFit, TypeOK
  <2>2. LET all == DOMAIN epochs \cup {epoch} IN
        /\ IsFiniteSet(all \ Evicted(all))
        /\ Cardinality(all \ Evicted(all)) <= MaxEpochs
    BY <1>2, <1>4, <2>1, EvictedLeavesTwo
  <2> QED BY <1>5, <1>6, <2>2
<1>8. \A e \in DOMAIN epochs' :
            \/ e = epoch /\ epochs'[e] = entry
            \/ e \in DOMAIN epochs /\ epochs'[e] = epochs[e] /\ e < epoch
  BY <1>4, <1>5, <1>6
<1>9. DOMAIN entry.sealers = {} /\ entry.key = n
  OBVIOUS
<1>10. \A f \in Frames : opened[f] > 0 => f.epoch < epoch
  BY <1>1, <1>2, FrameFacts DEF OlderDropped
<1>11. TypeOK'
  <2>1. \A e \in DOMAIN epochs' : IsHeldEpoch(epochs[e])'
    <3> SUFFICES ASSUME NEW e \in DOMAIN epochs'
                 PROVE  IsHeldEpoch(epochs[e])'
      OBVIOUS
    <3>1. CASE e = epoch /\ epochs'[e] = entry
      <4>1. entry = [key |-> entry.key, sealers |-> entry.sealers]
        OBVIOUS
      <4>2. entry.sealers \in [DOMAIN entry.sealers -> Windows]
        OBVIOUS
      <4> QED BY <1>3, <1>9, <3>1, <4>1, <4>2 DEF IsHeldEpoch
    <3>2. CASE e \in DOMAIN epochs /\ epochs'[e] = epochs[e]
      BY <1>3, <3>2 DEF IsHeldEpoch, TypeOK
    <3> QED BY <1>8, <3>1, <3>2
  <2>2. DOMAIN epochs' \subseteq Epochs
    BY <1>8 DEF TypeOK
  <2> QED BY <1>1, <1>3, <1>6, <1>7, <2>1, <2>2 DEF TypeOK
<1>12. HeldFit'
  <2> SUFFICES ASSUME NEW e \in DOMAIN epochs'
               PROVE  /\ e <= latest'
                      /\ imports'[epochs'[e].key].epoch = e
                      /\ imports'[epochs'[e].key].status # "failed"
                      /\ IsFiniteSet(DOMAIN epochs'[e].sealers)
    BY <1>7 DEF HeldFit
  <2>1. CASE e = epoch /\ epochs'[e] = entry
    BY <1>1, <1>2, <1>3, <1>9, <2>1, FS_EmptySet
  <2>2. CASE e \in DOMAIN epochs /\ epochs'[e] = epochs[e] /\ e < epoch
    BY <1>1, <1>2, <1>3, <2>2 DEF HeldFit, TypeOK, IsHeldEpoch
  <2> QED BY <1>8, <2>1, <2>2
<1>13. KeysFit'
  <2>1. \A i \in DOMAIN imports : imports[i].epoch < epoch
    <3> SUFFICES ASSUME NEW i \in DOMAIN imports
                 PROVE  imports[i].epoch < epoch
      OBVIOUS
    <3>1. imports[i].epoch \in Int
      <4>1. imports[i] \in Imports
        BY <1>3
      <4>2. imports[i].epoch \in Epochs
        BY <4>1 DEF Imports
      <4> QED BY <4>2, EpochFacts
    <3>2. imports[i].epoch <= latest
      BY DEF KeysFit
    <3> QED BY <1>1, <1>2, <3>1, <3>2
  <2>2. added.epoch = epoch
    OBVIOUS
  <2> SUFFICES ASSUME NEW i \in DOMAIN imports'
               PROVE  /\ imports'[i].epoch <= latest'
                      /\ \A j \in DOMAIN imports' :
                            imports'[i].epoch = imports'[j].epoch => i = j
    BY DEF KeysFit
  <2>3. CASE i = n
    <3>1. \A j \in DOMAIN imports' :
                imports'[j].epoch = epoch => j = n
      BY <1>2, <1>3, <2>1, EpochFacts DEF Imports
    <3> QED BY <1>1, <1>2, <1>3, <2>2, <2>3, <3>1
  <2>4. CASE i \in DOMAIN imports
    <3>1. /\ imports'[i].epoch < epoch
          /\ imports'[i].epoch \in Int
      BY <1>3, <2>1, <2>4, EpochFacts DEF Imports
    <3>2. ASSUME NEW j \in DOMAIN imports',
                 imports'[i].epoch = imports'[j].epoch
          PROVE  i = j
      <4>1. j \in DOMAIN imports
        BY <1>2, <1>3, <2>2, <3>1, <3>2
      <4> QED BY <1>3, <2>4, <3>2, <4>1 DEF KeysFit
    <3> QED BY <1>1, <1>2, <3>1, <3>2
  <2> QED BY <1>3, <2>3, <2>4
<1>14. CallsFit'
  BY <1>1, <1>3 DEF CallsFit
<1>15. SealersEarned'
  <2> SUFFICES ASSUME NEW e \in DOMAIN epochs'
               PROVE  /\ DOMAIN epochs'[e].sealers = {f.sealer :
                            f \in {g \in Frames : g.epoch = e /\ opened[g] > 0}}
                      /\ Cardinality(DOMAIN epochs'[e].sealers) <= MaxSealers
    BY <1>1 DEF SealersEarned
  <2>1. CASE e = epoch /\ epochs'[e] = entry
    <3>1. {g \in Frames : g.epoch = e /\ opened[g] > 0} = {}
      BY <1>2, <1>10, <2>1
    <3>2. Cardinality({}) = 0
      BY FS_EmptySet
    <3> QED BY <1>9, <2>1, <3>1, <3>2, LimitAssumption
  <2>2. CASE e \in DOMAIN epochs /\ epochs'[e] = epochs[e]
    BY <2>2 DEF SealersEarned
  <2> QED BY <1>8, <2>1, <2>2
<1>16. OlderDropped'
  <2> SUFFICES ASSUME NEW f \in Frames, opened[f] > 0
               PROVE  /\ f.epoch <= epoch
                      /\ \A e \in DOMAIN epochs' : f.epoch <= e
    BY <1>1 DEF OlderDropped
  <2>1. f.epoch < epoch /\ f.epoch \in Nat
    BY <1>10, FrameFacts
  <2>2. \A e \in DOMAIN epochs : f.epoch <= e
    BY DEF OlderDropped
  <2> QED BY <1>2, <1>8, <2>1, <2>2
<1>17. WindowsExact'
  <2>1. \A e \in DOMAIN epochs' : \A id \in DOMAIN epochs'[e].sealers :
            /\ e \in DOMAIN epochs /\ id \in DOMAIN epochs[e].sealers
            /\ epochs'[e].sealers[id] = epochs[e].sealers[id]
    BY <1>8, <1>9
  <2> QED BY <1>1, <2>1, ExactFacts, ZenonT(60)
<1>18. SealersKnown'
  <2>1. \A k \in Calls : calls'[k] = calls[k]
    BY <1>1
  <2>2. ASSUME NEW e \in DOMAIN epochs', epochs'[e].key \in DOMAIN imports
        PROVE  e \in DOMAIN epochs /\ epochs'[e] = epochs[e]
    BY <1>3, <1>8, <1>9, <2>2
  <2> QED BY <2>1, <2>2, KnownKept
<1> QED BY <1>11, <1>12, <1>13, <1>14, <1>15, <1>16, <1>17, <1>18 DEF IInv

\* A key's import ends: nothing is held but what was, and of a refused key's
\* epoch no more.
LEMMA ImportIInv ==
    ASSUME IInv, NEW i \in DOMAIN imports, KeyImported(i) \/ KeyRefused(i)
    PROVE  IInv'
<1> /\ TypeOK /\ HeldFit /\ KeysFit /\ CallsFit /\ SealersKnown
    /\ SealersEarned /\ OlderDropped /\ WindowsExact
  BY DEF IInv
<1>1. /\ latest' = latest /\ calls' = calls /\ opened' = opened
      /\ \E status \in {"ready", "failed"} :
            imports' = [imports EXCEPT ![i].status = status]
  BY DEF KeyImported, KeyRefused
<1>2. /\ imports \in Seq(Imports) /\ imports' \in Seq(Imports)
      /\ DOMAIN imports' = DOMAIN imports
      /\ \A j \in DOMAIN imports :
            /\ imports'[j].epoch = imports[j].epoch
            /\ j # i => imports'[j] = imports[j]
  <2>1. imports \in Seq(Imports)
    BY DEF TypeOK
  <2>2. PICK status \in {"ready", "failed"} :
            imports' = [imports EXCEPT ![i].status = status]
    BY <1>1
  <2>3. imports[i] \in Imports
    BY <2>1
  <2>4. [imports[i] EXCEPT !.status = status] \in Imports
    BY <2>3 DEF Imports
  <2>5. imports' = [imports EXCEPT ![i] =
                        [imports[i] EXCEPT !.status = status]]
    BY <2>2
  <2>6. [imports[i] EXCEPT !.status = status].epoch = imports[i].epoch
    BY <2>3 DEF Imports
  <2> QED BY <2>1, <2>3, <2>4, <2>5, <2>6
<1>3. /\ DOMAIN epochs' \subseteq DOMAIN epochs
      /\ \A e \in DOMAIN epochs' : epochs'[e] = epochs[e]
  <2>1. CASE KeyImported(i)
    BY <2>1 DEF KeyImported
  <2>2. CASE KeyRefused(i)
    <3>1. epochs' = Without(epochs, {imports[i].epoch})
      BY <2>2 DEF KeyRefused
    <3> QED BY <3>1 DEF Without
  <2> QED BY <2>1, <2>2
<1>4. /\ SealersEarned' /\ OlderDropped' /\ WindowsExact'
      /\ IsFiniteSet(DOMAIN epochs')
      /\ Cardinality(DOMAIN epochs') <= MaxEpochs
  BY <1>1, <1>3, HeldKept DEF TypeOK, HeldFit
<1>5. TypeOK'
  <2>1. \A e \in DOMAIN epochs' : IsHeldEpoch(epochs[e])'
    BY <1>2, <1>3 DEF TypeOK, IsHeldEpoch
  <2> QED BY <1>1, <1>2, <1>3, <1>4, <2>1 DEF TypeOK
<1>6. HeldFit'
  <2> SUFFICES ASSUME NEW e \in DOMAIN epochs'
               PROVE  /\ e <= latest'
                      /\ imports'[epochs'[e].key].epoch = e
                      /\ imports'[epochs'[e].key].status # "failed"
                      /\ IsFiniteSet(DOMAIN epochs'[e].sealers)
    BY <1>4 DEF HeldFit
  <2>1. /\ e \in DOMAIN epochs /\ epochs'[e] = epochs[e]
        /\ epochs[e].key \in DOMAIN imports
        /\ e <= latest
        /\ imports[epochs[e].key].epoch = e
        /\ imports[epochs[e].key].status # "failed"
        /\ IsFiniteSet(DOMAIN epochs[e].sealers)
    BY <1>3 DEF HeldFit, TypeOK, IsHeldEpoch
  <2>2. imports'[epochs[e].key].status # "failed"
    <3>1. CASE KeyImported(i)
      <4>1. imports' = [imports EXCEPT ![i].status = "ready"]
        BY <3>1 DEF KeyImported
      <4>2. imports \in Seq(Imports) /\ imports[i] \in Imports
        BY <1>2
      <4>3. imports'[i].status = "ready"
        BY <4>1, <4>2 DEF Imports
      <4> QED BY <1>2, <2>1, <4>3
    <3>2. CASE KeyRefused(i)
      <4>1. e # imports[i].epoch
        <5>1. epochs' = Without(epochs, {imports[i].epoch})
          BY <3>2 DEF KeyRefused
        <5> QED BY <5>1 DEF Without
      <4> QED BY <1>2, <2>1, <4>1
    <3> QED BY <3>1, <3>2
  <2> QED BY <1>1, <1>2, <2>1, <2>2
<1>7. KeysFit'
  BY <1>1, <1>2 DEF KeysFit
<1>8. CallsFit'
  BY <1>1, <1>2 DEF CallsFit
<1>9. SealersKnown'
  BY <1>1, <1>3, KnownKept
<1> QED BY <1>4, <1>5, <1>6, <1>7, <1>8, <1>9 DEF IInv

\* While a call starts, goes on or is refused, only the call changes.
LEMMA CallStepIInv ==
    ASSUME IInv, NEW k \in Calls,
           \/ \E frame \in Frames, genuine \in BOOLEAN :
                    OpenStart(k, frame, genuine)
           \/ OpenAdmit(k)
           \/ OpenRefuse(k)
    PROVE  IInv'
<1> /\ TypeOK /\ HeldFit /\ KeysFit /\ CallsFit /\ SealersKnown
    /\ SealersEarned /\ OlderDropped /\ WindowsExact
  BY DEF IInv
<1>1. UNCHANGED <<latest, epochs, imports, opened>>
  BY DEF OpenStart, OpenAdmit, OpenRefuse
<1>2. calls \in [Calls -> OpenCalls \cup {None}]
  BY DEF TypeOK
<1> DEFINE Fits(call) ==
            call # None =>
                /\ call.key \in DOMAIN imports
                /\ imports[call.key].epoch = call.frame.epoch
                /\ call.genuine => call.frame \in Authentic
<1>3. \E call \in OpenCalls \cup {None} :
            calls' = [calls EXCEPT ![k] = call] /\ Fits(call)
  <2>1. ASSUME NEW frame \in Frames, NEW genuine \in BOOLEAN,
               OpenStart(k, frame, genuine)
        PROVE  \E call \in OpenCalls :
                    calls' = [calls EXCEPT ![k] = call] /\ Fits(call)
    <3> DEFINE started ==
                [frame |-> frame, genuine |-> genuine,
                 key |-> epochs[frame.epoch].key,
                 known |-> Known(frame), step |-> "deriving"]
    <3>1. /\ frame.epoch \in DOMAIN epochs
          /\ calls' = [calls EXCEPT ![k] = started]
          /\ genuine => frame \in Authentic
      BY <2>1 DEF OpenStart
    <3>2. /\ epochs[frame.epoch].key \in DOMAIN imports
          /\ DOMAIN imports \subseteq Nat
          /\ imports[epochs[frame.epoch].key].epoch = frame.epoch
      BY <3>1 DEF TypeOK, IsHeldEpoch, HeldFit
    <3>3. Known(frame) \in BOOLEAN
      BY DEF Known
    <3>4. started \in OpenCalls
      BY <3>2, <3>3 DEF OpenCalls
    <3>5. Fits(started)
      BY <3>1, <3>2
    <3> HIDE DEF started, Fits
    <3> QED BY <3>1, <3>4, <3>5
  <2>2. CASE OpenAdmit(k)
    <3> DEFINE call == [calls[k] EXCEPT !.step = "opening"]
    <3>1. calls[k] \in OpenCalls /\ calls[k] # None
      BY <1>2, <2>2 DEF OpenAdmit
    <3>2. call \in OpenCalls /\ call.key = calls[k].key
          /\ call.frame = calls[k].frame /\ call.genuine = calls[k].genuine
      BY <3>1 DEF OpenCalls
    <3>3. calls' = [calls EXCEPT ![k] = call]
      BY <2>2 DEF OpenAdmit
    <3> QED BY <3>1, <3>2, <3>3 DEF CallsFit
  <2>3. CASE OpenRefuse(k)
    BY <2>3 DEF OpenRefuse, End
  <2> QED BY <2>1, <2>2, <2>3
<1>4. TypeOK'
  BY <1>1, <1>2, <1>3 DEF TypeOK, IsHeldEpoch
<1>5. CallsFit'
  BY <1>1, <1>2, <1>3 DEF CallsFit
<1>6. HeldFit' /\ KeysFit'
  BY <1>1 DEF HeldFit, KeysFit
<1>7. SealersEarned' /\ OlderDropped' /\ WindowsExact'
  <2>1. SealersEarned' /\ OlderDropped'
    BY <1>1 DEF SealersEarned, OlderDropped
  <2>2. WindowsExact'
    BY <1>1, ExactFacts
  <2> QED BY <2>1, <2>2
<1>8. SealersKnown'
  <2>1. ASSUME NEW frame \in Frames, NEW genuine \in BOOLEAN,
               OpenStart(k, frame, genuine)
        PROVE  SealersKnown'
    <3>1. calls'[k].known => Known(calls'[k].frame)
      BY <1>2, <2>1 DEF OpenStart
    <3>2. \A j \in Calls \ {k} : calls'[j] = calls[j]
      BY <1>2, <2>1 DEF OpenStart
    <3> QED BY <1>1, <3>1, <3>2 DEF SealersKnown, Known, SealersOf, Holds
  <2>2. CASE OpenAdmit(k)
    <3>1. calls[k] \in OpenCalls /\ calls[k] # None
      BY <1>2, <2>2 DEF OpenAdmit
    <3>2. /\ calls'[k].known = calls[k].known
          /\ calls'[k].frame = calls[k].frame
          /\ calls'[k].key = calls[k].key
      BY <1>2, <2>2, <3>1 DEF OpenAdmit, OpenCalls
    <3>3. \A j \in Calls \ {k} : calls'[j] = calls[j]
      BY <1>2, <2>2 DEF OpenAdmit
    <3> QED BY <1>1, <3>1, <3>2, <3>3
            DEF SealersKnown, Known, SealersOf, Holds
  <2>3. CASE OpenRefuse(k)
    <3>1. \A j \in Calls : calls'[j] = calls[j] \/ calls'[j] = None
      BY <1>2, <2>3 DEF OpenRefuse, End
    <3> QED BY <1>1, <3>1, KnownKept
  <2> QED BY <2>1, <2>2, <2>3
<1> QED BY <1>4, <1>5, <1>6, <1>7, <1>8 DEF IInv

----------------------------------------------------------------------------
(* A frame opens *)

\* The frame that opens has not opened before, is not Size behind a frame of
\* its sealer, and is of no older epoch than any frame opened.
LEMMA FinishFresh ==
    ASSUME IInv, NEW frame \in Frames,
           frame.epoch \in DOMAIN epochs, Retainable(frame)
    PROVE  /\ opened[frame] = 0
           /\ \A f \in FramesOf(frame.epoch, frame.sealer) :
                opened[f] > 0 => f.sequence < frame.sequence + Size
           /\ \A f \in Frames : opened[f] > 0 => f.epoch <= frame.epoch
<1> /\ TypeOK /\ HeldFit /\ KeysFit /\ CallsFit /\ SealersKnown
    /\ SealersEarned /\ OlderDropped /\ WindowsExact
  BY DEF IInv
<1> DEFINE e == frame.epoch
           id == frame.sealer
<1>1. opened \in [Frames -> Nat]
  BY DEF TypeOK
<1>2. frame \in FramesOf(e, id)
  BY DEF FramesOf
<1>3. CASE Known(frame)
  <2> DEFINE w == WindowOf(frame)
  <2>1. id \in DOMAIN epochs[e].sealers /\ w = epochs[e].sealers[id]
    BY <1>3 DEF Known, WindowOf, SealersOf
  <2>2. w \in Windows /\ w.highest \in Int
    BY <2>1 DEF TypeOK, IsHeldEpoch, Windows
  <2>3. Admits(w, frame.sequence)
    BY <1>3 DEF Retainable
  <2>4. Exact(e, id, w, opened)
    BY <2>1, ExactFacts
  <2>5. frame.sequence > w.highest - Size
    BY <2>2, <2>3, FrameFacts, SizeAssumption DEF Admits
  <2>6. opened[frame] = 0
    BY <1>2, <2>3, <2>4, <2>5 DEF Exact
  <2>7. ASSUME NEW f \in FramesOf(e, id), opened[f] > 0
        PROVE  f.sequence < frame.sequence + Size
    <3>1. f.sequence <= w.highest
      BY <2>4, <2>7 DEF Exact
    <3>2. f.sequence \in Nat /\ frame.sequence \in Nat
      BY FrameFacts DEF FramesOf
    <3> QED BY <2>2, <2>5, <3>1, <3>2, SizeAssumption
  <2> QED BY <2>6, <2>7 DEF OlderDropped
<1>4. CASE ~ Known(frame)
  <2>1. id \notin DOMAIN epochs[e].sealers
    BY <1>4 DEF Known, SealersOf
  <2>2. \A f \in FramesOf(e, id) : ~ opened[f] > 0
    BY <2>1 DEF SealersEarned, FramesOf
  <2>3. opened[frame] = 0
    BY <1>1, <1>2, <2>2
  <2> QED BY <2>2, <2>3 DEF OlderDropped
<1> QED BY <1>3, <1>4

\* The window of the frame's sealer once the frame is recorded.
LEMMA FinishWindow ==
    ASSUME IInv, NEW frame \in Frames,
           frame.epoch \in DOMAIN epochs, Retainable(frame),
           NEW count, count = [opened EXCEPT ![frame] = @ + 1]
    PROVE  LET window == Retained(frame)[frame.sealer] IN
           /\ window \in Windows
           /\ Exact(frame.epoch, frame.sealer, window, count)
<1> /\ TypeOK /\ HeldFit /\ KeysFit /\ CallsFit /\ SealersKnown
    /\ SealersEarned /\ OlderDropped /\ WindowsExact
  BY DEF IInv
<1> DEFINE e == frame.epoch
           id == frame.sealer
           s == frame.sequence
           old == IF Known(frame) THEN WindowOf(frame) ELSE NewWindow
           new == Retained(frame)[id]
<1>1. opened \in [Frames -> Nat] /\ s \in Nat
  BY FrameFacts DEF TypeOK
<1>2. new = Accept(old, s)
  BY DEF Retained
<1>3. frame \in FramesOf(e, id)
  BY DEF FramesOf
<1>4. /\ count[frame] > 0
      /\ \A f \in Frames : f # frame => count[f] = opened[f]
      /\ \A f \in Frames : opened[f] > 0 => count[f] > 0
  BY <1>1
\* What the old window, or that of a new sealer, says of the frames.
<1>5. /\ old \in Windows /\ Admits(old, s)
      /\ old.highest = -1 \/ \E f \in FramesOf(e, id) :
                opened[f] > 0 /\ f.sequence = old.highest
      /\ \A f \in FramesOf(e, id) :
            /\ opened[f] > 0 => f.sequence <= old.highest
            /\ old.highest - Size < f.sequence =>
                    (Admits(old, f.sequence) <=> opened[f] = 0)
  <2>1. CASE Known(frame)
    <3>1. id \in DOMAIN epochs[e].sealers /\ old = epochs[e].sealers[id]
      BY <2>1 DEF Known, WindowOf, SealersOf
    <3>2. old \in Windows
      BY <3>1 DEF TypeOK, IsHeldEpoch
    <3>3. Admits(old, s)
      BY <2>1 DEF Retainable
    <3>4. Exact(e, id, old, opened)
      BY <3>1, ExactFacts
    <3> HIDE DEF old
    <3> QED BY <3>2, <3>3, <3>4 DEF Exact
  <2>2. CASE ~ Known(frame)
    <3>1. id \notin DOMAIN epochs[e].sealers
      BY <2>2 DEF Known, SealersOf
    <3>2. \A f \in FramesOf(e, id) : opened[f] = 0
      BY <1>1, <3>1 DEF SealersEarned, FramesOf
    <3>3. old = NewWindow /\ old.highest = -1
      BY <2>2 DEF NewWindow
    <3>4. \A n \in Nat : Admits(old, n)
      BY <3>3 DEF Admits
    <3>5. \A f \in FramesOf(e, id) : f.sequence \in Nat
      BY FrameFacts DEF FramesOf
    <3> QED BY <1>1, <3>2, <3>3, <3>4, <3>5, NewWindowType
  <2> QED BY <2>1, <2>2
<1> HIDE DEF old, new
<1>6. /\ new \in Windows /\ old.highest \in Int
      /\ new.highest = IF s > old.highest THEN s ELSE old.highest
  BY <1>1, <1>2, <1>5, AcceptType
<1>7. \E f \in FramesOf(e, id) : count[f] > 0 /\ f.sequence = new.highest
  <2>1. CASE s > old.highest
    BY <1>3, <1>4, <1>6, <2>1
  <2>2. CASE ~ s > old.highest
    <3>1. PICK f \in FramesOf(e, id) :
                opened[f] > 0 /\ f.sequence = old.highest
      BY <1>1, <1>5, <2>2
    <3> QED BY <1>4, <1>6, <2>2, <3>1 DEF FramesOf
  <2> QED BY <2>1, <2>2
<1>8. ASSUME NEW f \in FramesOf(e, id)
      PROVE  /\ count[f] > 0 => f.sequence <= new.highest
             /\ new.highest - Size < f.sequence =>
                    (Admits(new, f.sequence) <=> count[f] = 0)
  <2>1. f \in Frames /\ f.sequence \in Nat /\ opened[f] \in Nat
    BY <1>1, FrameFacts DEF FramesOf
  <2>2. f # frame => f.sequence # s
    BY FrameFacts DEF FramesOf
  <2>3. CASE f = frame
    <3>1. count[f] > 0 /\ count[f] # 0 /\ f.sequence <= new.highest
      BY <1>1, <1>4, <1>6, <2>3
    <3>2. new.highest - Size < f.sequence => ~ Admits(new, f.sequence)
      BY <1>1, <1>2, <1>5, <1>6, <2>1, <2>3, AcceptExact
    <3> QED BY <3>1, <3>2
  <2>4. CASE f # frame
    <3>1. count[f] = opened[f]
      BY <1>4, <2>1, <2>4
    <3>2. count[f] > 0 => f.sequence <= new.highest
      BY <1>1, <1>5, <1>6, <2>1, <3>1
    <3>3. ASSUME new.highest - Size < f.sequence
          PROVE  Admits(new, f.sequence) <=> count[f] = 0
      <4>1. old.highest - Size < f.sequence
        BY <1>1, <1>6, <2>1, <3>3, SizeAssumption
      <4>2. Admits(new, f.sequence) <=> Admits(old, f.sequence)
        BY <1>1, <1>2, <1>5, <1>6, <2>1, <2>2, <2>4, <3>3, AcceptExact,
           SizeAssumption
      <4> QED BY <1>5, <3>1, <4>1, <4>2
    <3> QED BY <3>2, <3>3
  <2> QED BY <2>3, <2>4
<1> QED BY <1>6, <1>7, <1>8 DEF Exact, new

\* What finishing a call changes.
LEMMA FinishFacts ==
    ASSUME IInv, NEW k \in Calls, OpenFinish(k)
    PROVE  LET frame == calls[k].frame IN
           /\ frame \in Frames /\ frame \in Authentic
           /\ frame.epoch \in DOMAIN epochs
           /\ Retainable(frame)
           /\ opened' = [opened EXCEPT ![frame] = @ + 1]
           /\ calls' = [calls EXCEPT ![k] = None]
           /\ latest' = latest /\ imports' = imports
           /\ DOMAIN epochs' = DOMAIN epochs \ Superseded(frame.epoch)
           /\ \A e \in DOMAIN epochs' \ {frame.epoch} : epochs'[e] = epochs[e]
           /\ frame.epoch \in DOMAIN epochs'
           /\ epochs'[frame.epoch] =
                [key |-> epochs[frame.epoch].key, sealers |-> Retained(frame)]
<1> TypeOK /\ CallsFit
  BY DEF IInv
<1> DEFINE frame == calls[k].frame
           recorded == [epochs EXCEPT ![frame.epoch].sealers = Retained(frame)]
<1>1. /\ calls[k] \in OpenCalls /\ calls[k] # None
      /\ Opens(calls[k])
  BY DEF OpenFinish, TypeOK
<1>2. frame \in Frames /\ frame \in Authentic
  BY <1>1 DEF OpenCalls, CallsFit, Opens
<1>3. frame.epoch \in DOMAIN epochs /\ Retainable(frame)
  BY <1>1 DEF Opens, Holds
<1>4. /\ opened' = [opened EXCEPT ![frame] = @ + 1]
      /\ calls' = [calls EXCEPT ![k] = None]
      /\ latest' = latest /\ imports' = imports
      /\ epochs' = Without(recorded, Superseded(frame.epoch))
  BY DEF OpenFinish, End
<1>5. /\ DOMAIN recorded = DOMAIN epochs
      /\ \A e \in DOMAIN epochs \ {frame.epoch} : recorded[e] = epochs[e]
      /\ recorded[frame.epoch] =
            [epochs[frame.epoch] EXCEPT !.sealers = Retained(frame)]
  BY <1>3
<1>6. recorded[frame.epoch] =
            [key |-> epochs[frame.epoch].key, sealers |-> Retained(frame)]
  <2>1. epochs[frame.epoch] = [key |-> epochs[frame.epoch].key,
                               sealers |-> epochs[frame.epoch].sealers]
    BY <1>3 DEF TypeOK, IsHeldEpoch
  <2> QED BY <1>5, <2>1
<1> HIDE DEF recorded
<1>7. frame.epoch \notin Superseded(frame.epoch)
  BY <1>2, FrameFacts DEF Superseded
<1>8. epochs' =
        [e \in DOMAIN recorded \ Superseded(frame.epoch) |-> recorded[e]]
  BY <1>4 DEF Without
<1>9. DOMAIN epochs' = DOMAIN epochs \ Superseded(frame.epoch)
  BY <1>5, <1>8
<1>10. \A e \in DOMAIN epochs' : epochs'[e] = recorded[e]
  BY <1>5, <1>8, <1>9
<1> QED
  <2> HIDE DEF frame
  <2>1. frame.epoch \in DOMAIN epochs'
    BY <1>3, <1>7, <1>9
  <2>2. \A e \in DOMAIN epochs' \ {frame.epoch} : epochs'[e] = epochs[e]
    BY <1>5, <1>9, <1>10
  <2>3. epochs'[frame.epoch] =
            [key |-> epochs[frame.epoch].key, sealers |-> Retained(frame)]
    BY <1>6, <1>10, <2>1
  <2> QED BY <1>2, <1>3, <1>4, <1>9, <2>1, <2>2, <2>3 DEF frame

\* The sealers of the frame's epoch: one more at most, and never too many.
LEMMA FinishSealers ==
    ASSUME IInv, NEW frame \in Frames,
           frame.epoch \in DOMAIN epochs, Retainable(frame)
    PROVE  LET sealers == DOMAIN SealersOf(frame) \cup {frame.sealer} IN
           /\ DOMAIN Retained(frame) = sealers
           /\ IsFiniteSet(sealers)
           /\ Cardinality(sealers) <= MaxSealers
<1> TypeOK /\ HeldFit /\ SealersEarned
  BY DEF IInv
<1> DEFINE S == DOMAIN SealersOf(frame)
<1>1. IsFiniteSet(S) /\ Cardinality(S) <= MaxSealers
  BY DEF SealersOf, HeldFit, SealersEarned
<1>2. /\ IsFiniteSet(S \cup {frame.sealer})
      /\ Cardinality(S \cup {frame.sealer}) =
            IF frame.sealer \in S THEN Cardinality(S) ELSE Cardinality(S) + 1
  BY <1>1, FS_AddElement
<1>3. frame.sealer \notin S => Cardinality(S) < MaxSealers
  BY DEF Retainable, Known, Room
<1>4. Cardinality(S) \in Nat
  BY <1>1, FS_CardinalityType
<1>5. Cardinality(S \cup {frame.sealer}) <= MaxSealers
  BY <1>1, <1>2, <1>3, <1>4, LimitAssumption
<1>6. DOMAIN Retained(frame) = S \cup {frame.sealer}
  BY DEF Retained
<1> QED BY <1>2, <1>5, <1>6

\* Finishing an open closes the window for its frame and for no other.
LEMMA FinishIInv ==
    ASSUME IInv, NEW k \in Calls, OpenFinish(k)
    PROVE  IInv'
<1> /\ TypeOK /\ HeldFit /\ KeysFit /\ CallsFit /\ SealersKnown
    /\ SealersEarned /\ OlderDropped /\ WindowsExact
  BY DEF IInv
<1> DEFINE frame == calls[k].frame
<1>1. /\ frame \in Frames /\ frame \in Authentic
      /\ frame.epoch \in DOMAIN epochs
      /\ Retainable(frame)
      /\ opened' = [opened EXCEPT ![frame] = @ + 1]
      /\ calls' = [calls EXCEPT ![k] = None]
      /\ latest' = latest /\ imports' = imports
  BY FinishFacts
<1>2. /\ DOMAIN epochs' = DOMAIN epochs \ Superseded(frame.epoch)
      /\ \A e \in DOMAIN epochs' \ {frame.epoch} : epochs'[e] = epochs[e]
      /\ frame.epoch \in DOMAIN epochs'
      /\ epochs'[frame.epoch] =
            [key |-> epochs[frame.epoch].key, sealers |-> Retained(frame)]
  BY FinishFacts
<1> HIDE DEF frame
<1> DEFINE sealers == DOMAIN SealersOf(frame) \cup {frame.sealer}
<1>3. /\ DOMAIN Retained(frame) = sealers
      /\ IsFiniteSet(sealers) /\ Cardinality(sealers) <= MaxSealers
  BY <1>1, FinishSealers
<1>4. /\ opened \in [Frames -> Nat] /\ opened' \in [Frames -> Nat]
      /\ \A f \in Frames : opened'[f] > 0 <=> f = frame \/ opened[f] > 0
      /\ \A f \in Frames : f # frame => opened'[f] = opened[f]
  BY <1>1 DEF TypeOK
<1>5. /\ Retained(frame)[frame.sealer] \in Windows
      /\ Exact(frame.epoch, frame.sealer,
               Retained(frame)[frame.sealer], opened')
  BY <1>1, FinishWindow
<1>6. \A id \in sealers \ {frame.sealer} :
            /\ id \in DOMAIN SealersOf(frame)
            /\ Retained(frame)[id] = SealersOf(frame)[id]
            /\ SealersOf(frame)[id] \in Windows
  <2>1. IsHeldEpoch(epochs[frame.epoch])
    BY <1>1 DEF TypeOK
  <2> QED BY <2>1 DEF Retained, SealersOf, IsHeldEpoch
<1>7. /\ IsFiniteSet(DOMAIN epochs')
      /\ Cardinality(DOMAIN epochs') <= MaxEpochs
  <2>1. DOMAIN epochs' \in SUBSET DOMAIN epochs
    BY <1>2
  <2>2. /\ IsFiniteSet(DOMAIN epochs')
        /\ Cardinality(DOMAIN epochs') <= Cardinality(DOMAIN epochs)
    BY <2>1, FS_Subset DEF HeldFit
  <2>3. Cardinality(DOMAIN epochs) <= 2
    BY LimitAssumption DEF TypeOK
  <2>4. /\ Cardinality(DOMAIN epochs') \in Nat
        /\ Cardinality(DOMAIN epochs) \in Nat
    BY <2>2, FS_CardinalityType DEF HeldFit
  <2> QED BY <2>2, <2>3, <2>4, LimitAssumption
<1>8. TypeOK'
  <2>1. ASSUME NEW e \in DOMAIN epochs' PROVE IsHeldEpoch(epochs[e])'
    <3>1. CASE e # frame.epoch
      BY <1>1, <1>2, <3>1 DEF TypeOK, IsHeldEpoch
    <3>2. CASE e = frame.epoch
      <4>1. epochs[e].key \in DOMAIN imports
        BY <1>1, <3>2 DEF TypeOK, IsHeldEpoch
      <4>2. DOMAIN SealersOf(frame) \subseteq Sealers /\ frame.sealer \in Sealers
        BY <1>1, FrameFacts DEF SealersOf, TypeOK, IsHeldEpoch
      <4>3. \A id \in sealers : Retained(frame)[id] \in Windows
        BY <1>5, <1>6
      <4>4. Retained(frame) \in [DOMAIN Retained(frame) -> Windows]
        <5>1. Retained(frame) =
                    [id \in DOMAIN Retained(frame) |-> Retained(frame)[id]]
          BY DEF Retained
        <5> QED BY <1>3, <4>3, <5>1
      <4> QED BY <1>1, <1>2, <1>3, <3>2, <4>1, <4>2, <4>4 DEF IsHeldEpoch
    <3> QED BY <3>1, <3>2
  <2>2. calls' \in [Calls -> OpenCalls \cup {None}]
    BY <1>1 DEF TypeOK
  <2>3. DOMAIN epochs' \subseteq Epochs
    BY <1>2 DEF TypeOK
  <2> QED BY <1>1, <1>4, <1>7, <2>1, <2>2, <2>3 DEF TypeOK
<1>9. HeldFit'
  <2> SUFFICES ASSUME NEW e \in DOMAIN epochs'
               PROVE  /\ e <= latest'
                      /\ imports'[epochs'[e].key].epoch = e
                      /\ imports'[epochs'[e].key].status # "failed"
                      /\ IsFiniteSet(DOMAIN epochs'[e].sealers)
    BY <1>7 DEF HeldFit
  <2>1. e \in DOMAIN epochs /\ epochs'[e].key = epochs[e].key
    BY <1>2
  <2>2. IsFiniteSet(DOMAIN epochs'[e].sealers)
    BY <1>2, <1>3, <2>1 DEF HeldFit
  <2> QED BY <1>1, <2>1, <2>2 DEF HeldFit
<1>10. KeysFit' /\ CallsFit'
  BY <1>1 DEF KeysFit, CallsFit, TypeOK
<1>11. SealersEarned'
  <2> SUFFICES ASSUME NEW e \in DOMAIN epochs'
               PROVE  /\ DOMAIN epochs'[e].sealers = {f.sealer :
                            f \in {g \in Frames : g.epoch = e /\ opened'[g] > 0}}
                      /\ Cardinality(DOMAIN epochs'[e].sealers) <= MaxSealers
    BY DEF SealersEarned
  <2>1. DOMAIN epochs[e].sealers = {f.sealer :
                f \in {g \in Frames : g.epoch = e /\ opened[g] > 0}}
    BY <1>2 DEF SealersEarned
  <2>2. CASE e # frame.epoch
    <3>1. {g \in Frames : g.epoch = e /\ opened'[g] > 0} =
                {g \in Frames : g.epoch = e /\ opened[g] > 0}
      BY <1>4, <2>2
    <3> QED BY <1>2, <2>1, <2>2, <3>1 DEF SealersEarned
  <2>3. CASE e = frame.epoch
    <3>1. {g \in Frames : g.epoch = e /\ opened'[g] > 0} =
                {g \in Frames : g.epoch = e /\ opened[g] > 0} \cup {frame}
      BY <1>1, <1>4, <2>3
    <3>2. DOMAIN epochs'[e].sealers = sealers
      BY <1>2, <1>3, <2>3
    <3>3. sealers = DOMAIN epochs[e].sealers \cup {frame.sealer}
      BY <2>3 DEF SealersOf
    <3> QED BY <1>3, <2>1, <3>1, <3>2, <3>3
  <2> QED BY <2>2, <2>3
<1>12. OlderDropped'
  <2>1. ASSUME NEW e \in DOMAIN epochs' PROVE frame.epoch <= e
    <3>1. e \in DOMAIN epochs /\ e \in Nat /\ frame.epoch \in Nat
      BY <1>1, <1>2, EpochFacts, FrameFacts DEF TypeOK
    <3>2. CASE Newest(frame.epoch)
      BY <1>2, <3>1, <3>2 DEF Superseded
    <3>3. CASE ~ Newest(frame.epoch)
      <4>1. PICK later \in DOMAIN epochs : later > frame.epoch
        BY <1>1, <3>1, <3>3, EpochFacts DEF Newest, TypeOK
      <4>2. DOMAIN epochs = {frame.epoch, later}
        <5>1. /\ IsFiniteSet(DOMAIN epochs) /\ Cardinality(DOMAIN epochs) <= 2
              /\ frame.epoch # later
          BY <3>1, <4>1, LimitAssumption DEF HeldFit, TypeOK
        <5>2. \A S : IsFiniteSet(S) /\ Cardinality(S) <= 2 =>
                    \A a, b \in S : a # b => S = {a, b}
          BY TwoAreAll
        <5> QED BY <1>1, <4>1, <5>1, <5>2
      <4> QED BY <3>1, <4>1, <4>2
    <3> QED BY <3>2, <3>3
  <2>2. frame.epoch <= latest
    BY <1>1 DEF HeldFit
  <2> SUFFICES ASSUME NEW f \in Frames, opened'[f] > 0
               PROVE  /\ f.epoch <= latest'
                      /\ \A e \in DOMAIN epochs' : f.epoch <= e
    BY DEF OlderDropped
  <2>3. CASE f = frame
    BY <1>1, <2>1, <2>2, <2>3
  <2>4. CASE opened[f] > 0
    BY <1>1, <1>2, <2>4 DEF OlderDropped
  <2> QED BY <1>4, <2>3, <2>4
<1>13. WindowsExact'
  <2> SUFFICES ASSUME NEW e \in DOMAIN epochs',
                      NEW id \in DOMAIN epochs'[e].sealers
               PROVE  Exact(e, id, epochs'[e].sealers[id], opened')
    BY ExactFacts
  <2>1. CASE e = frame.epoch /\ id = frame.sealer
    BY <1>2, <1>5, <2>1
  <2>2. CASE ~ (e = frame.epoch /\ id = frame.sealer)
    <3>1. /\ e \in DOMAIN epochs /\ id \in DOMAIN epochs[e].sealers
          /\ epochs'[e].sealers[id] = epochs[e].sealers[id]
      BY <1>2, <1>3, <1>6, <2>2 DEF SealersOf
    <3>2. Exact(e, id, epochs[e].sealers[id], opened)
      BY <3>1, ExactFacts
    <3>3. \A f \in FramesOf(e, id) : opened'[f] = opened[f]
      BY <1>4, <2>2 DEF FramesOf
    <3> QED BY <3>1, <3>2, <3>3 DEF Exact
  <2> QED BY <2>1, <2>2
<1>14. SealersKnown'
  <2>1. \A j \in Calls : calls'[j] = calls[j] \/ calls'[j] = None
    BY <1>1 DEF TypeOK
  <2>2. ASSUME NEW e \in DOMAIN epochs'
        PROVE  /\ e \in DOMAIN epochs
               /\ epochs'[e].key = epochs[e].key
               /\ DOMAIN epochs[e].sealers \subseteq
                        DOMAIN epochs'[e].sealers
    BY <1>2, <1>3 DEF SealersOf
  <2> QED BY <2>1, <2>2, KnownKept
<1> QED BY <1>8, <1>9, <1>10, <1>11, <1>12, <1>13, <1>14 DEF IInv

----------------------------------------------------------------------------
(* The theorems *)

\* Every step keeps the invariant.
LEMMA NextIInv == IInv /\ [Next]_vars => IInv'
<1> SUFFICES ASSUME IInv, [Next]_vars PROVE IInv'
  OBVIOUS
<1>1. ASSUME NEW epoch \in Epochs, AddKey(epoch) PROVE IInv'
  BY <1>1, AddKeyIInv
<1>2. ASSUME NEW i \in DOMAIN imports, KeyImported(i) \/ KeyRefused(i)
      PROVE  IInv'
  BY <1>2, ImportIInv
<1>3. ASSUME NEW k \in Calls,
             \/ \E frame \in Frames, genuine \in BOOLEAN :
                    OpenStart(k, frame, genuine)
             \/ OpenAdmit(k)
             \/ OpenRefuse(k)
      PROVE  IInv'
  BY <1>3, CallStepIInv
<1>4. ASSUME NEW k \in Calls, OpenFinish(k) PROVE IInv'
  BY <1>4, FinishIInv
<1>5. CASE UNCHANGED vars
  <2>1. /\ latest' = latest /\ epochs' = epochs /\ imports' = imports
        /\ calls' = calls /\ opened' = opened
    BY <1>5 DEF vars
  <2>2. TypeOK'
    BY <2>1 DEF IInv, TypeOK, IsHeldEpoch
  <2>3. HeldFit' /\ KeysFit' /\ CallsFit' /\ SealersKnown'
    BY <2>1 DEF IInv, HeldFit, KeysFit, CallsFit, SealersKnown, Holds, Known,
                SealersOf
  <2>4. SealersEarned' /\ OlderDropped'
    BY <2>1 DEF IInv, SealersEarned, OlderDropped
  <2>5. WindowsExact'
    BY <2>1, ExactFacts DEF IInv
  <2> QED BY <2>2, <2>3, <2>4, <2>5 DEF IInv
<1> QED BY <1>1, <1>2, <1>3, <1>4, <1>5 DEF Next

\* The invariant is inductive, for every window size, every number of
\* sealers, and any number of overlapping open calls.
THEOREM Inductive == Spec => []IInv
<1>1. Init => IInv
  BY InitIInv
<1>2. IInv /\ [Next]_vars => IInv'
  BY NextIInv
<1> QED BY <1>1, <1>2, PTL DEF Spec

\* The opener's state stays in its types: in particular no more than two
\* epochs are held, whatever keys come and go.
THEOREM TypeCorrect == Spec => []TypeOK
<1>1. IInv => TypeOK
  BY DEF IInv
<1> QED BY <1>1, Inductive, PTL

\* The ring of flags of CallMediaReplayWindow stands for exactly the frames
\* of the sealer that opened, however calls of one sealer overlap.
THEOREM RingExact == Spec => []WindowsExact
<1>1. IInv => WindowsExact
  BY DEF IInv
<1> QED BY <1>1, Inductive, PTL

\* Only a frame that opened takes a place of its epoch, and the places of
\* MAX_SEALERS_PER_EPOCH are never exceeded by overlapping calls.
THEOREM PlacesEarned == Spec => []SealersEarned
<1>1. IInv => SealersEarned
  BY DEF IInv
<1> QED BY <1>1, Inductive, PTL

\* Once a frame of a newer epoch opened, no older epoch is held again.
THEOREM NewerPrevails == Spec => []OlderDropped
<1>1. IInv => OlderDropped
  BY DEF IInv
<1> QED BY <1>1, Inductive, PTL

\* Of the frames opened, the sealers of one epoch are those held.
LEMMA SealersOpenedFacts ==
    ASSUME IInv, NEW e \in DOMAIN epochs
    PROVE  Delivery!SealersOpened(e) = DOMAIN epochs[e].sealers
<1>1. DOMAIN epochs[e].sealers =
        {f.sealer : f \in {g \in Frames : g.epoch = e /\ opened[g] > 0}}
  BY DEF IInv, SealersEarned
<1>2. {f \in Delivery!Opened : f.epoch = e} =
        {g \in Frames : g.epoch = e /\ opened[g] > 0}
  BY DEF Delivery!Opened
<1> QED BY <1>1, <1>2 DEF Delivery!SealersOpened

\* The promise counts sealers as the opener does.
LEMMA SameCount == \A S : Delivery!Cardinality(S) = Cardinality(S)
BY DEF Delivery!Cardinality, Cardinality

\* Finishing an open is a first delivery of its frame.
LEMMA FinishDelivers ==
    ASSUME IInv, NEW k \in Calls, OpenFinish(k)
    PROVE  Delivery!Deliver(calls[k].frame) /\ calls[k].frame \in Frames
<1> DEFINE frame == calls[k].frame
<1>1. /\ frame \in Frames /\ frame \in Authentic
      /\ frame.epoch \in DOMAIN epochs
      /\ Retainable(frame)
      /\ opened' = [opened EXCEPT ![frame] = @ + 1]
  BY FinishFacts
<1> HIDE DEF frame
<1>2. /\ opened[frame] = 0
      /\ \A f \in FramesOf(frame.epoch, frame.sealer) :
            opened[f] > 0 => f.sequence < frame.sequence + Size
      /\ \A f \in Frames : opened[f] > 0 => f.epoch <= frame.epoch
  BY <1>1, FinishFresh
<1>3. \A before \in Delivery!Opened :
        /\ before.epoch <= frame.epoch
        /\ before.epoch = frame.epoch /\ before.sealer = frame.sealer =>
                before.sequence < frame.sequence + Size
  BY <1>2 DEF Delivery!Opened, FramesOf
<1>4. Cardinality(Delivery!SealersOpened(frame.epoch) \cup {frame.sealer})
            <= MaxSealers
  BY <1>1, FinishSealers, SealersOpenedFacts DEF SealersOf
<1>5. opened' = [opened EXCEPT ![frame] = 1]
  BY <1>1, <1>2
<1>6. Delivery!Deliver(frame)
  <2>1. frame \in Authentic /\ opened[frame] = 0
    BY <1>1, <1>2
  <2> QED BY <1>3, <1>4, <1>5, <2>1, SameCount, Zenon DEF Delivery!Deliver
<1> QED BY <1>1, <1>6 DEF frame

\* The opener delivers frames as CallMediaDelivery promises: each at most
\* once, only authentic ones, none too far behind its sealer, none of an older
\* epoch, and from no more sealers than an epoch may have.
THEOREM DeliversAsPromised == Spec => Delivers
<1>1. Init => Delivery!Init
  BY DEF Init, Delivery!Init
<1>2. IInv /\ [Next]_vars => [Delivery!Next]_opened
  <2> SUFFICES ASSUME IInv, [Next]_vars PROVE [Delivery!Next]_opened
    OBVIOUS
  <2>1. ASSUME NEW k \in Calls, OpenFinish(k) PROVE Delivery!Next
    BY <2>1, FinishDelivers DEF Delivery!Next
  <2>2. CASE ~ \E k \in Calls : OpenFinish(k)
    BY <2>2 DEF Next, vars, AddKey, KeyImported, KeyRefused, OpenStart,
                OpenAdmit, OpenRefuse
  <2> QED BY <2>1, <2>2
<1> QED BY <1>1, <1>2, Inductive, PTL DEF Spec, Delivers, Delivery!Spec

----------------------------------------------------------------------------
(* Refusals *)

\* The causes for which a genuine frame may be refused.
Cause(f) ==
    \/ opened'[f] > 0
    \/ f.epoch \notin DOMAIN epochs
    \/ \E g \in FramesOf(f.epoch, f.sealer) :
            opened[g] > 0 /\ g.sequence >= f.sequence + Size
    \/ /\ \A g \in FramesOf(f.epoch, f.sealer) : opened[g] = 0
       /\ Cardinality(DOMAIN epochs[f.epoch].sealers) = MaxSealers

\* A frame its window does not admit opened already, or is Size behind.
LEMMA NotAdmitted ==
    ASSUME IInv, NEW f \in Frames, f.epoch \in DOMAIN epochs,
           Known(f), ~ Admits(WindowOf(f), f.sequence), opened' = opened
    PROVE  Cause(f)
<1> TypeOK /\ WindowsExact
  BY DEF IInv
<1> DEFINE w == WindowOf(f)
<1>1. /\ f.sealer \in DOMAIN epochs[f.epoch].sealers
      /\ w = epochs[f.epoch].sealers[f.sealer]
  BY DEF Known, WindowOf, SealersOf
<1>2. w.highest \in Int /\ f.sequence \in Nat /\ opened[f] \in Nat
  BY <1>1, FrameFacts DEF TypeOK, IsHeldEpoch, Windows
<1>3. Exact(f.epoch, f.sealer, w, opened) /\ f \in FramesOf(f.epoch, f.sealer)
  BY <1>1, ExactFacts DEF FramesOf
<1> HIDE DEF w
<1>4. CASE w.highest - Size < f.sequence
  <2>1. ~ Admits(w, f.sequence)
    BY DEF w
  <2> QED BY <1>2, <1>3, <1>4, <2>1 DEF Exact, Cause
<1>5. CASE ~ (w.highest - Size < f.sequence)
  <2>1. PICK g \in FramesOf(f.epoch, f.sealer) :
            opened[g] > 0 /\ g.sequence = w.highest
    BY <1>3 DEF Exact
  <2>2. g.sequence >= f.sequence + Size
    BY <1>2, <1>5, <2>1, SizeAssumption
  <2> QED BY <2>1, <2>2 DEF Cause
<1> QED BY <1>4, <1>5

\* A genuine frame that is refused was refused for a cause.
LEMMA RefuseCaused ==
    ASSUME IInv, NEW k \in Calls, OpenRefuse(k), calls[k].genuine
    PROVE  Cause(calls[k].frame)
<1> /\ TypeOK /\ HeldFit /\ KeysFit /\ CallsFit /\ SealersKnown
    /\ SealersEarned
  BY DEF IInv
<1> DEFINE f == calls[k].frame
<1>1. /\ calls[k] \in OpenCalls /\ calls[k] # None /\ f \in Frames
      /\ opened' = opened
  BY DEF OpenRefuse, TypeOK, OpenCalls
<1>2. /\ calls[k].key \in DOMAIN imports
      /\ imports[calls[k].key].epoch = f.epoch
  BY <1>1 DEF CallsFit
\* The epoch held is the one of the call: no other key has it.
<1>3. f.epoch \in DOMAIN epochs =>
            Holds(calls[k]) /\ imports[calls[k].key].status # "failed"
  <2> SUFFICES ASSUME f.epoch \in DOMAIN epochs
               PROVE  /\ Holds(calls[k])
                      /\ imports[calls[k].key].status # "failed"
    OBVIOUS
  <2>1. /\ epochs[f.epoch].key \in DOMAIN imports
        /\ imports[epochs[f.epoch].key].epoch = f.epoch
        /\ imports[epochs[f.epoch].key].status # "failed"
    BY DEF TypeOK, IsHeldEpoch, HeldFit
  <2>2. epochs[f.epoch].key = calls[k].key
    BY <1>2, <2>1 DEF KeysFit
  <2> QED BY <2>1, <2>2 DEF Holds
<1> HIDE DEF f
<1>4. CASE f.epoch \notin DOMAIN epochs
  BY <1>4 DEF Cause, f
<1>5. CASE f.epoch \in DOMAIN epochs /\ calls[k].step = "deriving"
  <2>1. /\ calls[k].known /\ Holds(calls[k])
        /\ ~ Admits(WindowOf(f), f.sequence)
    BY <1>3, <1>5 DEF OpenRefuse, f
  <2>2. Known(f)
    BY <1>1, <2>1 DEF SealersKnown, f
  <2> QED BY <1>1, <1>5, <2>1, <2>2, NotAdmitted DEF f
<1>6. CASE f.epoch \in DOMAIN epochs /\ calls[k].step # "deriving"
  <2>1. ~ Retainable(f)
    BY <1>3, <1>6 DEF OpenRefuse, Opens, f
  <2>2. CASE Known(f)
    BY <1>1, <1>6, <2>1, <2>2, NotAdmitted DEF Retainable, f
  <2>3. CASE ~ Known(f)
    <3>1. \A g \in FramesOf(f.epoch, f.sealer) : opened[g] = 0
      BY <1>6, <2>3 DEF Known, SealersOf, SealersEarned, FramesOf, TypeOK
    <3>2. /\ IsFiniteSet(DOMAIN epochs[f.epoch].sealers)
          /\ Cardinality(DOMAIN epochs[f.epoch].sealers) <= MaxSealers
      BY <1>6 DEF HeldFit, SealersEarned
    <3>3. Cardinality(DOMAIN epochs[f.epoch].sealers) \in Nat
      BY <3>2, FS_CardinalityType
    <3>4. ~ Cardinality(DOMAIN epochs[f.epoch].sealers) < MaxSealers
      BY <2>1, <2>3 DEF Retainable, Room, SealersOf
    <3>5. Cardinality(DOMAIN epochs[f.epoch].sealers) = MaxSealers
      BY <3>2, <3>3, <3>4, LimitAssumption
    <3> QED BY <3>1, <3>5 DEF Cause, f
  <2> QED BY <2>2, <2>3
<1> QED BY <1>4, <1>5, <1>6

\* A call ends when its frame opens or is refused.
LEMMA EndCaused ==
    ASSUME IInv, [Next]_vars, NEW k \in Calls,
           calls[k] # None, calls'[k] = None, calls[k].genuine
    PROVE  Cause(calls[k].frame)
<1> TypeOK
  BY DEF IInv
<1>1. calls \in [Calls -> OpenCalls \cup {None}] /\ calls[k] \in OpenCalls
  BY DEF TypeOK
<1>2. calls' # calls
  OBVIOUS
<1>3. PICK j \in Calls :
        \/ \E frame \in Frames, genuine \in BOOLEAN :
                OpenStart(j, frame, genuine)
        \/ OpenAdmit(j)
        \/ OpenFinish(j)
        \/ OpenRefuse(j)
  BY <1>2 DEF Next, vars, AddKey, KeyImported, KeyRefused
<1>4. CASE j # k
  <2>1. calls'[k] = calls[k]
    BY <1>1, <1>3, <1>4 DEF OpenStart, OpenAdmit, OpenFinish, OpenRefuse, End
  <2> QED BY <2>1
<1>5. CASE j = k
  <2>1. ~ \E frame \in Frames, genuine \in BOOLEAN :
                OpenStart(k, frame, genuine)
    BY DEF OpenStart
  <2>2. ~ OpenAdmit(k)
    <3> SUFFICES ASSUME OpenAdmit(k) PROVE FALSE
      OBVIOUS
    <3>1. [calls[k] EXCEPT !.step = "opening"] \in OpenCalls
      BY <1>1 DEF OpenCalls
    <3>2. calls'[k] \in OpenCalls
      BY <1>1, <3>1 DEF OpenAdmit
    <3> QED BY <3>2, NoneAssumption
  <2>3. CASE OpenFinish(k)
    <3> DEFINE f == calls[k].frame
    <3>1. f \in Frames /\ opened' = [opened EXCEPT ![f] = @ + 1]
      BY <2>3, FinishFacts
    <3>2. opened'[f] > 0
      BY <3>1 DEF TypeOK
    <3> QED BY <3>2 DEF Cause
  <2>4. CASE OpenRefuse(k)
    BY <2>4, RefuseCaused
  <2> QED BY <1>3, <1>5, <2>1, <2>2, <2>3, <2>4
<1> QED BY <1>4, <1>5

\* A genuine frame is never lost to a forged one, to another copy being
\* opened meanwhile that then fails, or to the order frames come in.
THEOREM RefusalsJustified == Spec => RefusedForCause
<1>1. IInv /\ [Next]_vars =>
        [\A k \in Calls :
            calls[k] # None /\ calls'[k] = None /\ calls[k].genuine =>
                Cause(calls[k].frame)]_vars
  BY EndCaused
<1> QED BY <1>1, Inductive, PTL DEF Spec, RefusedForCause, Cause

=============================================================================
