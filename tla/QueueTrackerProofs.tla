------------------------- MODULE QueueTrackerProofs -------------------------
(***************************************************************************)
(* Proofs about QueueTracker, for every set of dispatchers, every policy   *)
(* and capacity, and any number of dispatches.                             *)
(***************************************************************************)
EXTENDS QueueTracker, CollectionsProofs

-----------------------------------------------------------------------------
(* Sequences.                                                              *)

LEMMA AppendFacts ==
    ASSUME NEW s \in Seq(Nat), NEW e \in Nat
    PROVE  /\ Append(s, e) \in Seq(Nat)
           /\ Len(Append(s, e)) = Len(s) + 1
           /\ Append(s, e)[Len(s) + 1] = e
           /\ \A i \in 1..Len(s) : Append(s, e)[i] = s[i]
  OBVIOUS

LEMMA TailFacts ==
    ASSUME NEW s \in Seq(Nat), s # <<>>
    PROVE  /\ Head(s) = s[1] /\ Head(s) \in Nat
           /\ Tail(s) \in Seq(Nat)
           /\ Len(Tail(s)) = Len(s) - 1
           /\ Len(s) >= 1
           /\ \A i \in 1..Len(Tail(s)) : Tail(s)[i] = s[i + 1]
  OBVIOUS

LEMMA ConcatFacts ==
    ASSUME NEW s \in Seq(Nat), NEW t \in Seq(Nat)
    PROVE  /\ s \o t \in Seq(Nat)
           /\ Len(s \o t) = Len(s) + Len(t)
           /\ \A i \in 1..Len(s) : (s \o t)[i] = s[i]
           /\ \A i \in 1..Len(t) : (s \o t)[Len(s) + i] = t[i]
  OBVIOUS

LEMMA EmptyFacts ==
    /\ <<>> \in Seq(Nat)
    /\ Len(<<>>) = 0
    /\ \A s \in Seq(Nat) : s = <<>> <=> Len(s) = 0
  OBVIOUS

LEMMA LengthFacts == ASSUME NEW s \in Seq(Nat)
    PROVE /\ Len(s) \in Nat
          /\ \A i \in 1..Len(s) : s[i] \in Nat
  OBVIOUS

LEMMA ElementsNat == ASSUME NEW s \in Seq(Nat) PROVE Elements(s) \subseteq Nat
  BY DEF Elements

LEMMA SameElements ==
    ASSUME NEW s \in Seq(Nat), NEW t \in Seq(Nat), Len(s) = Len(t),
           \A i \in 1..Len(s) : s[i] = t[i]
    PROVE  s = t
  OBVIOUS

LEMMA BeforeLast == ASSUME NEW n \in Nat
    PROVE \A i \in 1..n : i # n => i \in 1..(n - 1) /\ i + 1 \in 1..n
  OBVIOUS

-----------------------------------------------------------------------------
(* Types.                                                                  *)

\* Removing an id leaves a sequence of ids, whichever branch removes it.
LEMMA WithoutIdType ==
    ASSUME active \in Seq(Nat), NEW id \in Nat
    PROVE  WithoutId(id) \in Seq(Nat)
  <1>1. CASE active # <<>> /\ Head(active) = id
    BY <1>1, TailFacts DEF WithoutId
  <1>2. CASE ~(active # <<>> /\ Head(active) = id) /\ id \notin Elements(active)
    BY <1>2 DEF WithoutId
  <1>3. CASE ~(active # <<>> /\ Head(active) = id) /\ id \in Elements(active)
    <2> DEFINE position == CHOOSE p \in 1..Len(active) : active[p] = id
    <2>1. \E p \in 1..Len(active) : active[p] = id
      BY <1>3 DEF Elements
    <2>2. position \in 1..Len(active)
      BY <2>1
    <2> HIDE DEF position
    <2>3. /\ SubSeq(active, 1, position - 1) \in Seq(Nat)
          /\ SubSeq(active, position + 1, Len(active)) \in Seq(Nat)
      BY <2>2
    <2>4. QED
      BY <1>3, <2>3, ConcatFacts DEF WithoutId, position
  <1>4. QED
    BY <1>1, <1>2, <1>3

\* The step of an accepted offer keeps the types of what it changes.
LEMMA AcceptTypes ==
    ASSUME TypeOK, NEW d \in Dispatchers, NEW rest \in Seq(Nat),
           NEW restInbox \in Seq(Nat), Accept(d, rest, restInbox),
           dropped' \subseteq Nat, displaced' \in Seq(Nat)
    PROVE  TypeOK'
  <1>1. nextId' \in Nat /\ active' \in Seq(Nat) /\ inbox' \in Seq(Nat)
    BY AppendFacts DEF Accept, TypeOK
  <1>2. waker' \in BOOLEAN /\ waking' \subseteq Dispatchers
    BY DEF Accept, TypeOK
  <1>3. QED
    BY <1>1, <1>2 DEF Accept, TypeOK

LEMMA TypeInit == Init => TypeOK
  <1> SUFFICES ASSUME Init PROVE TypeOK
    OBVIOUS
  <1>1. policy \in QueuePolicies
    BY ConfigAssumption DEF Init
  <1>2. <<>> \in Seq(Nat)
    OBVIOUS
  <1>3. QED
    BY <1>1, <1>2 DEF Init, TypeOK

LEMMA TypeStep == TypeOK /\ [Next]_vars => TypeOK'
  <1> SUFFICES ASSUME TypeOK, [Next]_vars PROVE TypeOK'
    OBVIOUS
  <1>1. ASSUME NEW d \in Dispatchers, OfferRefused(d) PROVE TypeOK'
    BY <1>1 DEF TypeOK, OfferRefused, control
  <1>2. ASSUME NEW d \in Dispatchers, OfferAccepted(d) PROVE TypeOK'
    BY <1>2, AcceptTypes DEF TypeOK, OfferAccepted
  <1>3. ASSUME NEW d \in Dispatchers, OfferDisplacingWaiting(d) PROVE TypeOK'
    <2>1. /\ Tail(active) \in Seq(Nat) /\ Tail(inbox) \in Seq(Nat)
          /\ Head(active) \in Nat
      BY <1>3, TailFacts DEF TypeOK, OfferDisplacingWaiting, Displaces, OldestInInbox
    <2>2. displaced' \in Seq(Nat) /\ dropped' \subseteq Nat
      BY <1>3, <2>1, AppendFacts DEF TypeOK, OfferDisplacingWaiting
    <2>3. QED
      BY <1>3, <2>1, <2>2, AcceptTypes DEF OfferDisplacingWaiting
  <1>4. ASSUME NEW d \in Dispatchers, OfferDisplacingTaken(d) PROVE TypeOK'
    <2>1. Tail(active) \in Seq(Nat) /\ Head(active) \in Nat
      BY <1>4, TailFacts DEF TypeOK, OfferDisplacingTaken, Displaces
    <2>2. displaced' \in Seq(Nat) /\ dropped' \subseteq Nat
      BY <1>4, <2>1, AppendFacts DEF TypeOK, OfferDisplacingTaken
    <2>3. QED
      BY <1>4, <2>1, <2>2, AcceptTypes DEF OfferDisplacingTaken, TypeOK
  <1>5. ASSUME NEW d \in Dispatchers, Wake(d) PROVE TypeOK'
    BY <1>5 DEF TypeOK, Wake, control, history
  <1>6. CASE PollTake
    BY <1>6, ConcatFacts, EmptyFacts DEF TypeOK, PollTake, history
  <1>7. CASE PollTakeUndelivered
    BY <1>7, ElementsNat, EmptyFacts DEF TypeOK, PollTakeUndelivered
  <1>8. CASE PollPending
    BY <1>8 DEF TypeOK, PollPending, history
  <1>9. CASE BeginProcessing
    <2>1. Head(taken) \in Nat /\ Tail(taken) \in Seq(Nat)
      BY <1>9, TailFacts DEF TypeOK, BeginProcessing
    <2>2. ASSUME NEW id \in Nat PROVE WithoutId(id) \in Seq(Nat)
      BY <2>2, WithoutIdType DEF TypeOK
    <2>3. processed' \in Seq(Nat)
      BY <1>9, <2>1, AppendFacts DEF TypeOK, BeginProcessing
    <2>4. QED
      BY <1>9, <2>1, <2>2, <2>3 DEF TypeOK, BeginProcessing
  <1>10. CASE SkipDropped
    BY <1>10, TailFacts DEF TypeOK, SkipDropped, history
  <1>11. CASE InternalEnqueued
    BY <1>11 DEF TypeOK, InternalEnqueued, history
  <1>12. CASE InternalDequeued
    BY <1>12 DEF TypeOK, InternalDequeued, history
  <1>13. CASE Release
    BY <1>13 DEF TypeOK, Release, control, history
  <1>14. CASE Close
    BY <1>14, ElementsNat, EmptyFacts DEF TypeOK, Close
  <1>15. CASE UNCHANGED vars
    BY <1>15 DEF TypeOK, vars, control, history
  <1>16. QED
    BY <1>1, <1>2, <1>3, <1>4, <1>5, <1>6, <1>7, <1>8, <1>9, <1>10, <1>11, <1>12,
       <1>13, <1>14, <1>15 DEF Next, Offer, Poll, Drain

\* Every reachable state of the queue has the types TypeOK states.
THEOREM TypeCorrect == Spec => []TypeOK
  <1>1. QED
    BY TypeInit, TypeStep, PTL DEF Spec

-----------------------------------------------------------------------------
(* The windows.                                                            *)

\* An offer that displaces nothing moves the new end of active and of the inbox.
LEMMA AcceptedWindows ==
    ASSUME TypeOK, Windows, NEW d \in Dispatchers, OfferAccepted(d)
    PROVE  Windows'
  <1> USE DEF TypeOK
  <1>1. /\ nextId' = nextId + 1
        /\ active' = Append(active, nextId + 1)
        /\ inbox' = Append(inbox, nextId + 1)
        /\ UNCHANGED <<dropped, taken, receiver, program, closed, processed, displaced>>
    BY DEF OfferAccepted, Accept
  <1>2. /\ Len(active') = Len(active) + 1 /\ active'[Len(active) + 1] = nextId + 1
        /\ \A i \in 1..Len(active) : active'[i] = active[i]
    BY <1>1, AppendFacts
  <1>3. /\ Len(inbox') = Len(inbox) + 1 /\ inbox'[Len(inbox) + 1] = nextId + 1
        /\ \A i \in 1..Len(inbox) : inbox'[i] = inbox[i]
    BY <1>1, AppendFacts
  <1>4. LastSettled' = LastSettled /\ Stale' = Stale
    BY <1>1, <1>2, <1>3, LengthFacts DEF LastSettled, Stale
  <1>5. ActiveWindow'
    <2> USE DEF Windows, ActiveWindow, LastSettled
    <2>1. Len(inbox') <= Len(active') /\ Len(active') <= nextId'
      BY <1>1, <1>2, <1>3, LengthFacts
    <2>2. ASSUME NEW i \in 1..Len(active') PROVE active'[i] = nextId' - Len(active') + i
      BY <1>1, <1>2, LengthFacts
    <2>3. ASSUME NEW i \in 1..Len(inbox') PROVE inbox'[i] = nextId' - Len(inbox') + i
      BY <1>1, <1>3, LengthFacts
    <2>4. QED
      BY <2>1, <2>2, <2>3
  <1>6. TakenWindow'
    BY <1>1, <1>4 DEF Windows, TakenWindow
  <1>7. Lifecycle' /\ SettledInOrder'
    BY <1>1, <1>4 DEF Windows, Lifecycle, SettledInOrder, DispatchOrder
  <1>8. QED
    BY <1>5, <1>6, <1>7 DEF Windows

\* Appending the newest settled id keeps a history in order.
LEMMA AppendInOrder ==
    ASSUME NEW s \in Seq(Nat), NEW n \in Nat, NEW m \in Nat, m > n, Increasing(s),
           \A e \in Elements(s) : e <= n
    PROVE  /\ Increasing(Append(s, m))
           /\ \A e \in Elements(Append(s, m)) : e <= m
  <1>1. \A i \in 1..Len(s) : s[i] \in Nat /\ s[i] <= n
    BY LengthFacts DEF Elements
  <1>2. QED
    BY <1>1, AppendFacts, LengthFacts DEF Increasing, Elements

\* The front of a nonempty active is the oldest unsettled id.
LEMMA OldestActive ==
    ASSUME TypeOK, ActiveWindow, active # <<>>
    PROVE  /\ Len(active) >= 1 /\ LastSettled \in Nat
           /\ Head(active) = LastSettled + 1
           /\ Tail(active) \in Seq(Nat) /\ Len(Tail(active)) = Len(active) - 1
           /\ \A i \in 1..Len(Tail(active)) : Tail(active)[i] = LastSettled + 1 + i
  <1> USE DEF TypeOK, ActiveWindow
  <1>1. /\ Head(active) = active[1] /\ Len(active) >= 1
        /\ Tail(active) \in Seq(Nat) /\ Len(Tail(active)) = Len(active) - 1
        /\ \A i \in 1..Len(Tail(active)) : Tail(active)[i] = active[i + 1]
    BY TailFacts
  <1>2. LastSettled \in Nat
    BY LengthFacts DEF LastSettled
  <1>3. ASSUME NEW i \in 1..Len(Tail(active)) PROVE Tail(active)[i] = LastSettled + 1 + i
    BY <1>1, <1>2, LengthFacts
  <1>4. QED
    BY <1>1, <1>2, <1>3

\* The arithmetic of the windows.
LEMMA Numbers ==
    ASSUME TypeOK
    PROVE  /\ nextId \in Nat /\ Len(active) \in Nat /\ Len(inbox) \in Nat
           /\ Len(taken) \in Nat
           /\ active \in Seq(Nat) /\ inbox \in Seq(Nat) /\ taken \in Seq(Nat)
           /\ processed \in Seq(Nat) /\ displaced \in Seq(Nat)
           /\ \A i \in 1..Len(active) : active[i] \in Nat
           /\ \A i \in 1..Len(inbox) : inbox[i] \in Nat
           /\ \A i \in 1..Len(taken) : taken[i] \in Nat
  BY LengthFacts DEF TypeOK

\* What an offer that displaces the oldest message does to active.
LEMMA DisplacedActive ==
    ASSUME TypeOK, ActiveWindow, active # <<>>,
           nextId' = nextId + 1, active' = Append(Tail(active), nextId + 1)
    PROVE  /\ Len(active') = Len(active)
           /\ LastSettled' = LastSettled + 1
           /\ \A i \in 1..Len(active') : active'[i] = LastSettled' + i
  <1>1. /\ nextId \in Nat /\ Len(active) \in Nat /\ LastSettled \in Nat
        /\ Tail(active) \in Seq(Nat) /\ Len(Tail(active)) = Len(active) - 1
        /\ \A i \in 1..Len(Tail(active)) : Tail(active)[i] = LastSettled + 1 + i
    BY OldestActive, Numbers
  <1>2. nextId + 1 \in Nat
    BY <1>1
  <1>3. /\ Len(active') = Len(Tail(active)) + 1
        /\ active'[Len(Tail(active)) + 1] = nextId + 1
        /\ \A i \in 1..Len(Tail(active)) : active'[i] = Tail(active)[i]
    BY <1>1, <1>2, AppendFacts
  <1>4. /\ Len(active') = Len(active) /\ active'[Len(active)] = nextId + 1
        /\ \A i \in 1..(Len(active) - 1) : active'[i] = LastSettled + 1 + i
    BY <1>1, <1>3
  <1>5. LastSettled' = LastSettled + 1
    BY <1>1, <1>4 DEF LastSettled
  <1>6. LastSettled + 1 + Len(active) = nextId + 1
    BY <1>1 DEF LastSettled
  <1>7. ASSUME NEW i \in 1..Len(active') PROVE active'[i] = LastSettled' + i
    <2>1. CASE i = Len(active)
      BY <2>1, <1>4, <1>5, <1>6
    <2>2. CASE i # Len(active)
      <3>1. Len(active') = Len(active) /\ Len(active) \in Nat
        BY <1>1, <1>4
      <3>2. i \in 1..(Len(active) - 1)
        BY <2>2, <3>1, BeforeLast
      <3>3. QED
        BY <3>2, <1>4, <1>5
    <2>3. QED
      BY <2>1, <2>2
  <1>8. QED
    BY <1>4, <1>5, <1>7

\* What an accepted offer does to an inbox it takes nothing from.
LEMMA GrownInbox ==
    ASSUME TypeOK, ActiveWindow,
           nextId' = nextId + 1, inbox' = Append(inbox, nextId + 1)
    PROVE  /\ Len(inbox') = Len(inbox) + 1
           /\ \A i \in 1..Len(inbox') : inbox'[i] = nextId' - Len(inbox') + i
  <1>1. nextId \in Nat /\ Len(inbox) \in Nat /\ inbox \in Seq(Nat) /\ nextId + 1 \in Nat
    BY Numbers
  <1>2. /\ Len(inbox') = Len(inbox) + 1 /\ inbox'[Len(inbox) + 1] = nextId + 1
        /\ \A i \in 1..Len(inbox) : inbox'[i] = inbox[i]
    BY <1>1, AppendFacts
  <1>3. \A i \in 1..Len(inbox) : inbox[i] = nextId - Len(inbox) + i
    BY DEF ActiveWindow
  <1>4. ASSUME NEW i \in 1..Len(inbox') PROVE inbox'[i] = nextId' - Len(inbox') + i
    <2>1. CASE i = Len(inbox) + 1
      BY <2>1, <1>1, <1>2
    <2>2. CASE i # Len(inbox) + 1
      <3>1. i \in 1..Len(inbox)
        BY <2>2, <1>1, <1>2
      <3>2. QED
        BY <3>1, <1>1, <1>2, <1>3
    <2>3. QED
      BY <2>1, <2>2
  <1>5. QED
    BY <1>2, <1>4

\* What an accepted offer does to an inbox that gives up its oldest message.
LEMMA DisplacedInbox ==
    ASSUME TypeOK, ActiveWindow, inbox # <<>>,
           nextId' = nextId + 1, inbox' = Append(Tail(inbox), nextId + 1)
    PROVE  /\ Len(inbox') = Len(inbox) /\ Len(inbox) >= 1
           /\ Head(inbox) = nextId - Len(inbox) + 1
           /\ \A i \in 1..Len(inbox') : inbox'[i] = nextId' - Len(inbox') + i
  <1>1. nextId \in Nat /\ Len(inbox) \in Nat /\ inbox \in Seq(Nat) /\ nextId + 1 \in Nat
    BY Numbers
  <1>2. /\ Tail(inbox) \in Seq(Nat) /\ Len(Tail(inbox)) = Len(inbox) - 1
        /\ Len(inbox) >= 1 /\ Head(inbox) = inbox[1]
        /\ \A i \in 1..Len(Tail(inbox)) : Tail(inbox)[i] = inbox[i + 1]
    BY <1>1, TailFacts
  <1>3. /\ Len(inbox') = Len(Tail(inbox)) + 1
        /\ inbox'[Len(Tail(inbox)) + 1] = nextId + 1
        /\ \A i \in 1..Len(Tail(inbox)) : inbox'[i] = Tail(inbox)[i]
    BY <1>1, <1>2, AppendFacts
  <1>4. \A i \in 1..Len(inbox) : inbox[i] = nextId - Len(inbox) + i
    BY DEF ActiveWindow
  <1>5. /\ Len(inbox') = Len(inbox) /\ inbox'[Len(inbox)] = nextId + 1
        /\ \A i \in 1..(Len(inbox) - 1) : inbox'[i] = inbox[i + 1]
    BY <1>1, <1>2, <1>3
  <1>6. ASSUME NEW i \in 1..Len(inbox') PROVE inbox'[i] = nextId' - Len(inbox') + i
    <2>1. CASE i = Len(inbox)
      BY <2>1, <1>1, <1>5
    <2>2. CASE i # Len(inbox)
      <3>1. Len(inbox') = Len(inbox) /\ Len(inbox) \in Nat
        BY <1>1, <1>5
      <3>2. i \in 1..(Len(inbox) - 1) /\ i + 1 \in 1..Len(inbox)
        BY <2>2, <3>1, BeforeLast
      <3>3. inbox'[i] = inbox[i + 1] /\ inbox[i + 1] = nextId - Len(inbox) + (i + 1)
        BY <3>2, <1>4, <1>5
      <3>4. QED
        BY <3>1, <3>2, <3>3, <1>1
    <2>3. QED
      BY <2>1, <2>2
  <1>7. Head(inbox) = nextId - Len(inbox) + 1
    BY <1>1, <1>2, <1>4
  <1>8. QED
    BY <1>2, <1>5, <1>6, <1>7

\* The histories after a displacement.
LEMMA DisplacedInOrder ==
    ASSUME TypeOK, ActiveWindow, SettledInOrder, active # <<>>,
           displaced' = Append(displaced, Head(active)), processed' = processed,
           LastSettled' = LastSettled + 1
    PROVE  SettledInOrder'
  <1>1. LastSettled \in Nat /\ Head(active) = LastSettled + 1
    BY OldestActive
  <1>2. displaced \in Seq(Nat) /\ processed \in Seq(Nat)
    BY Numbers
  <1>3. /\ Increasing(displaced) /\ Increasing(processed)
        /\ \A e \in Elements(displaced) : e <= LastSettled
        /\ \A e \in Elements(processed) : e <= LastSettled
    BY DEF SettledInOrder, DispatchOrder
  <1>4. LastSettled + 1 \in Nat /\ LastSettled + 1 > LastSettled
    BY <1>1
  <1>5. /\ Increasing(displaced')
        /\ \A e \in Elements(displaced') : e <= LastSettled + 1
    BY <1>1, <1>2, <1>3, <1>4, AppendInOrder
  <1>6. ASSUME NEW e \in Elements(processed) PROVE e <= LastSettled + 1
    <2>1. e \in Nat /\ e <= LastSettled
      BY <1>2, <1>3, ElementsNat
    <2>2. QED
      BY <2>1, <1>1
  <1>7. QED
    BY <1>3, <1>5, <1>6 DEF SettledInOrder, DispatchOrder

\* The displaced message waits in the inbox: every taken message is stale then.
LEMMA DisplacingWaitingWindows ==
    ASSUME TypeOK, Windows, NEW d \in Dispatchers, OfferDisplacingWaiting(d)
    PROVE  Windows'
  <1>1. ActiveWindow /\ TakenWindow /\ Lifecycle /\ SettledInOrder
    BY DEF Windows
  <1>2. /\ nextId \in Nat /\ Len(active) \in Nat /\ Len(inbox) \in Nat /\ Len(taken) \in Nat
        /\ \A i \in 1..Len(taken) : taken[i] \in Nat
    BY Numbers
  <1>3. /\ active # <<>> /\ inbox # <<>> /\ Head(inbox) = Head(active)
        /\ nextId' = nextId + 1
        /\ active' = Append(Tail(active), nextId + 1)
        /\ inbox' = Append(Tail(inbox), nextId + 1)
        /\ displaced' = Append(displaced, Head(active))
        /\ UNCHANGED <<dropped, taken, receiver, program, closed, processed>>
    BY DEF OfferDisplacingWaiting, Accept, Displaces, OldestInInbox
  <1>4. /\ Len(active') = Len(active) /\ LastSettled' = LastSettled + 1
        /\ \A i \in 1..Len(active') : active'[i] = LastSettled' + i
    BY <1>1, <1>3, DisplacedActive
  <1>5. /\ Len(inbox') = Len(inbox) /\ Head(inbox) = nextId - Len(inbox) + 1
        /\ \A i \in 1..Len(inbox') : inbox'[i] = nextId' - Len(inbox') + i
    BY <1>1, <1>3, DisplacedInbox
  <1>6. LastSettled \in Nat /\ Head(active) = LastSettled + 1
    BY <1>1, <1>3, OldestActive
  <1>7. nextId' = nextId + 1 /\ taken' = taken /\ dropped' = dropped /\ receiver' = receiver
    BY <1>3
  <1>8. Len(inbox) = Len(active)
    <2>1. nextId - Len(inbox) + 1 = LastSettled + 1
      BY <1>3, <1>5, <1>6
    <2>2. QED
      BY <2>1, <1>2 DEF LastSettled
  <1>9. Stale' = Stale /\ Stale = Len(taken)
    BY <1>2, <1>4, <1>5, <1>7, <1>8 DEF Stale
  <1>10. ActiveWindow'
    <2>1. Len(inbox') <= Len(active') /\ Len(active') <= nextId'
      BY <1>1, <1>2, <1>4, <1>5, <1>7 DEF ActiveWindow
    <2>2. QED
      BY <2>1, <1>4, <1>5 DEF ActiveWindow
  <1>11. TakenWindow'
    <2>1. CASE receiver = "done"
      BY <2>1, <1>7 DEF TakenWindow
    <2>2. CASE receiver # "done"
      <3>1. /\ \A i \in 1..Len(taken) : taken[i] \in dropped /\ taken[i] <= LastSettled
            /\ \A e \in dropped : \E i \in 1..Stale : taken[i] = e
            /\ \A i, j \in 1..Stale : i < j => taken[i] < taken[j]
        BY <2>2, <1>1, <1>2, <1>9 DEF TakenWindow
      <3>2. \A i \in 1..Len(taken) : taken[i] <= LastSettled'
        BY <3>1, <1>2, <1>4, <1>6
      <3>3. Stale' >= 0 /\ \A i \in 1..Len(taken) : ~(i > Stale')
        BY <1>2, <1>9
      <3>4. QED
        BY <3>1, <3>2, <3>3, <1>7, <1>9 DEF TakenWindow
    <2>3. QED
      BY <2>1, <2>2
  <1>12. SettledInOrder'
    BY <1>1, <1>3, <1>4, DisplacedInOrder
  <1>13. Lifecycle'
    BY <1>1, <1>3 DEF Lifecycle
  <1>14. QED
    BY <1>10, <1>11, <1>12, <1>13 DEF Windows

\* The displaced message was taken: it is the first taken one that is not stale.
LEMMA DisplacingTakenWindows ==
    ASSUME TypeOK, Windows, NEW d \in Dispatchers, OfferDisplacingTaken(d)
    PROVE  Windows'
  <1>1. ActiveWindow /\ TakenWindow /\ Lifecycle /\ SettledInOrder
    BY DEF Windows
  <1>2. /\ nextId \in Nat /\ Len(active) \in Nat /\ Len(inbox) \in Nat /\ Len(taken) \in Nat
        /\ \A i \in 1..Len(taken) : taken[i] \in Nat
    BY Numbers
  <1>3. /\ active # <<>> /\ (inbox = <<>> \/ Head(inbox) # Head(active))
        /\ nextId' = nextId + 1
        /\ active' = Append(Tail(active), nextId + 1)
        /\ inbox' = Append(inbox, nextId + 1)
        /\ dropped' = dropped \cup {Head(active)}
        /\ displaced' = Append(displaced, Head(active))
        /\ UNCHANGED <<taken, receiver, program, closed, processed>>
    BY DEF OfferDisplacingTaken, Accept, Displaces, OldestInInbox
  <1>4. /\ Len(active') = Len(active) /\ LastSettled' = LastSettled + 1
        /\ \A i \in 1..Len(active') : active'[i] = LastSettled' + i
    BY <1>1, <1>3, DisplacedActive
  <1>5. /\ Len(inbox') = Len(inbox) + 1
        /\ \A i \in 1..Len(inbox') : inbox'[i] = nextId' - Len(inbox') + i
    BY <1>1, <1>3, GrownInbox
  <1>6. LastSettled \in Nat /\ Head(active) = LastSettled + 1 /\ Len(active) >= 1
    BY <1>1, <1>3, OldestActive
  <1>7. /\ nextId' = nextId + 1 /\ taken' = taken /\ receiver' = receiver
        /\ dropped' = dropped \cup {LastSettled + 1}
    BY <1>3, <1>6
  <1>8. Len(inbox) < Len(active)
    <2>1. CASE inbox = <<>>
      BY <2>1, <1>6
    <2>2. CASE inbox # <<>> /\ Head(inbox) # Head(active)
      <3>1. Head(inbox) = inbox[1] /\ Len(inbox) >= 1
        BY <2>2, Numbers, TailFacts
      <3>2. inbox[1] = nextId - Len(inbox) + 1 /\ Len(inbox) <= Len(active)
        BY <3>1, <1>1, <1>2 DEF ActiveWindow
      <3>3. nextId - Len(inbox) + 1 # LastSettled + 1
        BY <2>2, <3>1, <3>2, <1>6
      <3>4. QED
        BY <3>2, <3>3, <1>2 DEF LastSettled
    <2>3. QED
      BY <1>3, <2>1, <2>2
  <1>9. Stale' = Stale + 1 /\ Stale < Len(taken) /\ Stale \in Int
    BY <1>2, <1>4, <1>5, <1>7, <1>8 DEF Stale
  <1>10. ActiveWindow'
    <2>1. Len(inbox') <= Len(active') /\ Len(active') <= nextId'
      BY <1>1, <1>2, <1>4, <1>5, <1>7, <1>8 DEF ActiveWindow
    <2>2. QED
      BY <2>1, <1>4, <1>5 DEF ActiveWindow
  <1>11. TakenWindow'
    <2>1. CASE receiver = "done"
      BY <2>1, <1>7 DEF TakenWindow
    <2>2. CASE receiver # "done"
      <3>1. /\ Stale \in Nat
            /\ \A i \in 1..Len(taken) :
                 /\ i <= Stale => taken[i] \in dropped /\ taken[i] <= LastSettled
                 /\ i > Stale => taken[i] = LastSettled + (i - Stale)
            /\ \A e \in dropped : \E i \in 1..Stale : taken[i] = e
            /\ \A i, j \in 1..Stale : i < j => taken[i] < taken[j]
        BY <2>2, <1>1, <1>9 DEF TakenWindow
      <3>2. Stale + 1 \in 1..Len(taken) /\ taken[Stale + 1] = LastSettled + 1
        BY <3>1, <1>2, <1>6, <1>9
      <3>3. ASSUME NEW i \in 1..Len(taken)
            PROVE  /\ i <= Stale + 1 => taken[i] \in dropped' /\ taken[i] <= LastSettled + 1
                   /\ i > Stale + 1 => taken[i] = LastSettled + 1 + (i - (Stale + 1))
        <4>1. CASE i <= Stale
          BY <4>1, <3>1, <1>2, <1>6, <1>7
        <4>2. CASE i = Stale + 1
          BY <4>2, <3>1, <3>2, <1>2, <1>6, <1>7
        <4>3. CASE i > Stale + 1
          BY <4>3, <3>1, <1>2, <1>6
        <4>4. QED
          BY <4>1, <4>2, <4>3, <3>1, <1>2
      <3>4. ASSUME NEW e \in dropped' PROVE \E i \in 1..(Stale + 1) : taken[i] = e
        BY <3>1, <3>2, <1>7
      <3>5. ASSUME NEW i \in 1..(Stale + 1), NEW j \in 1..(Stale + 1), i < j
            PROVE  taken[i] < taken[j]
        <4>1. i \in 1..Stale /\ i \in 1..Len(taken) /\ j \in 1..Len(taken)
          BY <3>5, <3>1, <1>2, <1>9
        <4>2. CASE j \in 1..Stale
          BY <4>1, <4>2, <3>1, <3>5
        <4>3. CASE j = Stale + 1
          <5>1. taken[i] <= LastSettled /\ taken[i] \in Nat
            BY <4>1, <3>1, <1>2
          <5>2. QED
            BY <4>3, <5>1, <3>2, <1>6
        <4>4. QED
          BY <4>2, <4>3, <3>1
      <3>6. QED
        BY <3>1, <3>3, <3>4, <3>5, <1>4, <1>7, <1>9 DEF TakenWindow
    <2>3. QED
      BY <2>1, <2>2
  <1>12. SettledInOrder'
    BY <1>1, <1>3, <1>4, DisplacedInOrder
  <1>13. Lifecycle'
    BY <1>1, <1>3 DEF Lifecycle
  <1>14. QED
    BY <1>10, <1>11, <1>12, <1>13 DEF Windows

\* A step that leaves the three sequences and the histories alone keeps the windows,
\* whether or not the receive task ends.
LEMMA SameWindows ==
    ASSUME Windows, Lifecycle', receiver' # "done" => receiver # "done",
           UNCHANGED <<nextId, active, inbox, dropped, taken, processed, displaced>>
    PROVE  Windows'
  BY DEF Windows, ActiveWindow, TakenWindow, SettledInOrder, DispatchOrder, LastSettled,
         Stale

\* The task takes the whole inbox: the batch continues what was taken.
LEMMA PollTakeWindows ==
    ASSUME TypeOK, Windows, PollTake
    PROVE  Windows'
  <1>1. ActiveWindow /\ TakenWindow /\ Lifecycle /\ SettledInOrder
    BY DEF Windows
  <1>2. /\ nextId \in Nat /\ Len(active) \in Nat /\ Len(inbox) \in Nat /\ Len(taken) \in Nat
        /\ taken \in Seq(Nat) /\ inbox \in Seq(Nat)
    BY Numbers
  <1>3. /\ receiver # "done" /\ receiver' # "done"
        /\ taken' = taken \o inbox /\ inbox' = <<>>
        /\ UNCHANGED <<nextId, active, dropped, program, closed, processed, displaced>>
    BY DEF PollTake, Polls, history
  <1>4. /\ Len(taken') = Len(taken) + Len(inbox) /\ Len(inbox') = 0
        /\ \A i \in 1..Len(taken) : taken'[i] = taken[i]
        /\ \A i \in 1..Len(inbox) : taken'[Len(taken) + i] = inbox[i]
    BY <1>2, <1>3, ConcatFacts, EmptyFacts
  <1>5. LastSettled' = LastSettled /\ LastSettled = nextId - Len(active)
    BY <1>3 DEF LastSettled
  <1>6. Len(inbox) <= Len(active) /\ Len(active) <= nextId /\ LastSettled \in Nat
    BY <1>1, <1>2, <1>5 DEF ActiveWindow
  <1>7. Stale' = Stale /\ Stale = Len(taken) + Len(inbox) - Len(active)
    BY <1>2, <1>3, <1>4 DEF Stale
  <1>8. /\ Stale \in Nat /\ Stale <= Len(taken)
        /\ \A i \in 1..Len(taken) :
             /\ i <= Stale => taken[i] \in dropped /\ taken[i] <= LastSettled
             /\ i > Stale => taken[i] = LastSettled + (i - Stale)
        /\ \A e \in dropped : \E i \in 1..Stale : taken[i] = e
        /\ \A i, j \in 1..Stale : i < j => taken[i] < taken[j]
    BY <1>1, <1>2, <1>3, <1>6, <1>7 DEF TakenWindow
  <1>9. ActiveWindow'
    <2>1. Len(inbox') <= Len(active') /\ Len(active') <= nextId'
      BY <1>2, <1>3, <1>4, <1>6
    <2>2. \A i \in 1..Len(active') : active'[i] = LastSettled' + i
      BY <1>1, <1>3, <1>5 DEF ActiveWindow
    <2>3. QED
      BY <2>1, <2>2, <1>4 DEF ActiveWindow
  <1>10. ASSUME NEW i \in 1..Len(taken')
         PROVE  /\ i <= Stale => taken'[i] \in dropped /\ taken'[i] <= LastSettled
                /\ i > Stale => taken'[i] = LastSettled + (i - Stale)
    <2>1. i \in 1..(Len(taken) + Len(inbox))
      BY <1>4
    <2>2. CASE i \in 1..Len(taken)
      BY <2>2, <1>4, <1>8
    <2>3. CASE i \notin 1..Len(taken)
      <3>1. i > Stale /\ i - Len(taken) \in 1..Len(inbox)
            /\ i = Len(taken) + (i - Len(taken))
        <4>1. Stale \in Nat /\ Stale <= Len(taken)
          BY <1>8
        <4>2. QED
          BY <2>1, <2>3, <4>1, <1>2
      <3>2. taken'[i] = inbox[i - Len(taken)]
        BY <3>1, <1>4
      <3>3. inbox[i - Len(taken)] = nextId - Len(inbox) + (i - Len(taken))
        BY <3>1, <1>1 DEF ActiveWindow
      <3>4. nextId - Len(inbox) + (i - Len(taken)) = LastSettled + (i - Stale)
        BY <2>1, <1>2, <1>5, <1>7
      <3>5. QED
        BY <3>1, <3>2, <3>3, <3>4, <2>1, <1>2, <1>8
    <2>4. QED
      BY <2>2, <2>3
  <1>11. \A e \in dropped : \E i \in 1..Stale : taken'[i] = e
    <2>1. \A i \in 1..Stale : i \in 1..Len(taken) /\ taken'[i] = taken[i]
      BY <1>2, <1>4, <1>8
    <2>2. QED
      BY <2>1, <1>8
  <1>12. \A i, j \in 1..Stale : i < j => taken'[i] < taken'[j]
    <2>1. \A i \in 1..Stale : i \in 1..Len(taken) /\ taken'[i] = taken[i]
      BY <1>2, <1>4, <1>8
    <2>2. QED
      BY <2>1, <1>8
  <1>13. TakenWindow'
    <2>1. Stale' \in Nat /\ Stale' >= 0
      BY <1>7, <1>8
    <2>2. dropped' = dropped
      BY <1>3
    <2>3. QED
      BY <2>1, <2>2, <1>5, <1>7, <1>10, <1>11, <1>12 DEF TakenWindow
  <1>14. SettledInOrder' /\ Lifecycle'
    BY <1>1, <1>3, <1>5 DEF SettledInOrder, DispatchOrder, Lifecycle
  <1>15. QED
    BY <1>9, <1>13, <1>14 DEF Windows

\* The batch is lost with the program: the task is done, and only the inbox shrinks.
LEMMA PollTakeUndeliveredWindows ==
    ASSUME TypeOK, Windows, PollTakeUndelivered
    PROVE  Windows'
  <1>1. /\ receiver' = "done" /\ inbox' = <<>> /\ program = "released"
        /\ UNCHANGED <<nextId, active, program, closed, processed, displaced>>
    BY DEF PollTakeUndelivered
  <1>2. Len(inbox') = 0 /\ Len(active) \in Nat
    BY <1>1, Numbers, EmptyFacts
  <1>3. LastSettled' = LastSettled
    BY <1>1 DEF LastSettled
  <1>4. ActiveWindow'
    BY <1>1, <1>2, <1>3 DEF Windows, ActiveWindow
  <1>5. TakenWindow' /\ Lifecycle'
    BY <1>1 DEF Windows, TakenWindow, Lifecycle
  <1>6. SettledInOrder'
    BY <1>1, <1>3 DEF Windows, SettledInOrder, DispatchOrder
  <1>7. QED
    BY <1>4, <1>5, <1>6 DEF Windows

\* begin_processing of the front of active takes the first branch.
LEMMA WithoutOldest ==
    ASSUME active \in Seq(Nat), active # <<>>, NEW id, Head(active) = id
    PROVE  WithoutId(id) = Tail(active)
  <1>1. id \in Elements(active)
    BY TailFacts DEF Elements
  <1>2. QED
    BY <1>1 DEF WithoutId

\* A message that is not displaced is the oldest active one, and nothing is stale
\* then: begin_processing removes the front of active.
LEMMA ProcessedIsOldest ==
    ASSUME TypeOK, Windows, BeginProcessing
    PROVE  /\ receiver # "done" /\ Stale = 0 /\ dropped = {}
           /\ active # <<>> /\ Head(taken) = LastSettled + 1
           /\ active' = Tail(active)
           /\ \A i \in 1..Len(taken) : taken[i] = LastSettled + i
  <1>1. ActiveWindow /\ TakenWindow /\ Lifecycle
    BY DEF Windows
  <1>2. /\ nextId \in Nat /\ Len(active) \in Nat /\ Len(inbox) \in Nat /\ Len(taken) \in Nat
        /\ taken \in Seq(Nat) /\ active \in Seq(Nat)
        /\ \A i \in 1..Len(taken) : taken[i] \in Nat
    BY Numbers
  <1>3. /\ program = "mounted" /\ taken # <<>> /\ Head(taken) \notin dropped
        /\ active' = WithoutId(Head(taken))
    BY DEF BeginProcessing
  <1>4. Head(taken) = taken[1] /\ Len(taken) >= 1
    BY <1>2, <1>3, TailFacts
  <1>5. receiver # "done"
    BY <1>1, <1>3 DEF Lifecycle
  <1>6. /\ Stale >= 0 /\ Stale = Len(taken) + Len(inbox) - Len(active)
        /\ LastSettled = nextId - Len(active)
    BY <1>1, <1>5 DEF TakenWindow, Stale, LastSettled
  <1>7. /\ \A i \in 1..Len(taken) :
             /\ i <= Stale => taken[i] \in dropped
             /\ i > Stale => taken[i] = LastSettled + (i - Stale)
        /\ \A e \in dropped : \E i \in 1..Stale : taken[i] = e
    BY <1>1, <1>5 DEF TakenWindow
  <1>8. 1 \in 1..Len(taken) /\ taken[1] \notin dropped
    BY <1>2, <1>3, <1>4
  <1>9. ~(1 <= Stale)
    BY <1>7, <1>8
  <1>10. Stale = 0 /\ Len(active) >= 1
    BY <1>2, <1>4, <1>6, <1>9
  <1>11. dropped = {}
    BY <1>7, <1>10
  <1>12. \A i \in 1..Len(taken) : taken[i] = LastSettled + i
    <2>1. LastSettled \in Int
      BY <1>2, <1>6
    <2>2. QED
      BY <2>1, <1>7, <1>10, <1>2
  <1>13. active # <<>>
    BY <1>10, EmptyFacts
  <1>14. Head(taken) = LastSettled + 1 /\ Head(active) = LastSettled + 1
    BY <1>1, <1>4, <1>8, <1>12, <1>13, OldestActive
  <1>15. active' = Tail(active)
    BY <1>2, <1>3, <1>13, <1>14, WithoutOldest
  <1>16. QED
    BY <1>5, <1>10, <1>11, <1>12, <1>13, <1>14, <1>15

LEMMA BeginProcessingWindows ==
    ASSUME TypeOK, Windows, BeginProcessing
    PROVE  Windows'
  <1>1. ActiveWindow /\ TakenWindow /\ Lifecycle /\ SettledInOrder
    BY DEF Windows
  <1>2. /\ nextId \in Nat /\ Len(active) \in Nat /\ Len(inbox) \in Nat /\ Len(taken) \in Nat
        /\ taken \in Seq(Nat) /\ active \in Seq(Nat) /\ processed \in Seq(Nat)
        /\ displaced \in Seq(Nat)
    BY Numbers
  <1>3. /\ taken # <<>> /\ taken' = Tail(taken)
        /\ processed' = Append(processed, Head(taken))
        /\ UNCHANGED <<nextId, inbox, dropped, receiver, program, closed, displaced>>
    BY DEF BeginProcessing
  <1>4. /\ receiver # "done" /\ Stale = 0 /\ dropped = {}
        /\ active # <<>> /\ Head(taken) = LastSettled + 1 /\ active' = Tail(active)
        /\ \A i \in 1..Len(taken) : taken[i] = LastSettled + i
    BY ProcessedIsOldest
  <1>5. /\ LastSettled \in Nat /\ Len(active) >= 1
        /\ Len(active') = Len(active) - 1
        /\ \A i \in 1..Len(active') : active'[i] = LastSettled + 1 + i
    BY <1>1, <1>4, OldestActive
  <1>6. /\ Len(taken') = Len(taken) - 1 /\ Len(taken) >= 1
        /\ \A i \in 1..Len(taken') : taken'[i] = taken[i + 1]
    BY <1>2, <1>3, TailFacts
  <1>7. LastSettled' = LastSettled + 1 /\ LastSettled = nextId - Len(active)
    BY <1>2, <1>3, <1>5 DEF LastSettled
  <1>8. Stale = Len(taken) + Len(inbox) - Len(active)
    BY DEF Stale
  <1>9. Stale' = 0 /\ Len(inbox') = Len(inbox)
    BY <1>2, <1>3, <1>4, <1>5, <1>6, <1>8 DEF Stale
  <1>10. ActiveWindow'
    <2>1. Len(inbox') <= Len(active') /\ Len(active') <= nextId'
      BY <1>1, <1>2, <1>3, <1>4, <1>5, <1>6, <1>8, <1>9 DEF ActiveWindow
    <2>2. \A i \in 1..Len(active') : active'[i] = LastSettled' + i
      BY <1>5, <1>7
    <2>3. \A i \in 1..Len(inbox') : inbox'[i] = nextId' - Len(inbox') + i
      BY <1>1, <1>3, <1>9 DEF ActiveWindow
    <2>4. QED
      BY <2>1, <2>2, <2>3 DEF ActiveWindow
  <1>11. TakenWindow'
    <2>1. ASSUME NEW i \in 1..Len(taken') PROVE taken'[i] = LastSettled' + i
      <3>1. i \in Nat /\ i + 1 \in 1..Len(taken)
        BY <1>2, <1>6
      <3>2. taken'[i] = LastSettled + (i + 1)
        BY <3>1, <1>4, <1>6
      <3>3. QED
        BY <3>1, <3>2, <1>5, <1>7
    <2>2. \A i \in 1..Len(taken') : i \in Nat /\ ~(i <= 0) /\ i - 0 = i
      BY <1>2, <1>6
    <2>3. dropped' = {}
      BY <1>3, <1>4
    <2>4. \A i \in 1..0 : FALSE
      OBVIOUS
    <2>5. QED
      BY <2>1, <2>2, <2>3, <2>4, <1>9 DEF TakenWindow
  <1>12. SettledInOrder'
    <2>1. /\ Increasing(displaced) /\ Increasing(processed)
          /\ \A e \in Elements(displaced) : e <= LastSettled
          /\ \A e \in Elements(processed) : e <= LastSettled
      BY <1>1 DEF SettledInOrder, DispatchOrder
    <2>2. LastSettled + 1 \in Nat /\ LastSettled + 1 > LastSettled
      BY <1>5
    <2>3. /\ Increasing(processed')
          /\ \A e \in Elements(processed') : e <= LastSettled + 1
      BY <1>2, <1>3, <1>4, <1>5, <2>1, <2>2, AppendInOrder
    <2>4. ASSUME NEW e \in Elements(displaced) PROVE e <= LastSettled + 1
      <3>1. e \in Nat /\ e <= LastSettled
        BY <1>2, <2>1, ElementsNat
      <3>2. QED
        BY <3>1, <1>5
    <2>5. displaced' = displaced
      BY <1>3
    <2>6. QED
      BY <2>1, <2>3, <2>4, <2>5, <1>7 DEF SettledInOrder, DispatchOrder
  <1>13. Lifecycle'
    BY <1>1, <1>3 DEF Lifecycle
  <1>14. QED
    BY <1>10, <1>11, <1>12, <1>13 DEF Windows

\* The drain skips the first stale message; the others are newer, so they stay marked.
LEMMA SkipDroppedWindows ==
    ASSUME TypeOK, Windows, SkipDropped
    PROVE  Windows'
  <1>1. ActiveWindow /\ TakenWindow /\ Lifecycle /\ SettledInOrder
    BY DEF Windows
  <1>2. /\ nextId \in Nat /\ Len(active) \in Nat /\ Len(inbox) \in Nat /\ Len(taken) \in Nat
        /\ taken \in Seq(Nat) /\ \A i \in 1..Len(taken) : taken[i] \in Nat
    BY Numbers
  <1>3. /\ taken # <<>> /\ taken' = Tail(taken) /\ program = "mounted"
        /\ Head(taken) \in dropped /\ dropped' = dropped \ {Head(taken)}
        /\ UNCHANGED <<nextId, active, inbox, receiver, program, closed, processed,
                       displaced>>
    BY DEF SkipDropped, history
  <1>4. /\ Head(taken) = taken[1] /\ Len(taken) >= 1 /\ Len(taken') = Len(taken) - 1
        /\ \A i \in 1..Len(taken') : taken'[i] = taken[i + 1]
    BY <1>2, <1>3, TailFacts
  <1>5. receiver # "done"
    BY <1>1, <1>3 DEF Lifecycle
  <1>6. /\ Stale = Len(taken) + Len(inbox) - Len(active)
        /\ LastSettled = nextId - Len(active)
        /\ Len(inbox) <= Len(active) /\ Len(active) <= nextId
    BY <1>1 DEF Stale, LastSettled, ActiveWindow
  <1>7. /\ Stale >= 0
        /\ \A i \in 1..Len(taken) :
             /\ i <= Stale => taken[i] \in dropped /\ taken[i] <= LastSettled
             /\ i > Stale => taken[i] = LastSettled + (i - Stale)
        /\ \A e \in dropped : \E i \in 1..Stale : taken[i] = e
        /\ \A i, j \in 1..Stale : i < j => taken[i] < taken[j]
    BY <1>1, <1>5 DEF TakenWindow
  <1>8. LastSettled \in Nat /\ Stale \in Nat /\ Stale <= Len(taken)
    BY <1>2, <1>6, <1>7
  <1>9. Stale >= 1
    <2>1. PICK i \in 1..Stale : taken[i] = Head(taken)
      BY <1>3, <1>7
    <2>2. QED
      BY <2>1, <1>8
  <1>10. LastSettled' = LastSettled /\ Stale' = Stale - 1
    BY <1>2, <1>3, <1>4, <1>6 DEF LastSettled, Stale
  <1>11. ASSUME NEW i \in 1..Len(taken')
         PROVE  /\ i <= Stale - 1 => taken'[i] \in dropped' /\ taken'[i] <= LastSettled
                /\ i > Stale - 1 => taken'[i] = LastSettled + (i - (Stale - 1))
    <2>1. i \in Nat /\ i >= 1 /\ i + 1 \in 1..Len(taken)
      BY <1>2, <1>4
    <2>2. taken'[i] = taken[i + 1]
      BY <1>4
    <2>3. CASE i <= Stale - 1
      <3>1. i + 1 <= Stale /\ 1 \in 1..Stale /\ i + 1 \in 1..Stale /\ 1 < i + 1
            /\ 1 \in 1..Len(taken) /\ ~(i > Stale - 1)
        BY <2>1, <2>3, <1>2, <1>8, <1>9
      <3>2. taken[i + 1] \in dropped /\ taken[i + 1] <= LastSettled
        BY <3>1, <2>1, <1>7
      <3>3. taken[1] < taken[i + 1] /\ taken[1] \in Nat /\ taken[i + 1] \in Nat
        BY <3>1, <2>1, <1>2, <1>7
      <3>4. taken[i + 1] # Head(taken)
        BY <3>3, <1>4
      <3>5. QED
        BY <3>1, <3>2, <3>4, <2>2, <1>3
    <2>4. CASE ~(i <= Stale - 1)
      <3>1. i + 1 > Stale /\ i - (Stale - 1) = (i + 1) - Stale
        BY <2>1, <2>4, <1>8
      <3>2. taken[i + 1] = LastSettled + ((i + 1) - Stale)
        BY <3>1, <2>1, <1>7
      <3>3. QED
        BY <3>1, <3>2, <2>2, <2>4
    <2>5. QED
      BY <2>3, <2>4
  <1>12. ASSUME NEW e \in dropped' PROVE \E i \in 1..(Stale - 1) : taken'[i] = e
    <2>1. e \in dropped /\ e # taken[1]
      BY <1>3, <1>4
    <2>2. PICK i \in 1..Stale : taken[i] = e
      BY <2>1, <1>7
    <2>3. i # 1
      BY <2>1, <2>2
    <2>4. i - 1 \in 1..(Stale - 1) /\ i - 1 \in 1..Len(taken') /\ (i - 1) + 1 = i
      BY <2>3, <1>2, <1>4, <1>8
    <2>5. taken'[i - 1] = e
      BY <2>2, <2>4, <1>4
    <2>6. QED
      BY <2>4, <2>5
  <1>13. ASSUME NEW i \in 1..(Stale - 1), NEW j \in 1..(Stale - 1), i < j
         PROVE  taken'[i] < taken'[j]
    <2>1. /\ i \in 1..Len(taken') /\ j \in 1..Len(taken')
          /\ i + 1 \in 1..Stale /\ j + 1 \in 1..Stale /\ i + 1 < j + 1
      BY <1>13, <1>2, <1>4, <1>8
    <2>2. QED
      BY <2>1, <1>4, <1>7
  <1>14. TakenWindow'
    <2>1. Stale' >= 0
      BY <1>8, <1>9, <1>10
    <2>2. QED
      BY <2>1, <1>10, <1>11, <1>12, <1>13 DEF TakenWindow
  <1>15. ActiveWindow' /\ SettledInOrder' /\ Lifecycle'
    BY <1>1, <1>3, <1>10 DEF ActiveWindow, SettledInOrder, DispatchOrder, Lifecycle
  <1>16. QED
    BY <1>14, <1>15 DEF Windows

\* Close empties the queue: everything accepted is settled.
LEMMA CloseWindows ==
    ASSUME TypeOK, Windows, Close
    PROVE  Windows'
  <1>1. ActiveWindow /\ SettledInOrder
    BY DEF Windows
  <1>2. /\ nextId \in Nat /\ Len(active) \in Nat /\ processed \in Seq(Nat)
        /\ displaced \in Seq(Nat)
    BY Numbers
  <1>3. /\ active' = <<>> /\ inbox' = <<>> /\ receiver' = "done"
        /\ program' = "dropped" /\ closed' = TRUE
        /\ UNCHANGED <<nextId, processed, displaced>>
    BY DEF Close
  <1>4. Len(active') = 0 /\ Len(inbox') = 0
    BY <1>3, EmptyFacts
  <1>5. LastSettled' = nextId /\ LastSettled = nextId - Len(active)
    BY <1>2, <1>3, <1>4 DEF LastSettled
  <1>6. ActiveWindow' /\ TakenWindow' /\ Lifecycle'
    BY <1>2, <1>3, <1>4 DEF ActiveWindow, TakenWindow, Lifecycle
  <1>7. ASSUME NEW e \in Elements(processed) \cup Elements(displaced) PROVE e <= nextId
    <2>1. e \in Nat /\ e <= LastSettled
      BY <1>1, <1>2, ElementsNat DEF SettledInOrder
    <2>2. QED
      BY <2>1, <1>2, <1>5
  <1>8. SettledInOrder'
    BY <1>1, <1>3, <1>5, <1>7 DEF SettledInOrder, DispatchOrder
  <1>9. QED
    BY <1>6, <1>8 DEF Windows

LEMMA WindowsInit == Init => Windows
  <1> SUFFICES ASSUME Init PROVE Windows
    OBVIOUS
  <1>1. Len(active) = 0 /\ Len(inbox) = 0 /\ Len(taken) = 0 /\ nextId = 0
    BY EmptyFacts DEF Init
  <1>2. Elements(processed) = {} /\ Elements(displaced) = {}
    BY EmptyFacts DEF Init, Elements
  <1>3. Increasing(processed) /\ Increasing(displaced)
    BY EmptyFacts DEF Init, Increasing
  <1>4. ActiveWindow
    BY <1>1 DEF ActiveWindow
  <1>5. TakenWindow /\ Lifecycle
    BY <1>1 DEF Init, TakenWindow, Stale, Lifecycle
  <1>6. SettledInOrder
    BY <1>2, <1>3 DEF SettledInOrder, DispatchOrder
  <1>7. QED
    BY <1>4, <1>5, <1>6 DEF Windows

LEMMA WindowsStep == TypeOK /\ Windows /\ [Next]_vars => Windows'
  <1> SUFFICES ASSUME TypeOK, Windows, [Next]_vars PROVE Windows'
    OBVIOUS
  <1>1. ASSUME NEW d \in Dispatchers, OfferRefused(d) PROVE Windows'
    BY <1>1, SameWindows DEF OfferRefused, control, Windows, Lifecycle
  <1>2. ASSUME NEW d \in Dispatchers, OfferAccepted(d) PROVE Windows'
    BY <1>2, AcceptedWindows
  <1>3. ASSUME NEW d \in Dispatchers, OfferDisplacingWaiting(d) PROVE Windows'
    BY <1>3, DisplacingWaitingWindows
  <1>4. ASSUME NEW d \in Dispatchers, OfferDisplacingTaken(d) PROVE Windows'
    BY <1>4, DisplacingTakenWindows
  <1>5. ASSUME NEW d \in Dispatchers, Wake(d) PROVE Windows'
    BY <1>5, SameWindows DEF Wake, control, history, Windows, Lifecycle
  <1>6. CASE PollTake
    BY <1>6, PollTakeWindows
  <1>7. CASE PollTakeUndelivered
    BY <1>7, PollTakeUndeliveredWindows
  <1>8. CASE PollPending
    BY <1>8, SameWindows DEF PollPending, Polls, history, Windows, Lifecycle
  <1>9. CASE BeginProcessing
    BY <1>9, BeginProcessingWindows
  <1>10. CASE SkipDropped
    BY <1>10, SkipDroppedWindows
  <1>11. CASE InternalEnqueued
    BY <1>11, SameWindows DEF InternalEnqueued, history, Windows, Lifecycle
  <1>12. CASE InternalDequeued
    BY <1>12, SameWindows DEF InternalDequeued, history, Windows, Lifecycle
  <1>13. CASE Release
    BY <1>13, SameWindows DEF Release, control, history, Windows, Lifecycle
  <1>14. CASE Close
    BY <1>14, CloseWindows
  <1>15. CASE UNCHANGED vars
    BY <1>15, SameWindows DEF vars, control, history, Windows, Lifecycle
  <1>16. QED
    BY <1>1, <1>2, <1>3, <1>4, <1>5, <1>6, <1>7, <1>8, <1>9, <1>10, <1>11, <1>12,
       <1>13, <1>14, <1>15 DEF Next, Offer, Poll, Drain

\* active is an interval of ids, the inbox its newest part, and what the program took
\* the rest of it behind the messages displaced since, for every number of dispatches.
THEOREM WindowsHold == Spec => []Windows
  <1>1. QED
    BY TypeInit, TypeStep, WindowsInit, WindowsStep, PTL DEF Spec

\* Whatever is displaced or taken in between, the inbox is the newest suffix of active.
THEOREM InboxSuffix == Spec => []InboxIsNewestSuffix
  <1>1. TypeOK /\ Windows => InboxIsNewestSuffix
    <2> SUFFICES ASSUME TypeOK, Windows PROVE InboxIsNewestSuffix
      OBVIOUS
    <2>1. /\ Len(inbox) <= Len(active)
          /\ \A i \in 1..Len(active) : active[i] = nextId - Len(active) + i
          /\ \A i \in 1..Len(inbox) : inbox[i] = nextId - Len(inbox) + i
      BY DEF Windows, ActiveWindow, LastSettled
    <2>2. /\ nextId \in Nat /\ Len(active) \in Nat /\ Len(inbox) \in Nat
          /\ active \in Seq(Nat) /\ inbox \in Seq(Nat)
      BY Numbers
    <2> DEFINE suffix == SubSeq(active, Len(active) - Len(inbox) + 1, Len(active))
    <2>3. /\ suffix \in Seq(Nat) /\ Len(suffix) = Len(inbox)
          /\ \A i \in 1..Len(inbox) : suffix[i] = active[Len(active) - Len(inbox) + i]
      BY <2>1, <2>2
    <2>4. ASSUME NEW i \in 1..Len(inbox) PROVE suffix[i] = inbox[i]
      <3>1. Len(active) - Len(inbox) + i \in 1..Len(active)
        BY <2>1, <2>2
      <3>2. suffix[i] = nextId - Len(active) + (Len(active) - Len(inbox) + i)
        BY <3>1, <2>1, <2>3
      <3>3. inbox[i] = nextId - Len(inbox) + i
        BY <2>1
      <3>4. QED
        BY <3>2, <3>3, <2>2
    <2> HIDE DEF suffix
    <2>5. suffix = inbox
      BY <2>2, <2>3, <2>4, SameElements
    <2>6. QED
      BY <2>1, <2>5 DEF InboxIsNewestSuffix, suffix
  <1>2. QED
    BY <1>1, TypeCorrect, WindowsHold, PTL

\* Messages are processed, and displaced, in dispatch order and at most once each.
THEOREM OrderKept == Spec => []DispatchOrder
  <1>1. Windows => DispatchOrder
    BY DEF Windows, SettledInOrder
  <1>2. QED
    BY <1>1, WindowsHold, PTL

-----------------------------------------------------------------------------
(* The bound, the wakeups, and what is displaced.                          *)

LEMMA CapacityStep ==
    TypeOK /\ Windows /\ CapacityRespected /\ [Next]_vars => CapacityRespected'
  <1> SUFFICES ASSUME TypeOK, Windows, CapacityRespected, [Next]_vars
               PROVE  CapacityRespected'
    OBVIOUS
  <1>1. /\ Len(active) \in Nat /\ active \in Seq(Nat) /\ nextId + 1 \in Nat
        /\ policy \in QueuePolicies /\ policy.capacity \in Nat
        /\ policy.kind \in {"Unbounded", "RejectNew", "DropNewest", "DropOldest"}
    BY Numbers DEF TypeOK, QueuePolicies
  <1>2. ASSUME Len(active') \in Nat, Len(active') <= Len(active), policy' = policy
        PROVE  CapacityRespected'
    <2>1. Bound' = Bound /\ Bound \in Nat
      BY <1>1, <1>2 DEF Bound
    <2>2. QED
      BY <2>1, <1>1, <1>2 DEF CapacityRespected
  <1>3. ASSUME NEW d \in Dispatchers, OfferRefused(d) PROVE CapacityRespected'
    <2>1. active' = active /\ policy' = policy
      BY <1>3 DEF OfferRefused, control
    <2>2. QED
      BY <2>1, <1>1, <1>2
  <1>4. ASSUME NEW d \in Dispatchers, OfferAccepted(d) PROVE CapacityRespected'
    <2>1. /\ ~Refuses /\ ~Displaces
          /\ active' = Append(active, nextId + 1) /\ policy' = policy
      BY <1>4 DEF OfferAccepted, Accept
    <2>2. Len(active') = Len(active) + 1
      BY <2>1, <1>1, AppendFacts
    <2>3. ASSUME policy.kind # "Unbounded" PROVE Len(active) + 1 <= Bound
      <3>1. CASE Len(active) >= policy.capacity
        <4>1. policy.kind = "DropOldest" /\ active = <<>>
          BY <2>1, <2>3, <3>1, <1>1 DEF Refuses, Displaces, AtCapacity
        <4>2. Len(active) = 0 /\ policy.capacity = 0
          BY <3>1, <4>1, <1>1
        <4>3. QED
          BY <4>1, <4>2 DEF Bound
      <3>2. CASE ~(Len(active) >= policy.capacity)
        BY <3>2, <1>1 DEF Bound
      <3>3. QED
        BY <3>1, <3>2
    <2>4. Bound' = Bound
      BY <2>1 DEF Bound
    <2>5. QED
      BY <2>1, <2>2, <2>3, <2>4 DEF CapacityRespected
  <1>5. ASSUME NEW d \in Dispatchers,
               OfferDisplacingWaiting(d) \/ OfferDisplacingTaken(d)
        PROVE  CapacityRespected'
    <2>1. /\ active # <<>> /\ active' = Append(Tail(active), nextId + 1)
          /\ policy' = policy
      BY <1>5 DEF OfferDisplacingWaiting, OfferDisplacingTaken, Accept, Displaces
    <2>2. Tail(active) \in Seq(Nat) /\ Len(Tail(active)) = Len(active) - 1
      BY <2>1, <1>1, TailFacts
    <2>3. Len(active') = Len(active)
      BY <2>1, <2>2, <1>1, AppendFacts
    <2>4. QED
      BY <2>1, <2>3, <1>1, <1>2
  <1>6. CASE BeginProcessing
    <2>1. active # <<>> /\ active' = Tail(active) /\ policy' = policy
      BY <1>6, ProcessedIsOldest DEF BeginProcessing
    <2>2. Len(active') = Len(active) - 1 /\ Len(active) >= 1
      BY <2>1, <1>1, TailFacts
    <2>3. QED
      BY <2>1, <2>2, <1>1, <1>2
  <1>7. CASE Close
    <2>1. active' = <<>> /\ policy' = policy
      BY <1>7 DEF Close
    <2>2. Len(active') = 0
      BY <2>1, EmptyFacts
    <2>3. QED
      BY <2>1, <2>2, <1>1, <1>2
  <1>8. ASSUME UNCHANGED <<active, policy>> PROVE CapacityRespected'
    BY <1>8, <1>1, <1>2
  <1>9. CASE \E d \in Dispatchers : Wake(d)
    BY <1>8, <1>9 DEF Wake, control
  <1>10. CASE Poll
    BY <1>8, <1>10 DEF Poll, PollTake, PollTakeUndelivered, PollPending
  <1>11. CASE SkipDropped
    BY <1>8, <1>11 DEF SkipDropped
  <1>12. CASE InternalEnqueued \/ InternalDequeued
    BY <1>8, <1>12 DEF InternalEnqueued, InternalDequeued
  <1>13. CASE Release
    BY <1>8, <1>13 DEF Release, control
  <1>14. CASE UNCHANGED vars
    BY <1>8, <1>14 DEF vars, control
  <1>15. QED
    BY <1>3, <1>4, <1>5, <1>6, <1>7, <1>9, <1>10, <1>11, <1>12, <1>13, <1>14
       DEF Next, Offer, Drain

\* The policy's bound holds for every capacity, whichever dispatchers race.
THEOREM CapacityKept == Spec => []CapacityRespected
  <1>1. Init => CapacityRespected
    <2> SUFFICES ASSUME Init PROVE CapacityRespected
      OBVIOUS
    <2>1. Len(active) = 0
      BY EmptyFacts DEF Init
    <2>2. policy.capacity \in Nat
      BY ConfigAssumption DEF Init, QueuePolicies
    <2>3. QED
      BY <2>1, <2>2 DEF CapacityRespected, Bound
  <1>2. QED
    BY <1>1, CapacityStep, TypeCorrect, WindowsHold, PTL DEF Spec

LEMMA WakeupStep == NoLostWakeup /\ [Next]_vars => NoLostWakeup'
  <1> SUFFICES ASSUME NoLostWakeup, [Next]_vars PROVE NoLostWakeup'
    OBVIOUS
  <1>1. ASSUME NEW d \in Dispatchers, NEW rest, NEW restInbox, ~Refuses,
               Accept(d, rest, restInbox)
        PROVE  NoLostWakeup'
    BY <1>1 DEF NoLostWakeup, Accept, Refuses
  <1>2. ASSUME NEW d \in Dispatchers, OfferAccepted(d) PROVE NoLostWakeup'
    BY <1>1, <1>2 DEF OfferAccepted
  <1>3. ASSUME NEW d \in Dispatchers, OfferDisplacingWaiting(d) PROVE NoLostWakeup'
    BY <1>1, <1>3 DEF OfferDisplacingWaiting
  <1>4. ASSUME NEW d \in Dispatchers, OfferDisplacingTaken(d) PROVE NoLostWakeup'
    BY <1>1, <1>4 DEF OfferDisplacingTaken
  <1>5. ASSUME receiver' # "parked" PROVE NoLostWakeup'
    BY <1>5 DEF NoLostWakeup
  <1>6. ASSUME NEW d \in Dispatchers, Wake(d) PROVE NoLostWakeup'
    BY <1>5, <1>6 DEF Wake
  <1>7. CASE PollTake \/ PollTakeUndelivered \/ Close
    BY <1>5, <1>7 DEF PollTake, PollTakeUndelivered, Close
  <1>8. CASE PollPending
    BY <1>8 DEF PollPending, NoLostWakeup
  <1>9. ASSUME UNCHANGED <<receiver, inbox, waking, waker, closed>> PROVE NoLostWakeup'
    BY <1>9 DEF NoLostWakeup
  <1>10. ASSUME NEW d \in Dispatchers, OfferRefused(d) PROVE NoLostWakeup'
    BY <1>9, <1>10 DEF OfferRefused, control
  <1>11. CASE Drain
    BY <1>9, <1>11 DEF Drain, BeginProcessing, SkipDropped
  <1>12. CASE InternalEnqueued \/ InternalDequeued
    BY <1>9, <1>12 DEF InternalEnqueued, InternalDequeued
  <1>13. CASE Release
    BY <1>9, <1>13 DEF Release, control
  <1>14. CASE UNCHANGED vars
    BY <1>9, <1>14 DEF vars, control
  <1>15. QED
    BY <1>2, <1>3, <1>4, <1>6, <1>7, <1>8, <1>10, <1>11, <1>12, <1>13, <1>14
       DEF Next, Offer, Poll

\* No message waits in the inbox of a parked receive task that nobody will wake,
\* whatever the number of dispatchers.
THEOREM WakeupKept == Spec => []NoLostWakeup
  <1>1. Init => NoLostWakeup
    BY DEF Init, NoLostWakeup
  <1>2. QED
    BY <1>1, WakeupStep, PTL DEF Spec

\* What DropOldest gives up is older than everything that waits, and newer than
\* everything processed.
THEOREM OldestDisplaced == Spec => DisplacesOldest
  <1> DEFINE lost == displaced'[Len(displaced')]
             OldestLost == /\ \A e \in Elements(active') : lost < e
                           /\ \A e \in Elements(processed) : e < lost
  <1>1. TypeOK /\ Windows /\ [Next]_vars => [displaced' # displaced => OldestLost]_vars
    <2> SUFFICES ASSUME TypeOK, Windows, [Next]_vars, displaced' # displaced
                 PROVE  OldestLost
      OBVIOUS
    <2>1. PICK d \in Dispatchers : OfferDisplacingWaiting(d) \/ OfferDisplacingTaken(d)
      BY DEF Next, Offer, Poll, Drain, vars, control, history, OfferRefused,
             OfferAccepted, Accept, Wake, PollTake, PollTakeUndelivered, PollPending,
             BeginProcessing, SkipDropped, InternalEnqueued, InternalDequeued, Release,
             Close
    <2>2. /\ active # <<>> /\ nextId' = nextId + 1
          /\ active' = Append(Tail(active), nextId + 1)
          /\ displaced' = Append(displaced, Head(active))
      BY <2>1 DEF OfferDisplacingWaiting, OfferDisplacingTaken, Accept, Displaces
    <2>3. ActiveWindow /\ SettledInOrder
      BY DEF Windows
    <2>4. LastSettled \in Nat /\ Head(active) = LastSettled + 1
      BY <2>2, <2>3, OldestActive
    <2>5. /\ LastSettled' = LastSettled + 1 /\ Len(active') = Len(active)
          /\ \A i \in 1..Len(active') : active'[i] = LastSettled' + i
      BY <2>2, <2>3, DisplacedActive
    <2>6. lost = LastSettled + 1
      <3>1. displaced \in Seq(Nat) /\ Head(active) \in Nat
        BY <2>4, Numbers
      <3>2. QED
        BY <3>1, <2>2, <2>4, AppendFacts
    <2> HIDE DEF lost
    <2>7. ASSUME NEW e \in Elements(active') PROVE lost < e
      <3>1. PICK i \in 1..Len(active') : e = active'[i]
        BY DEF Elements
      <3>2. i >= 1 /\ i \in Nat /\ e = LastSettled + 1 + i
        BY <3>1, <2>5, Numbers
      <3>3. QED
        BY <3>2, <2>4, <2>6
    <2>8. ASSUME NEW e \in Elements(processed) PROVE e < lost
      <3>1. e \in Nat /\ e <= LastSettled
        BY <2>3, Numbers, ElementsNat DEF SettledInOrder
      <3>2. QED
        BY <3>1, <2>4, <2>6
    <2>9. QED
      BY <2>7, <2>8
  <1>2. QED
    BY <1>1, TypeCorrect, WindowsHold, PTL DEF Spec, DisplacesOldest

-----------------------------------------------------------------------------
(* Accounting.                                                             *)

\* What the program will not skip is the newest part of what it took.
LEMMA UnskippedTaken ==
    ASSUME TypeOK, Windows, receiver # "done"
    PROVE  /\ Stale \in 0..Len(taken)
           /\ Only(taken, Nat \ dropped) = SubSeq(taken, Stale + 1, Len(taken))
  <1> DEFINE skipped == SubSeq(taken, 1, Stale)
             kept == SubSeq(taken, Stale + 1, Len(taken))
             S == Nat \ dropped
  <1>1. /\ Len(taken) \in Nat /\ Len(active) \in Nat /\ Len(inbox) \in Nat
        /\ nextId \in Nat /\ taken \in Seq(Nat)
        /\ \A i \in 1..Len(taken) : taken[i] \in Nat
    BY Numbers
  <1>2. /\ Stale >= 0 /\ Stale = Len(taken) + Len(inbox) - Len(active)
        /\ Len(inbox) <= Len(active) /\ LastSettled = nextId - Len(active)
        /\ Len(active) <= nextId
    BY DEF Windows, ActiveWindow, TakenWindow, Stale, LastSettled
  <1>3. /\ \A i \in 1..Len(taken) :
             /\ i <= Stale => taken[i] \in dropped /\ taken[i] <= LastSettled
             /\ i > Stale => taken[i] = LastSettled + (i - Stale)
        /\ \A e \in dropped : \E i \in 1..Stale : taken[i] = e
    BY DEF Windows, TakenWindow
  <1>4. Stale \in 0..Len(taken) /\ LastSettled \in Nat
    BY <1>1, <1>2
  <1>5. /\ skipped \in Seq(Nat) /\ Len(skipped) = Stale
        /\ \A i \in 1..Stale : skipped[i] = taken[i]
    BY <1>1, <1>4
  <1>6. /\ kept \in Seq(Nat) /\ Len(kept) = Len(taken) - Stale
        /\ \A i \in 1..(Len(taken) - Stale) : kept[i] = taken[Stale + i]
    BY <1>1, <1>4
  <1>7. taken = skipped \o kept
    <2> HIDE DEF skipped, kept
    <2>1. /\ skipped \o kept \in Seq(Nat)
          /\ Len(skipped \o kept) = Len(skipped) + Len(kept)
          /\ \A i \in 1..Len(skipped) : (skipped \o kept)[i] = skipped[i]
          /\ \A i \in 1..Len(kept) : (skipped \o kept)[Len(skipped) + i] = kept[i]
      BY <1>5, <1>6, ConcatFacts
    <2>2. ASSUME NEW i \in 1..Len(taken) PROVE taken[i] = (skipped \o kept)[i]
      <3>1. CASE i \in 1..Stale
        BY <3>1, <2>1, <1>5
      <3>2. CASE i \notin 1..Stale
        <4>1. i - Stale \in 1..(Len(taken) - Stale) /\ i = Stale + (i - Stale)
          BY <3>2, <1>1, <1>4
        <4>2. QED
          BY <4>1, <2>1, <1>5, <1>6
      <3>3. QED
        BY <3>1, <3>2
    <2>3. Len(skipped \o kept) = Len(taken)
      BY <2>1, <1>1, <1>4, <1>5, <1>6
    <2>4. QED
      BY <2>1, <2>2, <2>3, <1>1, SameElements
  <1>8. Only(skipped, S) = <<>>
    <2>1. skipped \in Seq(dropped)
      BY <1>1, <1>3, <1>4, <1>5
    <2>2. dropped \cap S = {}
      OBVIOUS
    <2> HIDE DEF skipped, S
    <2>3. QED
      BY <2>1, <2>2, OnlyNone
  <1>9. Only(kept, S) = kept
    <2> HIDE DEF kept
    <2>1. ASSUME NEW i \in 1..Len(kept) PROVE kept[i] \in S
      <3> DEFINE j == Stale + i
      <3>1. /\ j \in 1..Len(taken) /\ j > Stale /\ j - Stale = i
            /\ i \in 1..(Len(taken) - Stale) /\ i \in Nat /\ i >= 1
        BY <1>1, <1>4, <1>6
      <3>2. kept[i] = taken[j]
        BY <3>1, <1>6
      <3> HIDE DEF j
      <3>3. taken[j] = LastSettled + i
        BY <3>1, <1>3
      <3>4. kept[i] > LastSettled /\ kept[i] \in Nat
        BY <3>1, <3>2, <3>3, <1>4
      <3>5. \A e \in dropped : e \in Nat /\ e <= LastSettled
        <4>1. \A n \in 1..Stale : n \in 1..Len(taken) /\ n <= Stale
          BY <1>1, <1>4
        <4>2. QED
          BY <4>1, <1>1, <1>3
      <3>6. QED
        BY <3>4, <3>5, <1>4
    <2> HIDE DEF S
    <2>2. kept \in Seq(S)
      BY <2>1, <1>6
    <2>3. QED
      BY <2>2, OnlyAll
  <1>10. Only(skipped \o kept, S) = Only(skipped, S) \o Only(kept, S)
    <2> HIDE DEF skipped, kept, S
    <2>1. QED
      BY <1>5, <1>6, OnlyConcat
  <1>11. <<>> \o kept = kept
    <2> HIDE DEF kept
    <2>1. QED
      BY <1>6
  <1>12. QED
    BY <1>4, <1>7, <1>8, <1>9, <1>10, <1>11

\* active lists what the program will not skip and then the inbox.
LEMMA ActiveIsUnprocessed ==
    ASSUME TypeOK, Windows, receiver # "done"
    PROVE  active = Unprocessed
  <1> DEFINE kept == SubSeq(taken, Stale + 1, Len(taken))
  <1>1. /\ Stale \in 0..Len(taken) /\ Unprocessed = kept \o inbox
    BY UnskippedTaken DEF Unprocessed
  <1>2. /\ Len(taken) \in Nat /\ Len(active) \in Nat /\ Len(inbox) \in Nat
        /\ nextId \in Nat /\ taken \in Seq(Nat) /\ inbox \in Seq(Nat)
        /\ active \in Seq(Nat)
    BY Numbers
  <1>3. /\ kept \in Seq(Nat) /\ Len(kept) = Len(taken) - Stale
        /\ \A i \in 1..Len(kept) : kept[i] = taken[Stale + i]
    BY <1>1, <1>2
  <1> HIDE DEF kept
  <1>4. /\ kept \o inbox \in Seq(Nat)
        /\ Len(kept \o inbox) = Len(kept) + Len(inbox)
        /\ \A i \in 1..Len(kept) : (kept \o inbox)[i] = kept[i]
        /\ \A i \in 1..Len(inbox) : (kept \o inbox)[Len(kept) + i] = inbox[i]
    BY <1>2, <1>3, ConcatFacts
  <1>5. Stale = Len(taken) + Len(inbox) - Len(active) /\ LastSettled = nextId - Len(active)
    BY DEF Stale, LastSettled
  <1>6. Len(kept) \in Nat /\ Len(active) = Len(kept) + Len(inbox)
    BY <1>1, <1>2, <1>3, <1>5
  <1>7. /\ \A i \in 1..Len(active) : active[i] = LastSettled + i
        /\ \A i \in 1..Len(inbox) : inbox[i] = nextId - Len(inbox) + i
        /\ \A i \in 1..Len(taken) : i > Stale => taken[i] = LastSettled + (i - Stale)
    BY DEF Windows, ActiveWindow, TakenWindow
  <1>8. ASSUME NEW i \in 1..Len(active) PROVE active[i] = (kept \o inbox)[i]
    <2>1. CASE i \in 1..Len(kept)
      <3> DEFINE j == Stale + i
      <3>1. j \in 1..Len(taken) /\ j > Stale /\ j - Stale = i
        BY <2>1, <1>1, <1>2, <1>3
      <3>2. (kept \o inbox)[i] = taken[j]
        BY <2>1, <1>3, <1>4
      <3> HIDE DEF j
      <3>3. taken[j] = LastSettled + i
        BY <3>1, <1>7
      <3>4. QED
        BY <3>2, <3>3, <1>7
    <2>2. CASE i \notin 1..Len(kept)
      <3>1. i - Len(kept) \in 1..Len(inbox) /\ Len(kept) + (i - Len(kept)) = i
        BY <2>2, <1>2, <1>6
      <3>2. (kept \o inbox)[i] = nextId - Len(inbox) + (i - Len(kept))
        BY <3>1, <1>4, <1>7
      <3>3. QED
        BY <3>2, <1>2, <1>5, <1>6, <1>7
    <2>3. QED
      BY <2>1, <2>2
  <1>9. QED
    BY <1>1, <1>2, <1>4, <1>6, <1>8, SameElements

\* The subtraction in internal_dequeued never saturates.
InternalsCounted == internalPending = internals

LEMMA InternalsStep == TypeOK /\ InternalsCounted /\ [Next]_vars => InternalsCounted'
  <1> SUFFICES ASSUME TypeOK, internalPending = internals, [Next]_vars
               PROVE  internalPending' = internals'
    BY DEF InternalsCounted
  <1>1. CASE \E d \in Dispatchers : Offer(d) \/ Wake(d)
    BY <1>1 DEF Offer, OfferRefused, OfferAccepted, OfferDisplacingWaiting,
                OfferDisplacingTaken, Accept, Wake, control
  <1>2. CASE Poll \/ Drain
    BY <1>2 DEF Poll, PollTake, PollTakeUndelivered, PollPending, Drain,
                BeginProcessing, SkipDropped
  <1>3. CASE InternalEnqueued \/ InternalDequeued
    BY <1>3 DEF InternalEnqueued, InternalDequeued, TypeOK
  <1>4. CASE Release \/ Close \/ UNCHANGED vars
    BY <1>4 DEF Release, Close, vars, control
  <1>5. QED
    BY <1>1, <1>2, <1>3, <1>4 DEF Next

\* What the policy counts is what exists: active is the messages that will not be
\* skipped and the inbox, and every internal message is counted once.
THEOREM DepthAlwaysExact == Spec => []DepthIsExact
  <1>1. TypeOK /\ Windows /\ InternalsCounted => DepthIsExact
    BY ActiveIsUnprocessed DEF DepthIsExact, InternalsCounted
  <1>2. Init => InternalsCounted
    BY DEF Init, InternalsCounted
  <1>3. QED
    BY <1>1, <1>2, InternalsStep, TypeCorrect, WindowsHold, PTL DEF Spec

\* The elements of a sequence that is built, taken apart or joined.
LEMMA ElementsFacts ==
    /\ Elements(<<>>) = {}
    /\ \A s \in Seq(Nat), e \in Nat : Elements(Append(s, e)) = Elements(s) \cup {e}
    /\ \A s, t \in Seq(Nat) : Elements(s \o t) = Elements(s) \cup Elements(t)
    /\ \A s \in Seq(Nat) : s # <<>> =>
         Head(s) \in Elements(s) /\ Elements(s) = {Head(s)} \cup Elements(Tail(s))
  <1>1. Elements(<<>>) = {}
    BY EmptyFacts DEF Elements
  <1>2. ASSUME NEW s \in Seq(Nat), NEW e \in Nat
        PROVE  Elements(Append(s, e)) = Elements(s) \cup {e}
    <2> DEFINE t == Append(s, e)
    <2>1. /\ Len(t) = Len(s) + 1 /\ t[Len(s) + 1] = e /\ Len(s) \in Nat
          /\ \A i \in 1..Len(s) : t[i] = s[i]
      BY AppendFacts, LengthFacts
    <2> HIDE DEF t
    <2>2. 1..Len(t) = 1..Len(s) \cup {Len(s) + 1}
      BY <2>1
    <2>3. QED
      BY <2>1, <2>2 DEF Elements, t
  <1>3. ASSUME NEW s \in Seq(Nat), NEW t \in Seq(Nat)
        PROVE  Elements(s \o t) = Elements(s) \cup Elements(t)
    <2> DEFINE u == s \o t
    <2>1. /\ Len(u) = Len(s) + Len(t) /\ Len(s) \in Nat /\ Len(t) \in Nat
          /\ \A i \in 1..Len(s) : u[i] = s[i]
          /\ \A i \in 1..Len(t) : u[Len(s) + i] = t[i]
      BY ConcatFacts, LengthFacts
    <2> HIDE DEF u
    <2>2. /\ \A i \in 1..Len(s) : i \in 1..Len(u)
          /\ \A i \in 1..Len(t) : Len(s) + i \in 1..Len(u)
          /\ \A i \in 1..Len(u) : i \notin 1..Len(s) =>
               i - Len(s) \in 1..Len(t) /\ Len(s) + (i - Len(s)) = i
      BY <2>1
    <2>3. Elements(u) \subseteq Elements(s) \cup Elements(t)
      <3> SUFFICES ASSUME NEW i \in 1..Len(u) PROVE u[i] \in Elements(s) \cup Elements(t)
        BY DEF Elements
      <3>1. CASE i \in 1..Len(s)
        BY <3>1, <2>1 DEF Elements
      <3>2. CASE i \notin 1..Len(s)
        <4>1. i - Len(s) \in 1..Len(t) /\ u[i] = t[i - Len(s)]
          BY <3>2, <2>1, <2>2
        <4>2. QED
          BY <4>1 DEF Elements
      <3>3. QED
        BY <3>1, <3>2
    <2>4. Elements(s) \cup Elements(t) \subseteq Elements(u)
      BY <2>1, <2>2 DEF Elements
    <2>5. QED
      BY <2>3, <2>4 DEF u
  <1>4. ASSUME NEW s \in Seq(Nat), s # <<>>
        PROVE  Head(s) \in Elements(s) /\ Elements(s) = {Head(s)} \cup Elements(Tail(s))
    <2> DEFINE t == Tail(s)
    <2>1. /\ Head(s) = s[1] /\ Len(t) = Len(s) - 1 /\ Len(s) >= 1 /\ Len(s) \in Nat
          /\ \A i \in 1..Len(t) : t[i] = s[i + 1]
      BY <1>4, TailFacts, LengthFacts
    <2> HIDE DEF t
    <2>2. /\ 1 \in 1..Len(s)
          /\ \A i \in 1..Len(t) : i + 1 \in 1..Len(s)
          /\ \A i \in 1..Len(s) : i # 1 => i - 1 \in 1..Len(t) /\ (i - 1) + 1 = i
      BY <2>1
    <2>3. Elements(s) \subseteq {Head(s)} \cup Elements(t)
      <3> SUFFICES ASSUME NEW i \in 1..Len(s), i # 1 PROVE s[i] \in Elements(t)
        BY <2>1 DEF Elements
      <3>1. i - 1 \in 1..Len(t) /\ t[i - 1] = s[i]
        BY <2>1, <2>2
      <3>2. QED
        BY <3>1 DEF Elements
    <2>4. {Head(s)} \cup Elements(t) \subseteq Elements(s)
      BY <2>1, <2>2 DEF Elements
    <2>5. Head(s) \in Elements(s)
      BY <2>1, <2>2 DEF Elements
    <2>6. QED
      BY <2>3, <2>4, <2>5 DEF t
  <1>5. QED
    BY <1>1, <1>2, <1>3, <1>4

\* Where the ids of the windows lie: what is settled or skipped is old, what waits in
\* the inbox is new.
LEMMA WindowSets ==
    ASSUME TypeOK, Windows
    PROVE  /\ LastSettled \in Nat /\ LastSettled <= nextId /\ nextId \in Nat
           /\ \A e \in Elements(inbox) : e \in Nat /\ e > LastSettled /\ e <= nextId
           /\ \A e \in Elements(processed) \cup Elements(displaced) :
                e \in Nat /\ e <= LastSettled
           /\ receiver # "done" => \A e \in dropped : e \in Nat /\ e <= LastSettled
           /\ \A e \in Elements(taken) : e \in Nat
  <1>1. /\ nextId \in Nat /\ Len(active) \in Nat /\ Len(inbox) \in Nat
        /\ Len(taken) \in Nat /\ taken \in Seq(Nat)
        /\ processed \in Seq(Nat) /\ displaced \in Seq(Nat)
        /\ \A i \in 1..Len(taken) : taken[i] \in Nat
    BY Numbers
  <1>2. /\ Len(inbox) <= Len(active) /\ Len(active) <= nextId
        /\ LastSettled = nextId - Len(active)
        /\ \A i \in 1..Len(inbox) : inbox[i] = nextId - Len(inbox) + i
    BY DEF Windows, ActiveWindow, LastSettled
  <1>3. LastSettled \in Nat /\ LastSettled <= nextId
    BY <1>1, <1>2
  <1>4. ASSUME NEW e \in Elements(inbox) PROVE e \in Nat /\ e > LastSettled /\ e <= nextId
    <2>1. PICK i \in 1..Len(inbox) : e = inbox[i]
      BY DEF Elements
    <2>2. e = nextId - Len(inbox) + i /\ i >= 1 /\ i <= Len(inbox) /\ i \in Nat
      BY <2>1, <1>1, <1>2
    <2>3. QED
      BY <2>2, <1>1, <1>2
  <1>5. ASSUME NEW e \in Elements(processed) \cup Elements(displaced)
        PROVE  e \in Nat /\ e <= LastSettled
    BY <1>1, ElementsNat DEF Windows, SettledInOrder
  <1>6. ASSUME receiver # "done", NEW e \in dropped PROVE e \in Nat /\ e <= LastSettled
    <2>1. PICK i \in 1..Stale : taken[i] = e
      BY <1>6 DEF Windows, TakenWindow
    <2>2. Stale = Len(taken) + Len(inbox) - Len(active)
      BY DEF Stale
    <2>3. i \in 1..Len(taken) /\ i <= Stale
      BY <2>1, <2>2, <1>1, <1>2
    <2>4. QED
      BY <2>1, <2>3, <1>1, <1>6 DEF Windows, TakenWindow
  <1>7. QED
    BY <1>1, <1>3, <1>4, <1>5, <1>6, ElementsNat

\* What waits in the inbox is newer than everything settled.
InboxNewer ==
    LastSettled \in Nat /\ \A e \in Elements(inbox) : e \in Nat /\ e > LastSettled

LEMMA InboxAhead == TypeOK /\ Windows => InboxNewer
  BY WindowSets DEF InboxNewer

\* NothingVanishes is not inductive: it needs that nothing is released before the
\* receive task ends, and that nothing processed is still among what was taken.
Accounted ==
    /\ NothingVanishes
    /\ receiver # "done" => discarded = {}
    /\ Elements(taken) \cap Elements(processed) = {}

Out == Elements(processed) \cup Elements(displaced) \cup discarded
Waiting == (Elements(taken) \ dropped) \cup Elements(inbox)

LEMMA AccountedParts ==
    Accounted <=>
      /\ Out \cup Waiting = 1..nextId
      /\ receiver # "done" => Out \cap Waiting = {} /\ discarded = {}
      /\ Elements(processed) \cap (Elements(displaced) \cup discarded) = {}
      /\ Elements(taken) \cap Elements(processed) = {}
  BY DEF Accounted, NothingVanishes, Out, Waiting

LEMMA AcceptedAccounted ==
    ASSUME TypeOK, Windows, Accounted, NEW d \in Dispatchers, OfferAccepted(d)
    PROVE  Accounted'
  <1>1. /\ nextId' = nextId + 1 /\ inbox' = Append(inbox, nextId + 1)
        /\ UNCHANGED <<dropped, taken, receiver, processed, displaced, discarded>>
    BY DEF OfferAccepted, Accept
  <1>2. nextId \in Nat /\ nextId + 1 \in Nat /\ inbox \in Seq(Nat)
    BY Numbers
  <1>3. Elements(inbox') = Elements(inbox) \cup {nextId + 1}
    BY <1>1, <1>2, ElementsFacts
  <1>4. Out' = Out /\ Waiting' = Waiting \cup {nextId + 1}
    BY <1>1, <1>3 DEF Out, Waiting
  <1>5. 1..(nextId + 1) = 1..nextId \cup {nextId + 1} /\ nextId + 1 \notin 1..nextId
    BY <1>2
  <1>6. QED
    BY <1>1, <1>4, <1>5, AccountedParts DEF Accounted, NothingVanishes, Out, Waiting

\* The message moves from the inbox, or from what will not be skipped, to the displaced.
LEMMA DisplacingAccounted ==
    ASSUME TypeOK, Windows, Accounted, NEW d \in Dispatchers,
           OfferDisplacingWaiting(d) \/ OfferDisplacingTaken(d)
    PROVE  Accounted'
  <1> DEFINE h == Head(active)
  <1>1. /\ active # <<>> /\ nextId' = nextId + 1
        /\ displaced' = Append(displaced, h)
        /\ UNCHANGED <<taken, receiver, processed, discarded>>
    BY DEF OfferDisplacingWaiting, OfferDisplacingTaken, Accept, Displaces
  <1>2. /\ nextId \in Nat /\ nextId + 1 \in Nat /\ inbox \in Seq(Nat)
        /\ taken \in Seq(Nat) /\ active \in Seq(Nat) /\ displaced \in Seq(Nat)
        /\ Len(active) \in Nat /\ Len(inbox) \in Nat /\ Len(taken) \in Nat
    BY Numbers
  <1>3. h = LastSettled + 1 /\ LastSettled \in Nat /\ Len(active) >= 1
    BY <1>1, OldestActive DEF Windows
  <1>4. LastSettled = nextId - Len(active) /\ Stale = Len(taken) + Len(inbox) - Len(active)
    BY DEF LastSettled, Stale
  <1>5. h \in 1..nextId /\ h \in Nat
    BY <1>2, <1>3, <1>4
  <1> HIDE DEF h
  <1>6. Elements(displaced') = Elements(displaced) \cup {h}
    BY <1>1, <1>2, <1>5, ElementsFacts
  <1>7. h \notin Elements(processed)
    BY <1>3, WindowSets
  <1>8. Out' = Out \cup {h}
    BY <1>1, <1>6 DEF Out
  <1>9. 1..(nextId + 1) = 1..nextId \cup {nextId + 1} /\ nextId + 1 \notin 1..nextId
    BY <1>2
  <1>10. ASSUME Waiting' \cup {h} = Waiting \cup {h, nextId + 1},
                receiver # "done" => h \notin Waiting'
         PROVE  Accounted'
    <2>1. Out' \cup Waiting' = 1..nextId'
      BY <1>1, <1>5, <1>8, <1>9, <1>10, AccountedParts
    <2>2. receiver' # "done" => Out' \cap Waiting' = {} /\ discarded' = {}
      <3> SUFFICES ASSUME receiver # "done"
                   PROVE  Out' \cap Waiting' = {} /\ discarded' = {}
        BY <1>1
      <3>1. Out \cap Waiting = {} /\ discarded = {} /\ nextId + 1 \notin Out
        BY <1>9, AccountedParts
      <3>2. QED
        BY <3>1, <1>1, <1>8, <1>10
    <2>3. Elements(processed') \cap (Elements(displaced') \cup discarded') = {}
      BY <1>1, <1>6, <1>7, AccountedParts
    <2>4. Elements(taken') \cap Elements(processed') = {}
      BY <1>1, AccountedParts
    <2>5. Accounted'
      BY <2>1, <2>2, <2>3, <2>4 DEF Accounted, NothingVanishes, Out, Waiting
    <2>6. QED
      BY <2>5
  <1>11. CASE OfferDisplacingWaiting(d)
    <2>1. /\ inbox # <<>> /\ Head(inbox) = h /\ dropped' = dropped
          /\ inbox' = Append(Tail(inbox), nextId + 1)
      BY <1>11 DEF OfferDisplacingWaiting, Accept, OldestInInbox, h
    <2>2. Tail(inbox) \in Seq(Nat) /\ Elements(inbox) = {h} \cup Elements(Tail(inbox))
      BY <2>1, <1>2, TailFacts, ElementsFacts
    <2>3. Elements(inbox') = Elements(Tail(inbox)) \cup {nextId + 1}
      BY <2>1, <2>2, <1>2, ElementsFacts
    <2>4. Waiting' \cup {h} = Waiting \cup {h, nextId + 1}
      BY <1>1, <2>1, <2>2, <2>3 DEF Waiting
    <2>5. ASSUME receiver # "done" PROVE h \notin Waiting'
      <3>1. /\ ActiveWindow' /\ LastSettled' = LastSettled + 1
            /\ \A e \in Elements(inbox') : e \in Nat /\ e > LastSettled'
        <4>1. Windows' /\ TypeOK'
          BY <1>11, DisplacingWaitingWindows, TypeStep DEF Next, Offer
        <4>2. InboxNewer'
          BY <4>1, InboxAhead, PTL
        <4>3. LastSettled' = LastSettled + 1
          BY <1>1, <1>11, DisplacedActive
             DEF Windows, OfferDisplacingWaiting, Accept
        <4>4. QED
          BY <4>1, <4>2, <4>3 DEF Windows, InboxNewer
      <3>2. h \notin Elements(inbox')
        BY <3>1, <1>3
      <3>3. h \notin Elements(taken) \ dropped
        <4>1. Head(inbox) = nextId - Len(inbox) + 1 /\ Len(inbox) <= Len(active)
          BY <2>1, <1>2, TailFacts DEF Windows, ActiveWindow
        <4>2. Stale = Len(taken)
          <5>1. h = nextId - Len(inbox) + 1 /\ h = nextId - Len(active) + 1
            BY <4>1, <2>1, <1>3, <1>4
          <5>2. Len(inbox) = Len(active)
            BY <5>1, <1>2
          <5>3. Len(taken) + Len(active) - Len(active) = Len(taken)
            BY <1>2
          <5>4. QED
            BY <5>2, <5>3, <1>4
        <4>3. \A i \in 1..Len(taken) : taken[i] \in dropped
          BY <2>5, <4>2, <1>2 DEF Windows, TakenWindow
        <4>4. QED
          BY <4>3 DEF Elements
      <3>4. QED
        BY <3>2, <3>3, <1>1, <2>1 DEF Waiting
    <2>6. QED
      BY <1>10, <2>4, <2>5
  <1>12. CASE OfferDisplacingTaken(d)
    <2>1. /\ dropped' = dropped \cup {h} /\ inbox' = Append(inbox, nextId + 1)
      BY <1>12 DEF OfferDisplacingTaken, Accept, h
    <2>2. Elements(inbox') = Elements(inbox) \cup {nextId + 1}
      BY <2>1, <1>2, ElementsFacts
    <2>3. Waiting' \cup {h} = Waiting \cup {h, nextId + 1}
      BY <1>1, <2>1, <2>2 DEF Waiting
    <2>4. h \notin Waiting'
      <3>1. Windows' /\ TypeOK'
        BY <1>12, DisplacingTakenWindows, TypeStep DEF Next, Offer
      <3>2. InboxNewer'
        BY <3>1, InboxAhead, PTL
      <3>3. LastSettled' = LastSettled + 1
        BY <1>1, <1>12, DisplacedActive DEF Windows, OfferDisplacingTaken, Accept
      <3>4. QED
        BY <3>2, <3>3, <1>1, <1>3, <2>1 DEF Waiting, InboxNewer
    <2>5. QED
      BY <1>10, <2>3, <2>4
  <1>13. QED
    BY <1>11, <1>12

LEMMA PollAccounted ==
    ASSUME TypeOK, Windows, Accounted, PollTake \/ PollTakeUndelivered
    PROVE  Accounted'
  <1>1. taken \in Seq(Nat) /\ inbox \in Seq(Nat) /\ Elements(<<>>) = {}
    BY Numbers, ElementsFacts
  <1>2. Elements(processed) \cap Elements(inbox) = {}
    <2>1. \A e \in Elements(processed) : e \in Nat /\ e <= LastSettled
      BY WindowSets
    <2>2. \A e \in Elements(inbox) : e \in Nat /\ e > LastSettled
      BY WindowSets
    <2>3. LastSettled \in Nat
      BY WindowSets
    <2>4. QED
      BY <2>1, <2>2, <2>3
  <1>3. CASE PollTake
    <2>1. /\ receiver # "done" /\ taken' = taken \o inbox /\ inbox' = <<>>
          /\ UNCHANGED <<nextId, dropped, processed, displaced, discarded>>
      BY <1>3 DEF PollTake, Polls, history
    <2>2. Elements(taken') = Elements(taken) \cup Elements(inbox) /\ Elements(inbox') = {}
      BY <2>1, <1>1, ElementsFacts
    <2>3. Elements(inbox) \cap dropped = {}
      <3>1. \A e \in dropped : e \in Nat /\ e <= LastSettled
        BY <2>1, WindowSets
      <3>2. \A e \in Elements(inbox) : e \in Nat /\ e > LastSettled
        BY WindowSets
      <3>3. LastSettled \in Nat
        BY WindowSets
      <3>4. QED
        BY <3>1, <3>2, <3>3
    <2>4. Waiting' = Waiting /\ Out' = Out
      BY <2>1, <2>2, <2>3 DEF Waiting, Out
    <2>5. Elements(taken') \cap Elements(processed') = {}
      BY <2>1, <2>2, <1>2, AccountedParts
    <2>6. QED
      BY <2>1, <2>4, <2>5, AccountedParts DEF Accounted, NothingVanishes, Out, Waiting
  <1>4. CASE PollTakeUndelivered
    <2>1. /\ receiver' = "done" /\ inbox' = <<>>
          /\ discarded' = discarded \cup Elements(inbox)
          /\ UNCHANGED <<nextId, dropped, taken, processed, displaced>>
      BY <1>4 DEF PollTakeUndelivered
    <2>2. Elements(inbox') = {}
      BY <2>1, <1>1
    <2>3. Out' \cup Waiting' = 1..nextId'
      BY <2>1, <2>2, AccountedParts DEF Out, Waiting
    <2>4. Elements(processed') \cap (Elements(displaced') \cup discarded') = {}
      BY <2>1, <1>2, AccountedParts
    <2>5. Elements(taken') \cap Elements(processed') = {}
      BY <2>1, AccountedParts
    <2>6. QED
      BY <2>1, <2>3, <2>4, <2>5 DEF Accounted, NothingVanishes, Out, Waiting
  <1>5. QED
    BY <1>3, <1>4

\* The drain takes one message from what waits, or one from what is skipped.
LEMMA DrainAccounted ==
    ASSUME TypeOK, Windows, Accounted, Drain
    PROVE  Accounted'
  <1> DEFINE h == Head(taken)
  <1>1. /\ taken # <<>> /\ taken' = Tail(taken) /\ program = "mounted"
        /\ UNCHANGED <<nextId, inbox, receiver, displaced, discarded>>
    BY DEF Drain, BeginProcessing, SkipDropped, history
  <1>2. /\ taken \in Seq(Nat) /\ processed \in Seq(Nat) /\ h \in Nat
        /\ Len(taken) \in Nat /\ Len(inbox) \in Nat /\ Len(active) \in Nat
        /\ nextId \in Nat
    BY <1>1, Numbers, TailFacts
  <1>3. Elements(taken) = {h} \cup Elements(taken') /\ h \in Elements(taken)
    BY <1>1, <1>2, ElementsFacts
  <1>4. receiver # "done" /\ receiver' # "done"
    BY <1>1 DEF Windows, Lifecycle
  <1>5. /\ Head(taken) = taken[1] /\ Len(taken') = Len(taken) - 1 /\ Len(taken) >= 1
        /\ \A i \in 1..Len(taken') : taken'[i] = taken[i + 1]
    BY <1>1, <1>2, TailFacts
  <1>6. ASSUME \A i \in 1..Len(taken) : i # 1 => taken[i] # h
        PROVE  h \notin Elements(taken')
    <2> SUFFICES ASSUME NEW i \in 1..Len(taken') PROVE taken'[i] # h
      BY DEF Elements
    <2>1. i + 1 \in 1..Len(taken) /\ i + 1 # 1
      BY <1>2, <1>5
    <2>2. QED
      BY <2>1, <1>5, <1>6
  <1>7. CASE BeginProcessing
    <2>1. /\ processed' = Append(processed, h) /\ dropped' = dropped
      BY <1>7 DEF BeginProcessing
    <2>2. /\ dropped = {} /\ Stale = 0 /\ h = LastSettled + 1
          /\ \A i \in 1..Len(taken) : taken[i] = LastSettled + i
      BY <1>7, ProcessedIsOldest
    <2> HIDE DEF h
    <2>3. Elements(processed') = Elements(processed) \cup {h}
      BY <2>1, <1>2, ElementsFacts
    <2>4. h \notin Elements(taken')
      <3>1. \A i \in 1..Len(taken) : i # 1 => taken[i] # h
        BY <2>2, <1>2, WindowSets
      <3>2. QED
        BY <3>1, <1>6
    <2>5. h \notin Elements(inbox)
      <3>1. Len(active) = Len(taken) + Len(inbox) /\ LastSettled = nextId - Len(active)
        BY <2>2, <1>2 DEF Stale, LastSettled
      <3>2. \A i \in 1..Len(inbox) : inbox[i] = nextId - Len(inbox) + i
        BY DEF Windows, ActiveWindow
      <3>3. ASSUME NEW i \in 1..Len(inbox) PROVE inbox[i] # h
        BY <3>1, <3>2, <2>2, <1>2, <1>5
      <3>4. QED
        BY <3>3 DEF Elements
    <2>6. h \notin Elements(displaced)
      BY <2>2, WindowSets
    <2>7. Out' = Out \cup {h} /\ Waiting = Waiting' \cup {h} /\ h \notin Waiting'
      BY <1>1, <1>3, <2>1, <2>2, <2>3, <2>4, <2>5 DEF Out, Waiting
    <2>8. discarded = {} /\ Out \cap Waiting = {} /\ Out \cup Waiting = 1..nextId
      BY <1>4, AccountedParts
    <2>9. Out' \cup Waiting' = 1..nextId' /\ Out' \cap Waiting' = {}
      BY <1>1, <2>7, <2>8
    <2>10. Elements(processed') \cap (Elements(displaced') \cup discarded') = {}
      BY <1>1, <2>3, <2>6, <2>8, AccountedParts
    <2>11. Elements(taken') \cap Elements(processed') = {}
      BY <1>3, <2>3, <2>4, AccountedParts
    <2>12. QED
      BY <1>1, <2>8, <2>9, <2>10, <2>11 DEF Accounted, NothingVanishes, Out, Waiting
  <1>8. CASE SkipDropped
    <2>1. h \in dropped /\ dropped' = dropped \ {h} /\ processed' = processed
      BY <1>8 DEF SkipDropped, history
    <2>2. h \notin Elements(taken')
      <3>1. /\ \A i, j \in 1..Stale : i < j => taken[i] < taken[j]
            /\ \A i \in 1..Len(taken) :
                 /\ i <= Stale => taken[i] \in dropped /\ taken[i] <= LastSettled
                 /\ i > Stale => taken[i] = LastSettled + (i - Stale)
            /\ \A e \in dropped : \E i \in 1..Stale : taken[i] = e
            /\ Stale >= 0 /\ Stale = Len(taken) + Len(inbox) - Len(active)
        BY <1>4 DEF Windows, TakenWindow, Stale
      <3>2. Stale \in Nat /\ 1 \in 1..Stale
        BY <3>1, <2>1, <1>2
      <3>3. h <= LastSettled /\ LastSettled \in Nat
        BY <2>1, <1>4, WindowSets
      <3>4. ASSUME NEW i \in 1..Len(taken), i # 1 PROVE taken[i] # h
        <4>1. CASE i <= Stale
          <5>1. i \in 1..Stale /\ 1 < i /\ taken[i] \in Nat
            BY <3>2, <3>4, <4>1, <1>2, Numbers
          <5>2. taken[1] < taken[i]
            BY <3>1, <3>2, <5>1
          <5>3. QED
            BY <5>1, <5>2, <1>2, <1>5
        <4>2. CASE i > Stale
          BY <3>1, <3>2, <3>3, <4>2, <1>2
        <4>3. QED
          BY <3>2, <4>1, <4>2
      <3>5. QED
        BY <3>4, <1>6
    <2> HIDE DEF h
    <2>3. Waiting' = Waiting /\ Out' = Out
      BY <1>1, <1>3, <2>1, <2>2 DEF Waiting, Out
    <2>4. Elements(taken') \cap Elements(processed') = {}
      BY <1>3, <2>1, AccountedParts
    <2>5. QED
      BY <1>1, <2>1, <2>3, <2>4, AccountedParts
         DEF Accounted, NothingVanishes, Out, Waiting
  <1>9. QED
    BY <1>7, <1>8 DEF Drain

LEMMA CloseAccounted ==
    ASSUME TypeOK, Windows, Accounted, Close
    PROVE  Accounted'
  <1>1. /\ receiver' = "done" /\ inbox' = <<>> /\ taken' = <<>>
        /\ discarded' = discarded \cup (Elements(taken) \ dropped) \cup Elements(inbox)
        /\ UNCHANGED <<nextId, processed, displaced>>
    BY DEF Close
  <1>2. Elements(inbox') = {} /\ Elements(taken') = {}
    BY <1>1, ElementsFacts
  <1>3. Elements(processed) \cap Elements(inbox) = {}
    <2>1. \A e \in Elements(processed) : e \in Nat /\ e <= LastSettled
      BY WindowSets
    <2>2. \A e \in Elements(inbox) : e \in Nat /\ e > LastSettled
      BY WindowSets
    <2>3. LastSettled \in Nat
      BY WindowSets
    <2>4. QED
      BY <2>1, <2>2, <2>3
  <1>4. Out' \cup Waiting' = 1..nextId'
    BY <1>1, <1>2, AccountedParts DEF Out, Waiting
  <1>5. Elements(processed') \cap (Elements(displaced') \cup discarded') = {}
    BY <1>1, <1>3, AccountedParts
  <1>6. QED
    BY <1>1, <1>2, <1>4, <1>5 DEF Accounted, NothingVanishes, Out, Waiting

LEMMA AccountedStep == TypeOK /\ Windows /\ Accounted /\ [Next]_vars => Accounted'
  <1> SUFFICES ASSUME TypeOK, Windows, Accounted, [Next]_vars PROVE Accounted'
    OBVIOUS
  <1>1. ASSUME UNCHANGED <<nextId, inbox, dropped, taken, processed, displaced, discarded>>,
               receiver' # "done" => receiver # "done"
        PROVE  Accounted'
    BY <1>1 DEF Accounted, NothingVanishes
  <1>2. ASSUME NEW d \in Dispatchers, OfferRefused(d) \/ Wake(d) PROVE Accounted'
    BY <1>1, <1>2 DEF OfferRefused, Wake, control, history
  <1>3. ASSUME NEW d \in Dispatchers, OfferAccepted(d) PROVE Accounted'
    BY <1>3, AcceptedAccounted
  <1>4. ASSUME NEW d \in Dispatchers, OfferDisplacingWaiting(d) \/ OfferDisplacingTaken(d)
        PROVE  Accounted'
    BY <1>4, DisplacingAccounted
  <1>5. CASE PollTake \/ PollTakeUndelivered
    BY <1>5, PollAccounted
  <1>6. CASE PollPending
    BY <1>1, <1>6 DEF PollPending, Polls, history
  <1>7. CASE Drain
    BY <1>7, DrainAccounted
  <1>8. CASE InternalEnqueued \/ InternalDequeued
    BY <1>1, <1>8 DEF InternalEnqueued, InternalDequeued, history
  <1>9. CASE Release
    BY <1>1, <1>9 DEF Release, control, history
  <1>10. CASE Close
    BY <1>10, CloseAccounted
  <1>11. CASE UNCHANGED vars
    BY <1>1, <1>11 DEF vars, control, history
  <1>12. QED
    BY <1>2, <1>3, <1>4, <1>5, <1>6, <1>7, <1>8, <1>9, <1>10, <1>11
       DEF Next, Offer, Poll

\* Every accepted message waits, or was processed, displaced or released, and never
\* two of these where that would tell a dispatcher something false.
THEOREM NothingEverVanishes == Spec => []NothingVanishes
  <1>1. Init => Accounted
    <2> SUFFICES ASSUME Init PROVE Accounted
      OBVIOUS
    <2>1. Elements(<<>>) = {} /\ 1..0 = {}
      BY ElementsFacts
    <2>2. QED
      BY <2>1 DEF Init, Accounted, NothingVanishes
  <1>2. Accounted => NothingVanishes
    BY DEF Accounted
  <1>3. QED
    BY <1>1, <1>2, AccountedStep, TypeCorrect, WindowsHold, PTL DEF Spec

-----------------------------------------------------------------------------
(* The refinement.                                                         *)

LEMMA MailboxStep == TypeOK /\ Windows /\ [Next]_vars => [Mailbox!Next]_(Mailbox!vars)
  <1> SUFFICES ASSUME TypeOK, Windows, [Next]_vars
               PROVE  Mailbox!Next \/ UNCHANGED Mailbox!vars
    BY DEF Mailbox!vars
  <1>1. /\ active \in Seq(Nat) /\ nextId \in Nat /\ nextId + 1 \in Nat
        /\ Len(active) \in Nat /\ policy.capacity \in Nat
        /\ policy.kind \in {"Unbounded", "RejectNew", "DropNewest", "DropOldest"}
    BY Numbers DEF TypeOK, QueuePolicies
  <1>2. AtCapacity <=> Mailbox!Full
    BY DEF AtCapacity, Mailbox!Full
  <1>3. ASSUME UNCHANGED <<policy, active, processed, displaced, nextId, refused, closed>>
        PROVE  UNCHANGED Mailbox!vars
    BY <1>3 DEF Mailbox!vars
  <1>4. ASSUME NEW d \in Dispatchers, OfferRefused(d) PROVE Mailbox!Next
    <2>1. Mailbox!Refuse
      BY <1>2, <1>4 DEF OfferRefused, Refuses, control, Mailbox!Refuse
    <2>2. QED
      BY <2>1 DEF Mailbox!Next
  <1>5. ASSUME NEW d \in Dispatchers, OfferAccepted(d) PROVE Mailbox!Next
    <2>1. /\ ~Refuses /\ ~Displaces /\ displaced' = displaced /\ refused' = refused
          /\ nextId' = nextId + 1 /\ active' = Append(active, nextId + 1)
          /\ policy' = policy /\ closed' = closed /\ processed' = processed
      BY <1>5 DEF OfferAccepted, Accept
    <2>2. CASE ~AtCapacity
      <3>1. Mailbox!Accept
        BY <1>2, <2>1, <2>2 DEF Mailbox!Accept, Refuses
      <3>2. QED
        BY <3>1 DEF Mailbox!Next
    <2>3. CASE AtCapacity
      <3>1. policy.kind = "DropOldest" /\ active = <<>> /\ ~closed
        BY <1>1, <2>1, <2>3 DEF Refuses, Displaces, AtCapacity
      <3>2. active' = <<nextId + 1>>
        BY <2>1, <3>1, <1>1
      <3>3. Mailbox!AcceptDisplacing
        BY <1>2, <2>1, <2>3, <3>1, <3>2 DEF Mailbox!AcceptDisplacing
      <3>4. QED
        BY <3>3 DEF Mailbox!Next
    <2>4. QED
      BY <2>2, <2>3
  <1>6. ASSUME NEW d \in Dispatchers,
               OfferDisplacingWaiting(d) \/ OfferDisplacingTaken(d)
        PROVE  Mailbox!Next
    <2>1. /\ ~Refuses /\ Displaces /\ refused' = refused
          /\ nextId' = nextId + 1 /\ active' = Append(Tail(active), nextId + 1)
          /\ displaced' = Append(displaced, Head(active))
          /\ policy' = policy /\ closed' = closed /\ processed' = processed
      BY <1>6 DEF OfferDisplacingWaiting, OfferDisplacingTaken, Accept
    <2>2. Mailbox!AcceptDisplacing
      BY <1>2, <2>1 DEF Mailbox!AcceptDisplacing, Refuses, Displaces
    <2>3. QED
      BY <2>2 DEF Mailbox!Next
  <1>7. CASE BeginProcessing
    <2>1. /\ active # <<>> /\ active' = Tail(active)
          /\ Head(taken) = LastSettled + 1
      BY <1>7, ProcessedIsOldest
    <2>2. Head(active) = LastSettled + 1
      BY <2>1, OldestActive DEF Windows
    <2>3. ~closed
      BY <1>7 DEF Windows, Lifecycle, BeginProcessing
    <2>4. Mailbox!Deliver
      BY <1>7, <2>1, <2>2, <2>3 DEF Mailbox!Deliver, BeginProcessing
    <2>5. QED
      BY <2>4 DEF Mailbox!Next
  <1>8. CASE Close
    <2>1. ~closed
      BY <1>8 DEF Windows, Lifecycle, Close
    <2>2. Mailbox!Shut
      BY <1>8, <2>1 DEF Mailbox!Shut, Close
    <2>3. QED
      BY <2>2 DEF Mailbox!Next
  <1>9. CASE \E d \in Dispatchers : Wake(d)
    BY <1>3, <1>9 DEF Wake, control, history
  <1>10. CASE Poll
    BY <1>3, <1>10 DEF Poll, PollTake, PollTakeUndelivered, PollPending, history
  <1>11. CASE SkipDropped
    BY <1>3, <1>11 DEF SkipDropped, history
  <1>12. CASE InternalEnqueued \/ InternalDequeued
    BY <1>3, <1>12 DEF InternalEnqueued, InternalDequeued, history
  <1>13. CASE Release
    BY <1>3, <1>13 DEF Release, control, history
  <1>14. CASE UNCHANGED vars
    BY <1>3, <1>14 DEF vars, control, history
  <1>15. QED
    BY <1>4, <1>5, <1>6, <1>7, <1>8, <1>9, <1>10, <1>11, <1>12, <1>13, <1>14
       DEF Next, Offer, Drain

\* The two-stage queue, with its batches and its set of displaced ids, implements the
\* bounded first-in first-out mailbox, which hands back no message the policy lets in.
THEOREM QueueImplementsMailbox == Spec => ImplementsMailbox
  <1>1. Init => Mailbox!Init
    BY DEF Init, Mailbox!Init
  <1>2. QED
    BY <1>1, MailboxStep, TypeCorrect, WindowsHold, PTL
       DEF Spec, ImplementsMailbox, Mailbox!Spec

=============================================================================
