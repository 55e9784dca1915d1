-------------------------- MODULE EventBufferProofs --------------------------
(***************************************************************************)
(* Proofs about EventBuffer, for any set of events.  The order of the two  *)
(* vectors is stated element by element here (Ends), which is what the     *)
(* provers can work with; SuffixEnds says that this is IsSuffix.           *)
(***************************************************************************)
EXTENDS EventBuffer, SequenceTheorems, TLAPS

(* s is what t ends with. *)
Ends(s, t) ==
    /\ Len(s) <= Len(t)
    /\ \A i \in 1 .. Len(s) : s[i] = t[Len(t) - Len(s) + i]

(* Reversing a sequence keeps its length and mirrors its elements. *)
LEMMA ReverseElements ==
    ASSUME NEW S, NEW s \in Seq(S)
    PROVE  /\ Reverse(s) \in Seq(S)
           /\ Len(Reverse(s)) = Len(s)
           /\ \A i \in 1 .. Len(s) : Reverse(s)[i] = s[Len(s) - i + 1]
BY DEF Reverse

(* A sequence is a suffix of another just if the other ends with it. *)
LEMMA SuffixEnds ==
    ASSUME NEW S, NEW s \in Seq(S), NEW t \in Seq(S)
    PROVE  IsSuffix(s, t) <=> Ends(s, t)
<1> DEFINE r == Reverse(s)
           q == Reverse(t)
<1>1. /\ r \in Seq(S) /\ Len(r) = Len(s)
      /\ \A i \in 1 .. Len(s) : r[i] = s[Len(s) - i + 1]
  BY ReverseElements
<1>2. /\ q \in Seq(S) /\ Len(q) = Len(t)
      /\ \A i \in 1 .. Len(t) : q[i] = t[Len(t) - i + 1]
  BY ReverseElements
<1>3. IsSuffix(s, t) <=> Len(s) <= Len(t) /\ SubSeq(r, 1, Len(s)) = SubSeq(q, 1, Len(s))
  BY <1>1, <1>2 DEF IsSuffix, IsPrefix
<1> HIDE DEF r, q
<1>4. CASE Len(s) <= Len(t)
  <2>1. SubSeq(r, 1, Len(s)) = SubSeq(q, 1, Len(s))
          <=> \A i \in 1 .. Len(s) : r[i] = q[i]
    BY <1>1, <1>2, <1>4
  <2>2. ASSUME NEW i \in 1 .. Len(s)
        PROVE  r[i] = q[i] <=> s[Len(s) - i + 1] = t[Len(t) - i + 1]
    <3>1. i \in 1 .. Len(t)
      BY <1>4
    <3>2. QED  BY <3>1, <1>1, <1>2
  <2>3. ASSUME \A i \in 1 .. Len(s) : s[Len(s) - i + 1] = t[Len(t) - i + 1],
               NEW j \in 1 .. Len(s)
        PROVE  s[j] = t[Len(t) - Len(s) + j]
    <3>1. Len(s) - j + 1 \in 1 .. Len(s)
      OBVIOUS
    <3>2. s[Len(s) - (Len(s) - j + 1) + 1] = t[Len(t) - (Len(s) - j + 1) + 1]
      BY <2>3, <3>1
    <3>3. QED  BY <3>2
  <2>4. ASSUME \A j \in 1 .. Len(s) : s[j] = t[Len(t) - Len(s) + j],
               NEW i \in 1 .. Len(s)
        PROVE  s[Len(s) - i + 1] = t[Len(t) - i + 1]
    <3>1. Len(s) - i + 1 \in 1 .. Len(s)
      OBVIOUS
    <3>2. s[Len(s) - i + 1] = t[Len(t) - Len(s) + (Len(s) - i + 1)]
      BY <2>4, <3>1
    <3>3. QED  BY <3>2
  <2>5. QED  BY <1>3, <1>4, <2>1, <2>2, <2>3, <2>4 DEF Ends
<1>5. CASE ~(Len(s) <= Len(t))
  BY <1>3, <1>5 DEF Ends
<1>6. QED  BY <1>4, <1>5

(* Appending the same element to both keeps it so. *)
LEMMA AppendEnds ==
    ASSUME NEW S, NEW s \in Seq(S), NEW t \in Seq(S), NEW e \in S, Ends(s, t)
    PROVE  Ends(Append(s, e), Append(t, e))
<1> DEFINE u == Append(s, e)
           v == Append(t, e)
<1>1. Len(u) = Len(s) + 1 /\ Len(v) = Len(t) + 1 /\ Len(s) <= Len(t)
  BY DEF Ends
<1>2. ASSUME NEW i \in 1 .. Len(u) PROVE u[i] = v[Len(v) - Len(u) + i]
  <2>1. CASE i \in 1 .. Len(s)
    <3>1. s[i] = t[Len(t) - Len(s) + i]
      BY <2>1 DEF Ends
    <3>2. Len(t) - Len(s) + i \in 1 .. Len(t)
      BY <1>1, <2>1
    <3>3. Len(v) - Len(u) + i = Len(t) - Len(s) + i
      BY <1>1
    <3>4. QED  BY <2>1, <3>1, <3>2, <3>3
  <2>2. CASE i = Len(s) + 1
    BY <1>1, <2>2
  <2>3. QED  BY <1>1, <2>1, <2>2
<1>3. Len(u) <= Len(v)
  BY <1>1
<1>4. QED
  <2> HIDE DEF u, v
  <2>1. Ends(u, v)
    BY <1>2, <1>3 DEF Ends
  <2>2. QED  BY <2>1 DEF u, v

(* A cleared vector is a vector. *)
LEMMA EmptyVector == <<>> \in Seq(Events)
OBVIOUS

-----------------------------------------------------------------------------
(* Every operation keeps the types. *)
LEMMA TypeStep == TypeOK /\ [Next]_bufferVars => TypeOK'
<1> SUFFICES ASSUME TypeOK, [Next]_bufferVars PROVE TypeOK'
  OBVIOUS
<1> USE DEF TypeOK, Clearing
<1>1. ASSUME NEW e \in Events, PushEvent(e) PROVE TypeOK'
  BY <1>1 DEF PushEvent
<1>2. CASE GetEvents
  <2>1. ToSet(dataEvents) \subseteq Events
    BY DEF ToSet
  <2>2. QED  BY <1>2, <2>1, EmptyVector DEF GetEvents
<1>3. CASE ClearEvents
  BY <1>3 DEF ClearEvents
<1>4. ASSUME NEW found \in BOOLEAN, QueryLost(found) PROVE TypeOK'
  BY <1>4 DEF QueryLost
<1>5. CASE BeginClearLost
  BY <1>5 DEF BeginClearLost
<1>6. CASE DeleteLost
  BY <1>6 DEF DeleteLost
<1>7. CASE ClearDataVector
  BY <1>7, EmptyVector DEF ClearDataVector
<1>8. CASE ClearNewVector
  BY <1>8, EmptyVector DEF ClearNewVector
<1>9. CASE Restart
  BY <1>9, EmptyVector DEF Restart
<1>10. CASE UNCHANGED bufferVars
  BY <1>10 DEF bufferVars
<1>11. QED
  BY <1>1, <1>2, <1>3, <1>4, <1>5, <1>6, <1>7, <1>8, <1>9, <1>10 DEF Next

(* Every variable keeps to its type, whatever the order of the operations. *)
THEOREM TypeCorrect == Spec => []TypeOK
<1>1. Init => TypeOK
  BY EmptyVector DEF Init, TypeOK, Clearing
<1>2. QED  BY <1>1, TypeStep, PTL DEF Spec

-----------------------------------------------------------------------------
(* The inductive invariant: the order of the two vectors, what the part of *)
(* dataEvents before the tail consists of, and, while newDataEvents waits  *)
(* for its clear, that dataEvents holds nothing but what has slipped in.   *)
Order ==
    IF clearing = "clearNew"
    THEN Ends(dataEvents, newDataEvents)
    ELSE Ends(newDataEvents, dataEvents)

OnlySlipped ==
    clearing = "clearNew" => \A i \in 1 .. Len(dataEvents) : dataEvents[i] \in slipped

IInv == TypeOK /\ Order /\ HeadWasReported /\ OnlySlipped

(* Empty vectors are in order. *)
LEMMA InitOrder == Init => Order /\ HeadWasReported /\ OnlySlipped
BY DEF Init, Order, Ends, HeadWasReported, OnlySlipped

(* A push appends the event to both vectors, which keeps their order. *)
LEMMA PushKeepsOrder ==
    ASSUME IInv, TypeOK', NEW e \in Events, PushEvent(e)
    PROVE  Order' /\ HeadWasReported' /\ OnlySlipped'
<1> USE DEF IInv, TypeOK
<1>1. /\ Len(dataEvents') = Len(dataEvents) + 1
      /\ Len(newDataEvents') = Len(newDataEvents) + 1
      /\ \A i \in 1 .. Len(dataEvents) : dataEvents'[i] = dataEvents[i]
      /\ \A i \in 1 .. Len(newDataEvents) : newDataEvents'[i] = newDataEvents[i]
      /\ dataEvents'[Len(dataEvents) + 1] = e
      /\ newDataEvents'[Len(newDataEvents) + 1] = e
  BY DEF PushEvent
<1>2. clearing' = clearing /\ reported' = reported
  BY DEF PushEvent
<1>3. CASE clearing = "clearNew"
  <2>1. Ends(dataEvents, newDataEvents)
    BY <1>3 DEF Order
  <2>2. Ends(dataEvents', newDataEvents')
    BY <2>1, AppendEnds DEF PushEvent
  <2>3. slipped' = slipped \union {e}
    BY <1>3 DEF PushEvent
  <2>4. OnlySlipped'
    BY <1>1, <1>2, <1>3, <2>3 DEF OnlySlipped
  <2>5. QED  BY <1>2, <1>3, <2>2, <2>4 DEF Order, HeadWasReported
<1>4. CASE clearing # "clearNew"
  <2>1. Ends(newDataEvents, dataEvents)
    BY <1>4 DEF Order
  <2>2. Ends(newDataEvents', dataEvents')
    BY <2>1, AppendEnds DEF PushEvent
  <2>3. slipped' = slipped
    BY <1>4 DEF PushEvent
  <2>4. ASSUME NEW i \in 1 .. Len(dataEvents') - Len(newDataEvents')
        PROVE  dataEvents'[i] \in reported' \union slipped'
    <3>1. i \in 1 .. Len(dataEvents) - Len(newDataEvents) /\ i \in 1 .. Len(dataEvents)
      BY <1>1, <2>1
    <3>2. dataEvents'[i] = dataEvents[i]
      BY <1>1, <3>1
    <3>3. QED  BY <1>2, <1>4, <2>3, <3>1, <3>2 DEF HeadWasReported
  <2>5. QED  BY <1>2, <1>4, <2>2, <2>4 DEF Order, HeadWasReported, OnlySlipped
<1>5. QED  BY <1>3, <1>4

(* So does every other operation, the unlocked clears included. *)
LEMMA StepKeepsOrder ==
    ASSUME IInv, TypeOK', [Next]_bufferVars
    PROVE  Order' /\ HeadWasReported' /\ OnlySlipped'
<1> USE DEF IInv, TypeOK
<1> DEFINE Goal == Order' /\ HeadWasReported' /\ OnlySlipped'
<1>1. ASSUME NEW e \in Events, PushEvent(e) PROVE Goal
  BY <1>1, PushKeepsOrder
<1>2. CASE GetEvents
  <2>1. \A i \in 1 .. Len(dataEvents) : dataEvents[i] \in reported'
    BY <1>2 DEF GetEvents, ToSet
  <2>2. QED  BY <1>2, <2>1 DEF GetEvents, Order, Ends, HeadWasReported, OnlySlipped
<1>3. CASE ClearEvents
  BY <1>3 DEF ClearEvents, Order, Ends, HeadWasReported, OnlySlipped
<1>4. ASSUME NEW found \in BOOLEAN, QueryLost(found) PROVE Goal
  BY <1>4 DEF QueryLost, Order, HeadWasReported, OnlySlipped, Ends
<1>5. CASE BeginClearLost
  BY <1>5 DEF BeginClearLost, Order, HeadWasReported, OnlySlipped, Ends
<1>6. CASE DeleteLost
  BY <1>6 DEF DeleteLost, Order, HeadWasReported, OnlySlipped, Ends
<1>7. CASE ClearDataVector
  BY <1>7 DEF ClearDataVector, Order, Ends, HeadWasReported, OnlySlipped
<1>8. CASE ClearNewVector
  BY <1>8 DEF ClearNewVector, Order, Ends, HeadWasReported, OnlySlipped
<1>9. CASE Restart
  BY <1>9 DEF Restart, Order, Ends, HeadWasReported, OnlySlipped
<1>10. CASE UNCHANGED bufferVars
  BY <1>10 DEF bufferVars, Order, Ends, HeadWasReported, OnlySlipped
<1>11. QED
  BY <1>1, <1>2, <1>3, <1>4, <1>5, <1>6, <1>7, <1>8, <1>9, <1>10 DEF Next

(* The invariant holds of every run of the two threads, restarts included. *)
THEOREM Inductive == Spec => []IInv
<1>1. Init /\ TypeOK => IInv
  BY InitOrder DEF IInv
<1>2. IInv /\ TypeOK' /\ [Next]_bufferVars => IInv'
  BY StepKeepsOrder DEF IInv
<1>3. QED  BY <1>1, <1>2, TypeCorrect, PTL DEF Spec

-----------------------------------------------------------------------------
(* The events queued for later are always the tail of all events (the      *)
(* other way round inside the unlocked clears), so that clear_events keeps *)
(* a contiguous tail.                                                      *)
THEOREM LaterEventsTail == Spec => []LaterEventsAreTail
<1>1. IInv => LaterEventsAreTail
  BY SuffixEnds DEF IInv, TypeOK, Order, LaterEventsAreTail
<1>2. QED  BY <1>1, Inductive, PTL

(* Whatever precedes that tail was listed in a reply or slipped in. *)
THEOREM HeadReported == Spec => []HeadWasReported
<1>1. IInv => HeadWasReported
  BY DEF IInv
<1>2. QED  BY <1>1, Inductive, PTL

(* clear_events removes no event that no reply has listed, apart from one  *)
(* that arrived between the two unlocked clears.                           *)
THEOREM ClearIsSafe == Spec => ClearDropsOnlyReported
<1> DEFINE Safe == ClearEvents =>
             ToSet(dataEvents) \ ToSet(dataEvents') \subseteq reported \union slipped
<1>1. IInv => Safe
  <2> SUFFICES ASSUME IInv, ClearEvents,
                      NEW e \in ToSet(dataEvents) \ ToSet(dataEvents')
               PROVE  e \in reported \union slipped
    OBVIOUS
  <2> USE DEF IInv, TypeOK
  <2> DEFINE d == Len(dataEvents) - Len(newDataEvents)
  <2>1. clearing = "no" /\ dataEvents' = newDataEvents
    BY DEF ClearEvents
  <2>2. Ends(newDataEvents, dataEvents)
    BY <2>1 DEF Order
  <2>3. PICK i \in 1 .. Len(dataEvents) : e = dataEvents[i]
    BY DEF ToSet
  <2>4. CASE i \in 1 .. d
    BY <2>1, <2>3, <2>4 DEF HeadWasReported
  <2>5. CASE i \notin 1 .. d
    <3>1. i - d \in 1 .. Len(newDataEvents)
      BY <2>2, <2>5 DEF Ends
    <3>2. newDataEvents[i - d] = dataEvents[i]
      BY <2>2, <3>1 DEF Ends
    <3>3. e \in ToSet(dataEvents')
      BY <2>1, <2>3, <3>1, <3>2 DEF ToSet
    <3>4. QED  BY <3>3
  <2>6. QED  BY <2>4, <2>5
<1>2. QED  BY <1>1, Inductive, PTL DEF ClearDropsOnlyReported
=============================================================================
