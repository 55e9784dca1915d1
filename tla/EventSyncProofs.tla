--------------------------- MODULE EventSyncProofs ---------------------------
(***************************************************************************)
(* Proofs about EventSync, for any set of events and any bounds: type      *)
(* correctness, that no event is forgotten, and that the event path        *)
(* implements EventCustody.  They rest on what EventBufferProofs shows of  *)
(* the two vectors: every step but Drop is a step of EventBuffer or leaves *)
(* the buffer alone.                                                       *)
(***************************************************************************)
EXTENDS EventSync, EventBufferProofs

\* In phase p the server is waiting for the effect of the command.
Serves(p, name) ==
    \/ name = "get" /\ p = "asked"
    \/ name = "clear" /\ p = "clearing"
    \/ name = "clearLost" /\ p = "recovering"

\* A command is the core's own question or one the server waits for.
Fits(p, c) == IF c.name = "queryLost" THEN ~c.current ELSE Serves(p, c.name)

\* Only questions of the core's own follow the command still awaited.
CommandsFit ==
    \A i \in 1 .. Len(commands) :
        /\ Fits(phase, commands[i])
        /\ commands[i].current =>
             \A j \in i + 1 .. Len(commands) : commands[j].name = "queryLost"

\* The unlocked clears are those of the command at the head of the queue.
ClearingFits ==
    clearing # "no" =>
        /\ phase = "recovering"
        /\ commands # <<>>
        /\ Head(commands).name = "clearLost"

\* What clear_events would drop.
HeadEvents == {dataEvents[i] : i \in 1 .. Len(dataEvents) - Len(newDataEvents)}

\* While the awaited reply is under way no command changes the head.
Awaited(k) ==
    /\ Serves(phase, replies[k].name)
    /\ clearing = "no"
    /\ \A i \in 1 .. Len(commands) : commands[i].name = "queryLost"
    /\ \A l \in 1 .. Len(replies) : replies[l].current => l = k
    /\ replies[k].name = "get" => HeadEvents \subseteq replies[k].events

RepliesFit == \A k \in 1 .. Len(replies) : replies[k].current => Awaited(k)

\* The server orders the clear only of what it has.
Covered == phase \in {"stored", "clearing"} => HeadEvents \subseteq received

\* Nobody knows of an event that did not arrive.
Known ==
    /\ ToSet(dataEvents) \union received \union gone \subseteq arrived
    /\ \A k \in 1 .. Len(replies) : replies[k].events \subseteq arrived

Messages == CommandsFit /\ ClearingFits /\ RepliesFit /\ Covered

Accounts == Known /\ NoEventForgotten

SyncInv ==
    /\ SyncTypeOK
    /\ Order /\ HeadWasReported /\ OnlySlipped
    /\ Messages /\ Accounts

-----------------------------------------------------------------------------
(* What the steps do to a sequence, element by element.                    *)
LEMMA TailElements ==
    ASSUME NEW S, NEW s \in Seq(S), s # <<>>
    PROVE  /\ Tail(s) \in Seq(S)
           /\ Len(s) >= 1
           /\ Len(Tail(s)) = Len(s) - 1
           /\ Head(s) \in S /\ Head(s) = s[1]
           /\ \A i \in 1 .. Len(Tail(s)) : i + 1 \in 1 .. Len(s) /\ Tail(s)[i] = s[i + 1]
BY HeadTailProperties

LEMMA AppendElements ==
    ASSUME NEW S, NEW s \in Seq(S), NEW e \in S
    PROVE  /\ Append(s, e) \in Seq(S)
           /\ Append(s, e) # <<>>
           /\ Len(Append(s, e)) = Len(s) + 1
           /\ Append(s, e)[Len(s) + 1] = e
           /\ \A i \in 1 .. Len(s) : Append(s, e)[i] = s[i]
BY AppendProperties

LEMMA SetOfSequence ==
    ASSUME NEW S, NEW s \in Seq(S)
    PROVE  /\ ToSet(s) = {s[i] : i \in 1 .. Len(s)}
           /\ ToSet(s) \subseteq S
BY DEF ToSet

LEMMA SetOfEmpty == ToSet(<<>>) = {}
BY DEF ToSet

LEMMA SetOfAppend ==
    ASSUME NEW S, NEW s \in Seq(S), NEW e \in S
    PROVE  ToSet(Append(s, e)) = ToSet(s) \union {e}
<1> DEFINE t == Append(s, e)
<1>1. /\ t \in Seq(S) /\ Len(t) = Len(s) + 1 /\ t[Len(s) + 1] = e
      /\ \A i \in 1 .. Len(s) : t[i] = s[i]
  BY AppendElements
<1>2. ToSet(t) = {t[i] : i \in 1 .. Len(t)} /\ ToSet(s) = {s[i] : i \in 1 .. Len(s)}
  BY <1>1, SetOfSequence
<1> HIDE DEF t
<1>3. QED  BY <1>1, <1>2 DEF t

\* A command that is awaited no more is the same command still.
LEMMA NoLongerCurrentCommands ==
    ASSUME NEW s \in Seq(Command)
    PROVE  /\ NoLongerCurrent(s) \in Seq(Command)
           /\ Len(NoLongerCurrent(s)) = Len(s)
           /\ \A i \in 1 .. Len(s) : /\ NoLongerCurrent(s)[i].name = s[i].name
                                     /\ ~NoLongerCurrent(s)[i].current
<1>1. \A i \in 1 .. Len(s) : s[i] \in Command
  OBVIOUS
<1>2. \A c \in Command : [c EXCEPT !.current = FALSE] \in Command
  BY DEF Command
<1>3. \A c \in Command : [c EXCEPT !.current = FALSE].name = c.name
                         /\ ~[c EXCEPT !.current = FALSE].current
  BY DEF Command
<1>4. DOMAIN s = 1 .. Len(s)
  OBVIOUS
<1>5. NoLongerCurrent(s) = [i \in 1 .. Len(s) |-> [s[i] EXCEPT !.current = FALSE]]
  BY <1>4 DEF NoLongerCurrent
<1>6. \A i \in 1 .. Len(s) : NoLongerCurrent(s)[i] = [s[i] EXCEPT !.current = FALSE]
  BY <1>5
<1>7. NoLongerCurrent(s) \in Seq(Command) /\ Len(NoLongerCurrent(s)) = Len(s)
  BY <1>1, <1>2, <1>5, IsASeq, LenProperties
<1>8. QED  BY <1>1, <1>3, <1>6, <1>7

\* So is a reply, with its events.
LEMMA NoLongerCurrentReplies ==
    ASSUME NEW s \in Seq(Reply)
    PROVE  /\ NoLongerCurrent(s) \in Seq(Reply)
           /\ Len(NoLongerCurrent(s)) = Len(s)
           /\ \A i \in 1 .. Len(s) : /\ NoLongerCurrent(s)[i].events = s[i].events
                                     /\ ~NoLongerCurrent(s)[i].current
<1>1. \A i \in 1 .. Len(s) : s[i] \in Reply
  OBVIOUS
<1>2. \A r \in Reply : [r EXCEPT !.current = FALSE] \in Reply
  BY DEF Reply
<1>3. \A r \in Reply : [r EXCEPT !.current = FALSE].events = r.events
                       /\ ~[r EXCEPT !.current = FALSE].current
  BY DEF Reply
<1>4. DOMAIN s = 1 .. Len(s)
  OBVIOUS
<1>5. NoLongerCurrent(s) = [i \in 1 .. Len(s) |-> [s[i] EXCEPT !.current = FALSE]]
  BY <1>4 DEF NoLongerCurrent
<1>6. \A i \in 1 .. Len(s) : NoLongerCurrent(s)[i] = [s[i] EXCEPT !.current = FALSE]
  BY <1>5
<1>7. NoLongerCurrent(s) \in Seq(Reply) /\ Len(NoLongerCurrent(s)) = Len(s)
  BY <1>1, <1>2, <1>5, IsASeq, LenProperties
<1>8. QED  BY <1>1, <1>3, <1>6, <1>7

-----------------------------------------------------------------------------
(* Every step but Drop is a step of the buffer or leaves it alone.         *)
LEMMA BufferStep ==
    SyncTypeOK /\ [SyncNext]_allVars =>
      [Next]_bufferVars \/ \E e \in Events : Drop(e)
<1> SUFFICES ASSUME SyncTypeOK, [SyncNext]_allVars,
                    ~\E e \in Events : Drop(e)
             PROVE  [Next]_bufferVars
  OBVIOUS
<1>1. ASSUME NEW e \in Events, Forward(e) PROVE Next
  BY <1>1 DEF Forward, Next
<1>2. CASE QuickBooksOutage \/ PollTimeout \/ PollFails \/ ReplyArrives \/ ReplyLost
           \/ Poll \/ CheckCompany \/ GoOffline \/ CoreStarts \/ RunClearLostTooLate
  BY <1>2 DEF QuickBooksOutage, PollTimeout, PollFails, ReplyArrives, ReplyLost, Poll,
              CheckCompany, GoOffline, CoreStarts, RunClearLostTooLate
<1>3. CASE AskForEvents \/ AskToClear \/ AskToRecover
  BY <1>3 DEF AskForEvents, AskToClear, AskToRecover, SendCommand
<1>4. CASE RequestThread
  <2>1. ASSUME QueryLost(qbLost) PROVE Next
    BY <2>1 DEF SyncTypeOK, Next
  <2>2. ASSUME QueryLost(FALSE) PROVE Next
    BY <2>2 DEF Next
  <2>3. CASE RunQueryLost
    BY <2>1, <2>2, <2>3 DEF RunQueryLost
  <2>4. QED
    BY <1>2, <1>4, <2>3 DEF RequestThread, RunGetEvents, RunClearEvents,
                            RunBeginClearLost, RunDeleteLost, RunClearDataVector,
                            RunClearNewVector, Next
<1>5. CASE CoreEnds
  BY <1>5 DEF CoreEnds, Next
<1>6. CASE UNCHANGED allVars
  BY <1>6 DEF allVars
<1>7. QED  BY <1>1, <1>2, <1>3, <1>4, <1>5, <1>6 DEF SyncNext

\* Drop touches none of what the buffer's types and order speak of.
LEMMA DropKeepsBuffer ==
    ASSUME TypeOK, NEW e \in Events, Drop(e)
    PROVE  /\ TypeOK'
           /\ Order /\ HeadWasReported /\ OnlySlipped =>
                Order' /\ HeadWasReported' /\ OnlySlipped'
           /\ UNCHANGED <<dataEvents, newDataEvents, clearing>>
BY DEF Drop, TypeOK, Order, HeadWasReported, OnlySlipped, Ends

LEMMA BufferKept ==
    ASSUME SyncTypeOK, Order, HeadWasReported, OnlySlipped, [SyncNext]_allVars
    PROVE  TypeOK' /\ Order' /\ HeadWasReported' /\ OnlySlipped'
<1>1. TypeOK
  BY DEF SyncTypeOK
<1>2. CASE [Next]_bufferVars
  BY <1>1, <1>2, TypeStep, StepKeepsOrder DEF IInv
<1>3. CASE \E e \in Events : Drop(e)
  BY <1>1, <1>3, DropKeepsBuffer
<1>4. QED  BY <1>2, <1>3, BufferStep

-----------------------------------------------------------------------------
(* Types.                                                                  *)
LEMMA AnswerTypes ==
    ASSUME SyncTypeOK, commands # <<>>, NEW E \in SUBSET Events, Answer(E)
    PROVE  commands' \in Seq(Command) /\ replies' \in Seq(Reply)
<1>1. commands \in Seq(Command) /\ replies \in Seq(Reply)
  BY DEF SyncTypeOK
<1>2. Tail(commands) \in Seq(Command) /\ Head(commands) \in Command
  BY <1>1, TailElements
<1>3. [name |-> Head(commands).name, current |-> Head(commands).current, events |-> E]
        \in Reply
  BY <1>2 DEF Command, Reply
<1>4. QED  BY <1>1, <1>2, <1>3, AppendElements DEF Answer

LEMMA SendTypes ==
    ASSUME SyncTypeOK, NEW name \in CommandNames, SendCommand(name)
    PROVE  /\ commands' \in Seq(Command) /\ replies' \in Seq(Reply)
           /\ polling' \in BOOLEAN /\ hasty' \in 0 .. MaxHasty
<1>1. commands \in Seq(Command) /\ replies \in Seq(Reply)
  BY DEF SyncTypeOK
<1>2. [name |-> name, current |-> TRUE] \in Command
  BY DEF Command
<1>3. NoLongerCurrent(commands) \in Seq(Command)
  BY <1>1, NoLongerCurrentCommands
<1>4. Append(NoLongerCurrent(commands), [name |-> name, current |-> TRUE]) \in Seq(Command)
  BY <1>2, <1>3, AppendElements
<1>5. replies' \in Seq(Reply)
  BY <1>1, NoLongerCurrentReplies DEF SendCommand
<1>6. hasty' \in 0 .. MaxHasty
  BY SyncAssumption DEF SyncTypeOK, SendCommand
<1>7. QED  BY <1>3, <1>4, <1>5, <1>6 DEF SendCommand

LEMMA QuestionTypes ==
    ASSUME SyncTypeOK, PollTimeout
    PROVE  commands' \in Seq(Command) /\ polling' \in BOOLEAN
<1>1. [name |-> "queryLost", current |-> FALSE] \in Command
  BY DEF Command, CommandNames
<1>2. Append(commands, [name |-> "queryLost", current |-> FALSE]) \in Seq(Command)
  BY <1>1, AppendElements DEF SyncTypeOK
<1>3. commands' \in Seq(Command)
  BY <1>2 DEF SyncTypeOK, PollTimeout
<1>4. QED  BY <1>3 DEF PollTimeout

LEMMA PollTypes ==
    ASSUME SyncTypeOK, Poll
    PROVE  advertised' \in [events : BOOLEAN, lost : BOOLEAN] /\ polling' \in BOOLEAN
<1>1. lostDataEvents \in BOOLEAN
  BY DEF SyncTypeOK, TypeOK
<1>2. (dataEvents # <<>>) \in BOOLEAN
  BY Zenon
<1>3. \A a, b \in BOOLEAN : [events |-> a, lost |-> b] \in [events : BOOLEAN, lost : BOOLEAN]
  OBVIOUS
<1>4. QED  BY <1>1, <1>2, <1>3, Zenon DEF Poll

LEMMA ReplyTypes ==
    ASSUME SyncTypeOK, ReplyArrives \/ ReplyLost
    PROVE  replies' \in Seq(Reply) /\ phase' \in Phases /\ received' \subseteq Events
<1>1. replies \in Seq(Reply) /\ phase \in Phases /\ received \subseteq Events
  BY DEF SyncTypeOK
<1>2. replies # <<>> /\ replies' = Tail(replies)
  BY DEF ReplyArrives, ReplyLost
<1>3. Tail(replies) \in Seq(Reply) /\ Head(replies) \in Reply
  BY <1>1, <1>2, TailElements
<1>4. Head(replies).events \subseteq Events
  BY <1>3 DEF Reply
<1>5. QED  BY <1>1, <1>2, <1>3, <1>4 DEF ReplyArrives, ReplyLost, Phases

LEMMA CoreEndsTypes ==
    ASSUME SyncTypeOK, CoreEnds
    PROVE  /\ commands' = <<>> /\ replies' \in Seq(Reply)
           /\ Len(replies') <= Len(replies)
           /\ \A k \in 1 .. Len(replies') : replies'[k] = replies[k]
           /\ gone' \subseteq Events /\ restarts' \in 0 .. MaxRestarts
<1>1. replies \in Seq(Reply)
  BY DEF SyncTypeOK
<1>2. PICK l \in 0 .. Len(replies) : replies' = SubSeq(replies, 1, l)
  BY DEF CoreEnds, Prefixes
<1>3. /\ replies' \in Seq(Reply)
      /\ Len(replies') <= Len(replies)
      /\ \A k \in 1 .. Len(replies') : replies'[k] = replies[k]
  BY <1>1, <1>2, SubSeqProperties
<1>4. ToSet(dataEvents) \subseteq Events
  BY SetOfSequence DEF SyncTypeOK, TypeOK
<1>5. restarts' \in 0 .. MaxRestarts
  BY SyncAssumption DEF CoreEnds, SyncTypeOK
<1>6. gone' \subseteq Events
  BY <1>4 DEF SyncTypeOK, CoreEnds
<1>7. QED  BY <1>3, <1>5, <1>6 DEF CoreEnds

LEMMA SyncTypeStep ==
    ASSUME SyncTypeOK, ClearingFits, TypeOK', [SyncNext]_allVars
    PROVE  SyncTypeOK'
<1> USE DEF coreState
<1>1. ASSUME NEW e \in Events, Forward(e) PROVE SyncTypeOK'
  BY <1>1 DEF Forward, syncVars, SyncTypeOK
<1>2. ASSUME NEW e \in Events, Drop(e) PROVE SyncTypeOK'
  BY <1>2 DEF Drop, SyncTypeOK
<1>3. CASE QuickBooksOutage
  BY <1>3, SyncAssumption DEF QuickBooksOutage, SyncTypeOK
<1>4. CASE PollTimeout
  BY <1>4, QuestionTypes DEF PollTimeout, SyncTypeOK
<1>5. CASE PollFails
  BY <1>5 DEF PollFails, SyncTypeOK
<1>6. CASE AskForEvents
  <2>1. SendCommand("get") /\ "get" \in CommandNames /\ phase' = "asked"
    BY <1>6 DEF AskForEvents, CommandNames
  <2>2. QED  BY <2>1, SendTypes DEF SendCommand, SyncTypeOK, Phases
<1>7. CASE AskToClear
  <2>1. SendCommand("clear") /\ "clear" \in CommandNames /\ phase' = "clearing"
    BY <1>7 DEF AskToClear, CommandNames
  <2>2. QED  BY <2>1, SendTypes DEF SendCommand, SyncTypeOK, Phases
<1>8. CASE AskToRecover
  <2>1. SendCommand("clearLost") /\ "clearLost" \in CommandNames /\ phase' = "recovering"
    BY <1>8 DEF AskToRecover, CommandNames
  <2>2. QED  BY <2>1, SendTypes DEF SendCommand, SyncTypeOK, Phases
<1>9. CASE ReplyArrives \/ ReplyLost
  <2>1. replies' \in Seq(Reply) /\ phase' \in Phases /\ received' \subseteq Events
    BY <1>9, ReplyTypes
  <2>2. UNCHANGED <<bufferVars, coreState, polling, advertised, commands, gone, qbLost,
                    restarts, outages, failures, hasty>>
    BY <1>9 DEF ReplyArrives, ReplyLost
  <2>3. QED  BY <2>1, <2>2 DEF SyncTypeOK
<1>10. CASE Poll
  <2>1. advertised' \in [events : BOOLEAN, lost : BOOLEAN] /\ polling' \in BOOLEAN
    BY <1>10, PollTypes
  <2>2. UNCHANGED <<bufferVars, coreState, commands, replies, phase, received, gone, qbLost,
                    restarts, outages, failures, hasty>>
    BY <1>10 DEF Poll
  <2>3. QED  BY <2>1, <2>2 DEF SyncTypeOK
<1>11. CASE RunGetEvents
  <2>1. ToSet(dataEvents) \in SUBSET Events
    BY SetOfSequence DEF SyncTypeOK, TypeOK
  <2>2. commands' \in Seq(Command) /\ replies' \in Seq(Reply)
    BY <1>11, <2>1, AnswerTypes DEF RunGetEvents, NextCommandIs
  <2>3. QED  BY <1>11, <2>2 DEF RunGetEvents, SyncTypeOK
<1>12. CASE RunClearEvents
  <2>1. commands' \in Seq(Command) /\ replies' \in Seq(Reply)
    BY <1>12, AnswerTypes DEF RunClearEvents, NextCommandIs
  <2>2. QED  BY <1>12, <2>1 DEF RunClearEvents, SyncTypeOK
<1>13. CASE RunQueryLost
  <2>1. commands' \in Seq(Command)
    BY <1>13, TailElements DEF RunQueryLost, NextCommandIs, SyncTypeOK
  <2>2. failures' = failures \/ QuickBooksFails
    BY <1>13, Zenon DEF RunQueryLost
  <2>3. failures' \in 0 .. MaxFailures
    BY <2>2, SyncAssumption DEF QuickBooksFails, SyncTypeOK
  <2>4. QED  BY <1>13, <2>1, <2>3 DEF RunQueryLost, SyncTypeOK
<1>14. CASE RunBeginClearLost
  BY <1>14 DEF RunBeginClearLost, syncVars, SyncTypeOK
<1>15. CASE RunDeleteLost
  <2>1. failures' \in 0 .. MaxFailures
    BY <1>15, SyncAssumption DEF RunDeleteLost, QuickBooksFails, SyncTypeOK
  <2>2. QED  BY <1>15, <2>1 DEF RunDeleteLost, SyncTypeOK
<1>16. CASE RunClearDataVector
  <2>1. gone' \subseteq Events
    BY <1>16, SetOfSequence DEF RunClearDataVector, SyncTypeOK, TypeOK
  <2>2. QED  BY <1>16, <2>1 DEF RunClearDataVector, SyncTypeOK
<1>17. CASE RunClearNewVector
  <2>1. commands # <<>>
    BY <1>17 DEF RunClearNewVector, ClearNewVector, ClearingFits
  <2>2. commands' \in Seq(Command) /\ replies' \in Seq(Reply)
    BY <1>17, <2>1, AnswerTypes DEF RunClearNewVector
  <2>3. QED  BY <1>17, <2>2 DEF RunClearNewVector, SyncTypeOK
<1>18. CASE CoreEnds
  <2>1. /\ commands' \in Seq(Command) /\ replies' \in Seq(Reply)
        /\ gone' \subseteq Events /\ restarts' \in 0 .. MaxRestarts
    BY <1>18, CoreEndsTypes, EmptySeq
  <2>2. QED  BY <1>18, <2>1 DEF CoreEnds, SyncTypeOK
<1>19. CASE CoreStarts
  BY <1>19 DEF CoreStarts, SyncTypeOK
<1>20. CASE UNCHANGED allVars
  BY <1>20 DEF allVars, syncVars, SyncTypeOK
<1>21. CASE RunClearLostTooLate
  <2>1. commands' \in Seq(Command) /\ replies' \in Seq(Reply)
    BY <1>21, AnswerTypes DEF RunClearLostTooLate, NextCommandIs
  <2>2. QED  BY <1>21, <2>1 DEF RunClearLostTooLate, SyncTypeOK
<1>22. CASE CheckCompany \/ GoOffline
  BY <1>22 DEF CheckCompany, GoOffline, SyncTypeOK
<1>23. QED
  BY <1>1, <1>2, <1>3, <1>4, <1>5, <1>6, <1>7, <1>8, <1>9, <1>10, <1>11, <1>12, <1>13,
     <1>14, <1>15, <1>16, <1>17, <1>18, <1>19, <1>20, <1>21, <1>22 DEF SyncNext, RequestThread

-----------------------------------------------------------------------------
(* What clear_events would drop.  A push leaves it alone.                  *)
LEMMA HeadOfPush ==
    ASSUME TypeOK, NEW e \in Events, PushEvent(e)
    PROVE  HeadEvents' = HeadEvents
<1>1. /\ Len(dataEvents') = Len(dataEvents) + 1
      /\ Len(newDataEvents') = Len(newDataEvents) + 1
      /\ Len(dataEvents) \in Nat /\ Len(newDataEvents) \in Nat
      /\ \A i \in 1 .. Len(dataEvents) : dataEvents'[i] = dataEvents[i]
  BY DEF TypeOK, PushEvent
<1>2. Len(dataEvents') - Len(newDataEvents') = Len(dataEvents) - Len(newDataEvents)
  BY <1>1
<1>3. \A i \in 1 .. Len(dataEvents) - Len(newDataEvents) : dataEvents'[i] = dataEvents[i]
  BY <1>1
<1>4. QED  BY <1>2, <1>3 DEF HeadEvents

LEMMA HeadOfEmpty ==
    ASSUME TypeOK', dataEvents' = <<>>
    PROVE  HeadEvents' = {}
<1>1. Len(newDataEvents') \in Nat
  BY LenProperties DEF TypeOK
<1>2. 1 .. Len(dataEvents') - Len(newDataEvents') = {}
  BY <1>1
<1>3. QED  BY <1>2 DEF HeadEvents

LEMMA HeadOfClear ==
    ASSUME TypeOK', dataEvents' = newDataEvents'
    PROVE  HeadEvents' = {}
<1>1. Len(newDataEvents') \in Nat
  BY LenProperties DEF TypeOK
<1>2. 1 .. Len(dataEvents') - Len(newDataEvents') = {}
  BY <1>1
<1>3. QED  BY <1>2 DEF HeadEvents

LEMMA HeadOfAll ==
    ASSUME TypeOK, UNCHANGED dataEvents, newDataEvents' = <<>>
    PROVE  HeadEvents' = ToSet(dataEvents)
<1>1. Len(dataEvents) \in Nat
  BY LenProperties DEF TypeOK
<1>2. Len(dataEvents') - Len(newDataEvents') = Len(dataEvents)
  BY <1>1
<1>3. HeadEvents' = {dataEvents[i] : i \in 1 .. Len(dataEvents)}
  BY <1>2 DEF HeadEvents
<1>4. QED  BY <1>3, SetOfSequence DEF TypeOK

-----------------------------------------------------------------------------
(* Commands and replies.                                                   *)

\* The reply to the command just run is the only one the server may await.
LEMMA AnswerFits ==
    ASSUME SyncTypeOK, CommandsFit, RepliesFit, commands # <<>>,
           Head(commands).name # "queryLost", phase' = phase, clearing' = "no",
           NEW E \in SUBSET Events, Answer(E),
           Head(commands).name = "get" => HeadEvents' \subseteq E
    PROVE  CommandsFit' /\ RepliesFit'
<1>1. commands \in Seq(Command) /\ replies \in Seq(Reply)
  BY DEF SyncTypeOK
<1> DEFINE c == Head(commands)
           r == [name |-> c.name, current |-> c.current, events |-> E]
<1>2. /\ commands' \in Seq(Command)
      /\ Len(commands) >= 1 /\ Len(commands') = Len(commands) - 1
      /\ c \in Command /\ c = commands[1]
      /\ \A i \in 1 .. Len(commands') :
           i + 1 \in 1 .. Len(commands) /\ commands'[i] = commands[i + 1]
  BY <1>1, TailElements DEF Answer
<1>3. /\ Len(replies') = Len(replies) + 1 /\ Len(replies) \in Nat
      /\ replies'[Len(replies) + 1] = r
      /\ \A k \in 1 .. Len(replies) : replies'[k] = replies[k]
  <2>1. r \in Reply /\ replies' = Append(replies, r)
    BY <1>2 DEF Command, Reply, Answer
  <2>2. QED  BY <1>1, <2>1, AppendElements
<1>4. r.name = c.name /\ r.current = c.current /\ r.events = E
  OBVIOUS
<1> HIDE DEF c, r
<1>5. 1 \in 1 .. Len(commands) /\ c.name # "queryLost"
  BY <1>2 DEF c
<1>8. CommandsFit'
  <2> SUFFICES ASSUME NEW i \in 1 .. Len(commands')
               PROVE  /\ Fits(phase', commands'[i])
                      /\ commands'[i].current =>
                           \A j \in i + 1 .. Len(commands') :
                             commands'[j].name = "queryLost"
    BY DEF CommandsFit
  <2>1. i + 1 \in 1 .. Len(commands) /\ commands'[i] = commands[i + 1]
    BY <1>2
  <2>2. Fits(phase, commands[i + 1])
    BY <2>1 DEF CommandsFit
  <2>3. ASSUME commands'[i].current, NEW j \in i + 1 .. Len(commands')
        PROVE  commands'[j].name = "queryLost"
    <3>1. j \in 1 .. Len(commands') /\ j + 1 \in (i + 1) + 1 .. Len(commands)
      BY <1>2
    <3>2. commands'[j] = commands[j + 1]
      BY <1>2, <3>1
    <3>3. QED  BY <2>1, <2>3, <3>1, <3>2 DEF CommandsFit
  <2>4. QED  BY <2>1, <2>2, <2>3
<1>9. \A k \in 1 .. Len(replies) : ~replies[k].current
  BY <1>2, <1>5 DEF RepliesFit, Awaited
<1>10. RepliesFit'
  <2> SUFFICES ASSUME NEW k \in 1 .. Len(replies'), replies'[k].current
               PROVE  Awaited(k)'
    BY DEF RepliesFit
  <2>1. k = Len(replies) + 1 /\ replies'[k] = r
    BY <1>3, <1>9
  <2>2. c.current /\ Serves(phase, c.name)
    BY <1>2, <1>4, <1>5, <2>1 DEF CommandsFit, Fits
  <2>3. ASSUME NEW i \in 1 .. Len(commands') PROVE commands'[i].name = "queryLost"
    <3>1. i + 1 \in 1 + 1 .. Len(commands) /\ commands'[i] = commands[i + 1]
      BY <1>2
    <3>2. QED  BY <1>2, <1>5, <2>2, <3>1 DEF CommandsFit
  <2>4. ASSUME NEW l \in 1 .. Len(replies'), replies'[l].current PROVE l = k
    BY <1>3, <1>9, <2>1, <2>4
  <2>5. replies'[k].name = "get" => HeadEvents' \subseteq replies'[k].events
    BY <1>4, <2>1 DEF c
  <2>6. QED  BY <1>4, <2>1, <2>2, <2>3, <2>4, <2>5 DEF Awaited
<1>11. QED  BY <1>8, <1>10

\* A command sent makes every earlier one, and every reply, stale.
LEMMA SendFits ==
    ASSUME SyncTypeOK, NEW name \in CommandNames, SendCommand(name),
           name # "queryLost", Serves(phase', name),
           \A i \in 1 .. Len(commands) :
             commands[i].name = "queryLost" \/ Serves(phase', commands[i].name)
    PROVE  CommandsFit' /\ RepliesFit'
<1>1. commands \in Seq(Command) /\ replies \in Seq(Reply)
  BY DEF SyncTypeOK
<1> DEFINE old == NoLongerCurrent(commands)
           c == [name |-> name, current |-> TRUE]
<1>2. /\ old \in Seq(Command) /\ Len(old) = Len(commands)
      /\ \A i \in 1 .. Len(commands) : old[i].name = commands[i].name /\ ~old[i].current
  BY <1>1, NoLongerCurrentCommands
<1>3. c \in Command /\ c.name = name /\ c.current
  BY DEF Command
<1>4. commands' = old \/ commands' = Append(old, c)
  BY DEF SendCommand
<1> HIDE DEF old, c
<1>5. \A i \in 1 .. Len(commands) : Fits(phase', old[i]) /\ ~old[i].current
  BY <1>2 DEF Fits
<1>6. Fits(phase', c)
  BY <1>3 DEF Fits
<1>7. ASSUME commands' = old PROVE CommandsFit'
  BY <1>2, <1>5, <1>7 DEF CommandsFit
<1>8. ASSUME commands' = Append(old, c) PROVE CommandsFit'
  <2>1. /\ Len(commands') = Len(commands) + 1 /\ Len(commands) \in Nat
        /\ commands'[Len(commands) + 1] = c
        /\ \A i \in 1 .. Len(commands) : commands'[i] = old[i]
    BY <1>1, <1>2, <1>3, <1>8, AppendElements
  <2> SUFFICES ASSUME NEW i \in 1 .. Len(commands')
               PROVE  /\ Fits(phase', commands'[i])
                      /\ commands'[i].current =>
                           \A j \in i + 1 .. Len(commands') :
                             commands'[j].name = "queryLost"
    BY DEF CommandsFit
  <2>2. CASE i \in 1 .. Len(commands)
    BY <1>5, <2>1, <2>2
  <2>3. CASE i = Len(commands) + 1
    BY <1>6, <2>1, <2>3
  <2>4. QED  BY <2>1, <2>2, <2>3
<1>9. \A k \in 1 .. Len(replies') : ~replies'[k].current
  BY <1>1, NoLongerCurrentReplies DEF SendCommand
<1>10. RepliesFit'
  BY <1>9 DEF RepliesFit
<1>11. QED  BY <1>4, <1>7, <1>8, <1>10

\* The events the replies list stay the same.
LEMMA SendKnown ==
    ASSUME SyncTypeOK, NEW name \in CommandNames, SendCommand(name)
    PROVE  /\ Len(replies') = Len(replies)
           /\ \A k \in 1 .. Len(replies) : replies'[k].events = replies[k].events
BY NoLongerCurrentReplies DEF SyncTypeOK, SendCommand

\* The head of the queue stays where it is.
LEMMA SendKeepsHead ==
    ASSUME SyncTypeOK, NEW name \in CommandNames, SendCommand(name), commands # <<>>
    PROVE  commands' # <<>> /\ Head(commands').name = Head(commands).name
<1>1. commands \in Seq(Command)
  BY DEF SyncTypeOK
<1> DEFINE old == NoLongerCurrent(commands)
           c == [name |-> name, current |-> TRUE]
<1>2. Len(commands) >= 1 /\ Head(commands) = commands[1]
  BY <1>1, TailElements
<1>3. /\ old \in Seq(Command) /\ Len(old) = Len(commands)
      /\ old[1].name = commands[1].name
  BY <1>1, <1>2, NoLongerCurrentCommands
<1>4. c \in Command
  BY DEF Command
<1>5. commands' = old \/ commands' = Append(old, c)
  BY DEF SendCommand
<1> HIDE DEF old, c
<1>6. commands' \in Seq(Command) /\ commands' # <<>> /\ commands'[1] = old[1]
  BY <1>2, <1>3, <1>4, <1>5, AppendElements
<1>7. Head(commands') = commands'[1]
  BY <1>6, TailElements
<1>8. QED  BY <1>2, <1>3, <1>6, <1>7

-----------------------------------------------------------------------------
(* The invariant, step by step.  Of the events first: steps that move none *)
(* of them, an event that comes, is missed or stored.                      *)
LEMMA AccountsKept ==
    ASSUME Accounts, UNCHANGED <<dataEvents, arrived, received, gone>>,
           \A k \in 1 .. Len(replies') : replies'[k].events \subseteq arrived
    PROVE  Accounts'
BY DEF Accounts, Known, NoEventForgotten

LEMMA AccountsOfStep ==
    ASSUME Accounts, UNCHANGED <<dataEvents, arrived, received, gone, replies>>
    PROVE  Accounts'
BY DEF Accounts, Known, NoEventForgotten

LEMMA AccountsOfForward ==
    ASSUME SyncTypeOK, Accounts, NEW e \in Events, Forward(e)
    PROVE  Accounts'
<1>1. dataEvents' = Append(dataEvents, e) /\ arrived' = arrived \union {e}
      /\ UNCHANGED <<received, gone, replies>>
  BY DEF Forward, PushEvent, syncVars
<1>2. ToSet(dataEvents') = ToSet(dataEvents) \union {e}
  BY <1>1, SetOfAppend DEF SyncTypeOK, TypeOK
<1>3. QED  BY <1>1, <1>2 DEF Accounts, Known, NoEventForgotten

LEMMA AccountsOfDrop ==
    ASSUME Accounts, NEW e \in Events, Drop(e)
    PROVE  Accounts'
BY DEF Drop, Accounts, Known, NoEventForgotten

\* A reply lists events that have arrived.
LEMMA AccountsOfAnswer ==
    ASSUME SyncTypeOK, Accounts, commands # <<>>,
           NEW E \in SUBSET Events, Answer(E), E \subseteq arrived,
           UNCHANGED <<arrived, received, gone>>,
           ToSet(dataEvents') \subseteq ToSet(dataEvents),
           ToSet(dataEvents) \subseteq ToSet(dataEvents') \union received
    PROVE  Accounts'
<1> DEFINE r == [name |-> Head(commands).name, current |-> Head(commands).current,
                 events |-> E]
<1>1. Head(commands) \in Command /\ replies \in Seq(Reply)
  BY TailElements DEF SyncTypeOK
<1>2. r \in Reply /\ r.events = E /\ replies' = Append(replies, r)
  BY <1>1 DEF Command, Reply, Answer
<1> HIDE DEF r
<1>3. /\ Len(replies') = Len(replies) + 1 /\ Len(replies) \in Nat
      /\ replies'[Len(replies) + 1] = r
      /\ \A k \in 1 .. Len(replies) : replies'[k] = replies[k]
  BY <1>1, <1>2, AppendElements
<1>4. ASSUME NEW k \in 1 .. Len(replies') PROVE replies'[k].events \subseteq arrived
  BY <1>2, <1>3 DEF Accounts, Known
<1>5. QED  BY <1>4 DEF Accounts, Known, NoEventForgotten

\* A reply leaves the queue; what the server awaited, it stores.
LEMMA AccountsOfReply ==
    ASSUME SyncTypeOK, Accounts, ReplyArrives \/ ReplyLost
    PROVE  Accounts'
<1>1. replies \in Seq(Reply) /\ replies # <<>> /\ replies' = Tail(replies)
      /\ UNCHANGED <<dataEvents, arrived, gone>>
  BY DEF SyncTypeOK, ReplyArrives, ReplyLost, bufferVars
<1>2. Head(replies).events \subseteq arrived
  BY <1>1, TailElements DEF Accounts, Known
<1>3. received' = received \/ received' = received \union Head(replies).events
  BY DEF ReplyArrives, ReplyLost
<1>4. \A k \in 1 .. Len(replies') : replies'[k].events \subseteq arrived
  BY <1>1, TailElements DEF Accounts, Known
<1>5. QED  BY <1>1, <1>2, <1>3, <1>4 DEF Accounts, Known, NoEventForgotten

\* What the core gives up is counted as gone.
LEMMA AccountsOfGiveUp ==
    ASSUME SyncTypeOK, Accounts, dataEvents' = <<>>, UNCHANGED <<arrived, received>>,
           gone' = gone \union ToSet(dataEvents),
           \A k \in 1 .. Len(replies') : replies'[k].events \subseteq arrived
    PROVE  Accounts'
<1>1. ToSet(dataEvents') = {}
  BY SetOfEmpty
<1>2. QED  BY <1>1 DEF Accounts, Known, NoEventForgotten

-----------------------------------------------------------------------------
(* Of the messages: steps that leave them and the head alone.              *)
LEMMA MessagesKept ==
    ASSUME Messages, UNCHANGED <<commands, replies, phase, received, clearing>>,
           HeadEvents' \subseteq HeadEvents
    PROVE  Messages'
<1>1. CommandsFit' /\ ClearingFits' /\ Covered'
  BY DEF Messages, CommandsFit, ClearingFits, Covered
<1>2. RepliesFit'
  BY DEF Messages, RepliesFit, Awaited
<1>3. QED  BY <1>1, <1>2 DEF Messages

\* The buffer is left alone, and so is what clear_events would drop.
LEMMA HeadOfSame == UNCHANGED <<dataEvents, newDataEvents>> => HeadEvents' = HeadEvents
BY DEF HeadEvents

\* The core asks itself for lost events.
LEMMA MessagesOfTimeout ==
    ASSUME SyncTypeOK, Messages, PollTimeout
    PROVE  Messages'
<1> DEFINE q == [name |-> "queryLost", current |-> FALSE]
<1>1. /\ UNCHANGED <<replies, phase, received, clearing>> /\ HeadEvents' = HeadEvents
      /\ commands' = commands \/ commands' = Append(commands, q)
      /\ commands \in Seq(Command)
  BY HeadOfSame DEF PollTimeout, bufferVars, SyncTypeOK
<1>2. q \in Command /\ q.name = "queryLost" /\ ~q.current
  BY DEF Command, CommandNames
<1> HIDE DEF q
<1>3. CASE commands' = commands
  BY <1>1, <1>3, MessagesKept
<1>4. CASE commands' = Append(commands, q)
  <2>1. /\ Len(commands') = Len(commands) + 1 /\ Len(commands) \in Nat
        /\ commands' \in Seq(Command) /\ commands' # <<>>
        /\ commands'[Len(commands) + 1] = q
        /\ \A i \in 1 .. Len(commands) : commands'[i] = commands[i]
    BY <1>1, <1>2, <1>4, AppendElements
  <2>2. ASSUME NEW i \in 1 .. Len(commands')
        PROVE  /\ Fits(phase', commands'[i])
               /\ commands'[i].current =>
                    \A j \in i + 1 .. Len(commands') : commands'[j].name = "queryLost"
    <3>1. CASE i \in 1 .. Len(commands)
      <4>1. Fits(phase', commands'[i]) /\ commands'[i] = commands[i]
        BY <1>1, <2>1, <3>1 DEF Messages, CommandsFit
      <4>2. ASSUME commands[i].current, NEW j \in i + 1 .. Len(commands')
            PROVE  commands'[j].name = "queryLost"
        <5>1. CASE j \in i + 1 .. Len(commands)
          BY <2>1, <3>1, <4>2, <5>1 DEF Messages, CommandsFit
        <5>2. CASE j = Len(commands) + 1
          BY <1>2, <2>1, <5>2
        <5>3. QED  BY <2>1, <5>1, <5>2
      <4>3. QED  BY <4>1, <4>2
    <3>2. CASE i = Len(commands) + 1
      BY <1>2, <2>1, <3>2 DEF Fits
    <3>3. QED  BY <2>1, <3>1, <3>2
  <2>3. CommandsFit'
    BY <2>2 DEF CommandsFit
  <2>4. ASSUME commands # <<>> PROVE Head(commands') = Head(commands)
    BY <1>1, <2>1, <2>4, TailElements
  <2>5. ClearingFits' /\ Covered'
    BY <1>1, <2>1, <2>4 DEF Messages, ClearingFits, Covered
  <2>6. ASSUME NEW k \in 1 .. Len(replies), replies[k].current PROVE Awaited(k)'
    <3>1. Awaited(k)
      BY <2>6 DEF Messages, RepliesFit
    <3>2. \A i \in 1 .. Len(commands') : commands'[i].name = "queryLost"
      BY <1>2, <2>1, <3>1 DEF Awaited
    <3>3. QED  BY <1>1, <3>1, <3>2 DEF Awaited
  <2>7. RepliesFit'
    BY <1>1, <2>6 DEF RepliesFit
  <2>8. QED  BY <2>3, <2>5, <2>7 DEF Messages
<1>5. QED  BY <1>1, <1>3, <1>4

\* The server asks, or asks again.
LEMMA MessagesOfAsk ==
    ASSUME SyncTypeOK, Messages, AskForEvents \/ AskToClear \/ AskToRecover
    PROVE  Messages'
<1>1. PICK name \in {"get", "clear", "clearLost"} :
        /\ SendCommand(name) /\ Serves(phase', name)
        /\ phase = phase' \/ (phase = "idle" /\ phase' # "clearing")
             \/ (phase = "stored" /\ phase' = "clearing")
  BY Zenon DEF AskForEvents, AskToClear, AskToRecover, Serves
<1>2. name \in CommandNames /\ name # "queryLost"
  BY <1>1 DEF CommandNames
<1>3. commands \in Seq(Command) /\ \A i \in 1 .. Len(commands) : Fits(phase, commands[i])
  BY DEF SyncTypeOK, Messages, CommandsFit
<1>4. \A i \in 1 .. Len(commands) :
        commands[i].name = "queryLost" \/ Serves(phase', commands[i].name)
  BY <1>1, <1>3 DEF Fits, Serves
<1>5. CommandsFit' /\ RepliesFit'
  BY <1>1, <1>2, <1>4, SendFits DEF Messages
<1>6. UNCHANGED <<received, clearing>> /\ HeadEvents' = HeadEvents
  BY <1>1, HeadOfSame DEF SendCommand, bufferVars
<1>7. Covered'
  BY <1>1, <1>6 DEF Messages, Covered, Serves
<1>8. ClearingFits'
  BY <1>1, <1>2, <1>6, SendKeepsHead DEF Messages, ClearingFits
<1>9. QED  BY <1>5, <1>7, <1>8 DEF Messages

\* A reply arrives, or is lost.
LEMMA MessagesOfReply ==
    ASSUME SyncTypeOK, Messages, ReplyArrives \/ ReplyLost
    PROVE  Messages'
<1> DEFINE r == Head(replies)
<1>1. /\ replies \in Seq(Reply) /\ replies # <<>> /\ replies' = Tail(replies)
      /\ UNCHANGED <<commands, clearing>> /\ HeadEvents' = HeadEvents
  BY HeadOfSame DEF SyncTypeOK, ReplyArrives, ReplyLost, bufferVars
<1>2. /\ Len(replies) >= 1 /\ Len(replies') = Len(replies) - 1
      /\ r \in Reply /\ r = replies[1]
      /\ \A k \in 1 .. Len(replies') :
           k + 1 \in 1 .. Len(replies) /\ replies'[k] = replies[k + 1]
  BY <1>1, TailElements
<1>3. commands \in Seq(Command)
  BY DEF SyncTypeOK
<1>4. CASE UNCHANGED <<phase, received>>
  <2>1. CommandsFit' /\ ClearingFits' /\ Covered'
    BY <1>1, <1>4 DEF Messages, CommandsFit, ClearingFits, Covered
  <2>2. ASSUME NEW k \in 1 .. Len(replies'), replies'[k].current PROVE Awaited(k)'
    <3>1. Awaited(k + 1) /\ replies'[k] = replies[k + 1]
      BY <1>2, <2>2 DEF Messages, RepliesFit
    <3>2. ASSUME NEW l \in 1 .. Len(replies'), replies'[l].current PROVE l = k
      <4>1. l + 1 \in 1 .. Len(replies) /\ replies[l + 1].current
        BY <1>2, <3>2
      <4>2. l + 1 = k + 1
        BY <3>1, <4>1 DEF Awaited
      <4>3. QED  BY <4>2
    <3>3. QED  BY <1>1, <1>4, <3>1, <3>2 DEF Awaited
  <2>3. RepliesFit'
    BY <2>2 DEF RepliesFit
  <2>4. QED  BY <2>1, <2>3 DEF Messages
<1>5. CASE /\ r.current /\ received' = received \union r.events
           /\ phase' = IF r.name = "get" THEN "stored" ELSE "idle"
  <2>1. Awaited(1)
    BY <1>2, <1>5 DEF Messages, RepliesFit
  <2>2. CommandsFit'
    <3>1. \A i \in 1 .. Len(commands) : commands[i].name = "queryLost"
      BY <2>1 DEF Awaited
    <3>2. \A i \in 1 .. Len(commands) : ~commands[i].current
      BY <3>1 DEF Messages, CommandsFit, Fits
    <3>3. \A i \in 1 .. Len(commands) : Fits(phase', commands[i])
      BY <3>1, <3>2 DEF Fits
    <3>4. QED  BY <1>1, <3>2, <3>3 DEF CommandsFit
  <2>3. ClearingFits'
    BY <1>1, <2>1 DEF Awaited, ClearingFits
  <2>4. Covered'
    BY <1>1, <1>2, <1>5, <2>1 DEF Awaited, Covered
  <2>5. \A k \in 1 .. Len(replies') : ~replies'[k].current
    BY <1>2, <2>1 DEF Awaited
  <2>6. QED  BY <2>2, <2>3, <2>4, <2>5 DEF Messages, RepliesFit
<1>6. QED  BY <1>4, <1>5 DEF ReplyArrives, ReplyLost

\* The core's own question is run.
LEMMA MessagesOfQuery ==
    ASSUME SyncTypeOK, Messages, RunQueryLost
    PROVE  Messages'
<1>1. /\ commands \in Seq(Command) /\ commands # <<>> /\ commands' = Tail(commands)
      /\ UNCHANGED <<replies, phase, received, clearing>> /\ clearing = "no"
      /\ HeadEvents' = HeadEvents
  BY HeadOfSame DEF SyncTypeOK, RunQueryLost, NextCommandIs, QueryLost
<1>2. /\ Len(commands) >= 1 /\ Len(commands') = Len(commands) - 1
      /\ \A i \in 1 .. Len(commands') :
           i + 1 \in 1 .. Len(commands) /\ commands'[i] = commands[i + 1]
  BY <1>1, TailElements
<1>3. ASSUME NEW i \in 1 .. Len(commands')
      PROVE  /\ Fits(phase', commands'[i])
             /\ commands'[i].current =>
                  \A j \in i + 1 .. Len(commands') : commands'[j].name = "queryLost"
  <2>1. Fits(phase, commands[i + 1]) /\ commands'[i] = commands[i + 1]
    BY <1>2 DEF Messages, CommandsFit
  <2>2. ASSUME commands'[i].current, NEW j \in i + 1 .. Len(commands')
        PROVE  commands'[j].name = "queryLost"
    <3>1. j \in 1 .. Len(commands') /\ j + 1 \in (i + 1) + 1 .. Len(commands)
      BY <1>2
    <3>2. i + 1 \in 1 .. Len(commands) /\ commands'[j] = commands[j + 1]
      BY <1>2, <3>1
    <3>3. QED  BY <2>1, <2>2, <3>1, <3>2 DEF Messages, CommandsFit
  <2>3. QED  BY <1>1, <2>1, <2>2
<1>4. CommandsFit'
  BY <1>3 DEF CommandsFit
<1>5. ClearingFits' /\ Covered'
  BY <1>1 DEF ClearingFits, Messages, Covered
<1>6. ASSUME NEW k \in 1 .. Len(replies), replies[k].current PROVE Awaited(k)'
  <2>1. Awaited(k)
    BY <1>6 DEF Messages, RepliesFit
  <2>2. \A i \in 1 .. Len(commands') : commands'[i].name = "queryLost"
    BY <1>2, <2>1 DEF Awaited
  <2>3. QED  BY <1>1, <2>1, <2>2 DEF Awaited
<1>7. RepliesFit'
  BY <1>1, <1>6 DEF RepliesFit
<1>8. QED  BY <1>4, <1>5, <1>7 DEF Messages

\* A command of the server's is served only while the server waits for it.
LEMMA ServedCommand ==
    ASSUME SyncTypeOK, Messages, commands # <<>>, Head(commands).name # "queryLost"
    PROVE  /\ Serves(phase, Head(commands).name)
           /\ \A k \in 1 .. Len(replies) : ~replies[k].current
<1>1. commands \in Seq(Command)
  BY DEF SyncTypeOK
<1>2. Head(commands) = commands[1] /\ 1 \in 1 .. Len(commands)
  BY <1>1, TailElements
<1>3. Serves(phase, Head(commands).name)
  BY <1>2 DEF Messages, CommandsFit, Fits
<1>4. QED  BY <1>2, <1>3 DEF Messages, RepliesFit, Awaited

\* get_events lists all that clear_events may drop from then on.
LEMMA MessagesOfGet ==
    ASSUME SyncTypeOK, Messages, RunGetEvents
    PROVE  Messages'
<1>1. /\ commands # <<>> /\ Head(commands).name = "get" /\ Answer(ToSet(dataEvents))
      /\ UNCHANGED <<dataEvents, phase, clearing, received>> /\ clearing = "no"
      /\ newDataEvents' = <<>>
  BY DEF RunGetEvents, NextCommandIs, GetEvents
<1>2. HeadEvents' = ToSet(dataEvents) /\ ToSet(dataEvents) \in SUBSET Events
  BY <1>1, HeadOfAll, SetOfSequence DEF SyncTypeOK, TypeOK
<1>3. CommandsFit' /\ RepliesFit'
  BY <1>1, <1>2, AnswerFits DEF Messages
<1>4. phase = "asked"
  BY <1>1, ServedCommand DEF Serves
<1>5. QED  BY <1>1, <1>3, <1>4 DEF Messages, ClearingFits, Covered

\* clear_events is served only when the server has what it drops.
LEMMA MessagesOfClear ==
    ASSUME SyncTypeOK, TypeOK', Messages, RunClearEvents
    PROVE  Messages' /\ HeadEvents \subseteq received
<1>1. /\ commands # <<>> /\ Head(commands).name = "clear" /\ Answer({})
      /\ UNCHANGED <<newDataEvents, phase, clearing, received>> /\ clearing = "no"
      /\ dataEvents' = newDataEvents
  BY DEF RunClearEvents, NextCommandIs, ClearEvents
<1>2. HeadEvents' = {}
  BY <1>1, HeadOfClear
<1>3. CommandsFit' /\ RepliesFit'
  BY <1>1, <1>2, AnswerFits DEF Messages
<1>4. phase = "clearing"
  BY <1>1, ServedCommand DEF Serves
<1>5. QED  BY <1>1, <1>2, <1>3, <1>4 DEF Messages, ClearingFits, Covered

\* clear_lost_data_events begins, goes on and ends while the server waits for it.
LEMMA MessagesOfBegin ==
    ASSUME SyncTypeOK, Messages, RunBeginClearLost
    PROVE  Messages'
<1>1. /\ commands # <<>> /\ Head(commands).name = "clearLost"
      /\ UNCHANGED <<phase, commands, replies, received>>
  BY DEF RunBeginClearLost, NextCommandIs, syncVars
<1>2. /\ phase = "recovering"
      /\ \A k \in 1 .. Len(replies) : ~replies[k].current
  BY <1>1, ServedCommand DEF Serves
<1>3. QED
  BY <1>1, <1>2 DEF Messages, CommandsFit, ClearingFits, RepliesFit, Covered

\* Once offline it is answered and does nothing.
LEMMA MessagesOfTooLate ==
    ASSUME SyncTypeOK, Messages, RunClearLostTooLate
    PROVE  Messages'
<1>1. /\ commands # <<>> /\ Head(commands).name = "clearLost" /\ Answer({})
      /\ UNCHANGED <<phase, clearing, received>> /\ clearing = "no"
      /\ HeadEvents' = HeadEvents
  BY HeadOfSame DEF RunClearLostTooLate, NextCommandIs, bufferVars
<1>2. CommandsFit' /\ RepliesFit'
  BY <1>1, AnswerFits DEF Messages
<1>3. phase = "recovering"
  BY <1>1, ServedCommand DEF Serves
<1>4. QED  BY <1>1, <1>2, <1>3 DEF Messages, ClearingFits, Covered

LEMMA MessagesOfRecovery ==
    ASSUME SyncTypeOK, Messages, RunDeleteLost \/ RunClearDataVector
    PROVE  Messages'
<1>1. clearing # "no" /\ UNCHANGED <<phase, commands, replies, received>>
  BY DEF RunDeleteLost, RunClearDataVector, DeleteLost, ClearDataVector
<1>2. /\ phase = "recovering" /\ commands # <<>> /\ Head(commands).name = "clearLost"
  BY <1>1 DEF Messages, ClearingFits
<1>3. \A k \in 1 .. Len(replies) : ~replies[k].current
  BY <1>2, ServedCommand
<1>4. QED
  BY <1>1, <1>2, <1>3 DEF Messages, CommandsFit, ClearingFits, RepliesFit, Covered

LEMMA MessagesOfEnd ==
    ASSUME SyncTypeOK, Messages, RunClearNewVector
    PROVE  Messages'
<1>1. /\ clearing # "no" /\ clearing' = "no" /\ UNCHANGED <<phase, received>>
      /\ Answer({})
  BY DEF RunClearNewVector, ClearNewVector
<1>2. phase = "recovering" /\ commands # <<>> /\ Head(commands).name = "clearLost"
  BY <1>1 DEF Messages, ClearingFits
<1>3. CommandsFit' /\ RepliesFit'
  BY <1>1, <1>2, AnswerFits DEF Messages
<1>4. QED  BY <1>1, <1>2, <1>3 DEF Messages, ClearingFits, Covered

\* The core ends, and with it its commands; a reply may survive.
LEMMA MessagesOfCoreEnds ==
    ASSUME SyncTypeOK, TypeOK', Messages, CoreEnds
    PROVE  Messages'
<1>1. /\ clearing' = "no" /\ UNCHANGED <<phase, received>> /\ dataEvents' = <<>>
      /\ commands' = <<>>
      /\ Len(replies') <= Len(replies)
      /\ \A k \in 1 .. Len(replies') : replies'[k] = replies[k]
      /\ Len(replies) \in Nat /\ Len(replies') \in Nat
  <2>1. replies \in Seq(Reply) /\ replies' \in Seq(Reply)
    BY CoreEndsTypes DEF SyncTypeOK
  <2>2. Len(replies) \in Nat /\ Len(replies') \in Nat
    BY <2>1
  <2>3. QED  BY <2>2, CoreEndsTypes DEF CoreEnds, Restart
<1>2. HeadEvents' = {}
  BY <1>1, HeadOfEmpty
<1>3. Len(commands') = 0
  BY <1>1
<1>4. ASSUME NEW k \in 1 .. Len(replies'), replies'[k].current PROVE Awaited(k)'
  <2>1. k \in 1 .. Len(replies) /\ replies'[k] = replies[k]
    BY <1>1
  <2>2. Awaited(k)
    BY <1>4, <2>1 DEF Messages, RepliesFit
  <2>3. ASSUME NEW l \in 1 .. Len(replies'), replies'[l].current PROVE l = k
    BY <1>1, <2>2, <2>3 DEF Awaited
  <2>4. QED  BY <1>1, <1>2, <1>3, <2>1, <2>2, <2>3 DEF Awaited
<1>5. QED
  BY <1>1, <1>2, <1>3, <1>4 DEF Messages, CommandsFit, ClearingFits, RepliesFit, Covered

-----------------------------------------------------------------------------
(* dataEvents is what clear_events would drop and what it keeps.           *)
LEMMA HeadAndTail ==
    ASSUME TypeOK, Order, clearing = "no"
    PROVE  ToSet(dataEvents) = HeadEvents \union ToSet(newDataEvents)
<1>1. /\ ToSet(dataEvents) = {dataEvents[i] : i \in 1 .. Len(dataEvents)}
      /\ ToSet(newDataEvents) = {newDataEvents[i] : i \in 1 .. Len(newDataEvents)}
      /\ Len(dataEvents) \in Nat /\ Len(newDataEvents) \in Nat
  BY SetOfSequence, LenProperties DEF TypeOK
<1> DEFINE d == Len(dataEvents) - Len(newDataEvents)
<1>2. /\ d \in Nat /\ Len(dataEvents) = d + Len(newDataEvents)
      /\ \A i \in 1 .. Len(newDataEvents) : newDataEvents[i] = dataEvents[d + i]
  BY <1>1 DEF Order, Ends
<1>3. HeadEvents = {dataEvents[i] : i \in 1 .. d}
  BY DEF HeadEvents
<1> HIDE DEF d
<1>4. ASSUME NEW e \in ToSet(dataEvents) PROVE e \in HeadEvents \union ToSet(newDataEvents)
  <2>1. PICK i \in 1 .. Len(dataEvents) : e = dataEvents[i]
    BY <1>1
  <2>2. CASE i \in 1 .. d
    BY <1>3, <2>1, <2>2
  <2>3. CASE i \notin 1 .. d
    <3>1. i - d \in 1 .. Len(newDataEvents) /\ d + (i - d) = i
      BY <1>1, <1>2, <2>3
    <3>2. e = newDataEvents[i - d]
      BY <1>2, <2>1, <3>1
    <3>3. QED  BY <1>1, <3>1, <3>2
  <2>4. QED  BY <2>2, <2>3
<1>5. ASSUME NEW e \in HeadEvents \union ToSet(newDataEvents) PROVE e \in ToSet(dataEvents)
  <2>1. CASE e \in HeadEvents
    <3>1. PICK i \in 1 .. d : e = dataEvents[i]
      BY <1>3, <2>1
    <3>2. i \in 1 .. Len(dataEvents)
      BY <1>1, <1>2
    <3>3. QED  BY <1>1, <3>1, <3>2
  <2>2. CASE e \in ToSet(newDataEvents)
    <3>1. PICK i \in 1 .. Len(newDataEvents) : e = newDataEvents[i]
      BY <1>1, <2>2
    <3>2. d + i \in 1 .. Len(dataEvents) /\ e = dataEvents[d + i]
      BY <1>1, <1>2, <3>1
    <3>3. QED  BY <1>1, <3>2
  <2>3. QED  BY <2>1, <2>2
<1>6. QED  BY <1>4, <1>5

\* Every command run keeps the accounts.
LEMMA AccountsOfCommands ==
    ASSUME SyncInv, SyncTypeOK', TypeOK', RequestThread
    PROVE  Accounts'
<1> USE DEF SyncInv
<1>1. CASE RunGetEvents
  <2>1. /\ commands # <<>> /\ Answer(ToSet(dataEvents))
        /\ UNCHANGED <<dataEvents, arrived, received, gone>>
    BY <1>1 DEF RunGetEvents, NextCommandIs, GetEvents
  <2>2. ToSet(dataEvents) \subseteq arrived /\ ToSet(dataEvents) \in SUBSET Events
    BY SetOfSequence DEF Accounts, Known, SyncTypeOK, TypeOK
  <2>3. QED  BY <2>1, <2>2, AccountsOfAnswer
<1>2. CASE RunClearEvents
  <2>1. /\ commands # <<>> /\ Answer({}) /\ clearing = "no"
        /\ UNCHANGED <<arrived, received, gone>> /\ dataEvents' = newDataEvents
    BY <1>2 DEF RunClearEvents, NextCommandIs, ClearEvents
  <2>2. ToSet(dataEvents) = HeadEvents \union ToSet(dataEvents')
    BY <2>1, HeadAndTail DEF SyncTypeOK
  <2>3. HeadEvents \subseteq received
    BY <1>2, MessagesOfClear
  <2>4. QED  BY <2>1, <2>2, <2>3, AccountsOfAnswer
<1>3. CASE RunQueryLost \/ RunBeginClearLost \/ RunDeleteLost
  <2>1. UNCHANGED <<dataEvents, arrived, received, gone, replies>>
    BY <1>3 DEF RunQueryLost, QueryLost, RunBeginClearLost, BeginClearLost, RunDeleteLost,
                DeleteLost, syncVars
  <2>2. QED  BY <2>1, AccountsOfStep
<1>4. CASE RunClearDataVector
  <2>1. /\ dataEvents' = <<>> /\ gone' = gone \union ToSet(dataEvents)
        /\ UNCHANGED <<arrived, received, replies>>
    BY <1>4 DEF RunClearDataVector, ClearDataVector
  <2>2. \A k \in 1 .. Len(replies') : replies'[k].events \subseteq arrived
    BY <2>1 DEF Accounts, Known
  <2>3. QED  BY <2>1, <2>2, AccountsOfGiveUp
<1>5. CASE RunClearNewVector
  <2>1. /\ Answer({}) /\ clearing # "no"
        /\ UNCHANGED <<dataEvents, arrived, received, gone>>
    BY <1>5 DEF RunClearNewVector, ClearNewVector
  <2>2. commands # <<>>
    BY <2>1 DEF Messages, ClearingFits
  <2>3. QED  BY <2>1, <2>2, AccountsOfAnswer
<1>6. CASE RunClearLostTooLate
  <2>1. /\ commands # <<>> /\ Answer({})
        /\ UNCHANGED <<dataEvents, arrived, received, gone>>
    BY <1>6 DEF RunClearLostTooLate, NextCommandIs, bufferVars
  <2>2. QED  BY <2>1, AccountsOfAnswer
<1>7. QED  BY <1>1, <1>2, <1>3, <1>4, <1>5, <1>6 DEF RequestThread

LEMMA AccountsOfCoreEnds ==
    ASSUME SyncTypeOK, Accounts, CoreEnds
    PROVE  Accounts'
<1>1. /\ dataEvents' = <<>> /\ gone' = gone \union ToSet(dataEvents)
      /\ UNCHANGED <<arrived, received>>
  BY DEF CoreEnds, Restart
<1>2. \A k \in 1 .. Len(replies') : replies'[k] = replies[k] /\ k \in 1 .. Len(replies)
  <2>1. replies \in Seq(Reply) /\ replies' \in Seq(Reply)
    BY CoreEndsTypes DEF SyncTypeOK
  <2>2. Len(replies) \in Nat /\ Len(replies') \in Nat
    BY <2>1
  <2>3. QED  BY <2>2, CoreEndsTypes
<1>3. \A k \in 1 .. Len(replies') : replies'[k].events \subseteq arrived
  BY <1>2 DEF Accounts, Known
<1>4. QED  BY <1>1, <1>3, AccountsOfGiveUp

LEMMA SyncParts ==
    ASSUME SyncInv, SyncTypeOK', TypeOK', [SyncNext]_allVars
    PROVE  Messages' /\ Accounts'
<1>1. SyncTypeOK /\ TypeOK /\ Messages /\ Accounts
  BY DEF SyncInv, SyncTypeOK
<1>2. ASSUME NEW e \in Events, Forward(e) PROVE Messages' /\ Accounts'
  <2>1. UNCHANGED <<commands, replies, phase, received, clearing>> /\ PushEvent(e)
    BY <1>2 DEF Forward, syncVars, PushEvent
  <2>2. HeadEvents' = HeadEvents
    BY <1>1, <2>1, HeadOfPush
  <2>3. QED  BY <1>1, <1>2, <2>1, <2>2, MessagesKept, AccountsOfForward
<1>3. ASSUME NEW e \in Events, Drop(e) PROVE Messages' /\ Accounts'
  <2>1. UNCHANGED <<commands, replies, phase, received, clearing>>
        /\ UNCHANGED <<dataEvents, newDataEvents>>
    BY <1>3 DEF Drop
  <2>2. QED  BY <1>1, <1>3, <2>1, HeadOfSame, MessagesKept, AccountsOfDrop
<1>4. CASE \/ QuickBooksOutage \/ PollFails \/ Poll \/ CheckCompany \/ GoOffline
           \/ CoreStarts \/ UNCHANGED allVars
  <2>1. /\ UNCHANGED <<commands, replies, phase, received, clearing>>
        /\ UNCHANGED <<dataEvents, newDataEvents>>
        /\ UNCHANGED <<dataEvents, arrived, received, gone, replies>>
    BY <1>4 DEF QuickBooksOutage, PollFails, Poll, CheckCompany, GoOffline, CoreStarts,
                allVars, syncVars, bufferVars
  <2>2. QED  BY <1>1, <2>1, HeadOfSame, MessagesKept, AccountsOfStep
<1>5. CASE PollTimeout
  <2>1. UNCHANGED <<dataEvents, arrived, received, gone, replies>>
    BY <1>5 DEF PollTimeout, bufferVars
  <2>2. QED  BY <1>1, <1>5, <2>1, MessagesOfTimeout, AccountsOfStep
<1>6. CASE AskForEvents \/ AskToClear \/ AskToRecover
  <2>1. PICK name \in CommandNames : SendCommand(name)
    BY <1>6 DEF AskForEvents, AskToClear, AskToRecover, CommandNames
  <2>2. UNCHANGED <<dataEvents, arrived, received, gone>>
    BY <2>1 DEF SendCommand, bufferVars
  <2>3. \A k \in 1 .. Len(replies') : replies'[k].events \subseteq arrived
    BY <1>1, <2>1, SendKnown DEF Accounts, Known
  <2>4. QED  BY <1>1, <1>6, <2>2, <2>3, MessagesOfAsk, AccountsKept
<1>7. CASE ReplyArrives \/ ReplyLost
  BY <1>1, <1>7, MessagesOfReply, AccountsOfReply
<1>8. CASE RequestThread
  <2>1. Messages'
    BY <1>1, <1>8, MessagesOfGet, MessagesOfClear, MessagesOfQuery, MessagesOfBegin,
       MessagesOfRecovery, MessagesOfEnd, MessagesOfTooLate DEF RequestThread
  <2>2. Accounts'
    BY <1>8, AccountsOfCommands
  <2>3. QED  BY <2>1, <2>2
<1>9. CASE CoreEnds
  BY <1>1, <1>9, MessagesOfCoreEnds, AccountsOfCoreEnds
<1>10. QED
  BY <1>2, <1>3, <1>4, <1>5, <1>6, <1>7, <1>8, <1>9 DEF SyncNext

LEMMA SyncStep ==
    ASSUME SyncInv, [SyncNext]_allVars
    PROVE  SyncInv'
<1>1. TypeOK' /\ Order' /\ HeadWasReported' /\ OnlySlipped'
  BY BufferKept DEF SyncInv
<1>2. SyncTypeOK'
  BY <1>1, SyncTypeStep DEF SyncInv, Messages
<1>3. Messages' /\ Accounts'
  BY <1>1, <1>2, SyncParts
<1>4. QED  BY <1>1, <1>2, <1>3 DEF SyncInv

LEMMA SyncInitInv == SyncInit => SyncInv
<1> SUFFICES ASSUME SyncInit PROVE SyncInv
  OBVIOUS
<1>1. TypeOK /\ Order /\ HeadWasReported /\ OnlySlipped
  BY InitOrder, EmptyVector DEF SyncInit, Init, TypeOK, Clearing
<1>2. SyncTypeOK
  <2>1. commands \in Seq(Command) /\ replies \in Seq(Reply)
    BY EmptySeq DEF SyncInit
  <2>2. advertised \in [events : BOOLEAN, lost : BOOLEAN]
    BY Zenon DEF SyncInit
  <2>3. /\ restarts \in 0 .. MaxRestarts /\ outages \in 0 .. MaxOutages
        /\ failures \in 0 .. MaxFailures /\ hasty \in 0 .. MaxHasty
    BY SyncAssumption DEF SyncInit
  <2>4. /\ up \in BOOLEAN /\ ready \in BOOLEAN /\ offline \in BOOLEAN
        /\ polling \in BOOLEAN /\ qbLost \in BOOLEAN
    BY Zenon DEF SyncInit
  <2>5. phase \in Phases /\ received \subseteq Events /\ gone \subseteq Events
    BY DEF SyncInit, Phases
  <2>6. QED  BY <1>1, <2>1, <2>2, <2>3, <2>4, <2>5 DEF SyncTypeOK
<1>3. /\ Len(commands) = 0 /\ Len(replies) = 0 /\ Len(dataEvents) = 0
      /\ clearing = "no" /\ phase = "idle" /\ ToSet(dataEvents) = {}
      /\ received = {} /\ gone = {} /\ arrived = {}
  BY SetOfEmpty DEF SyncInit, Init
<1>4. Messages
  BY <1>3 DEF Messages, CommandsFit, ClearingFits, RepliesFit, Covered
<1>5. Accounts
  BY <1>3 DEF Accounts, Known, NoEventForgotten
<1>6. QED  BY <1>1, <1>2, <1>4, <1>5 DEF SyncInv

(* The invariant holds of every run of core, server and network, with any  *)
(* loss of commands and replies and any ends of the core.                  *)
THEOREM SyncInductive == SyncSafety => []SyncInv
<1>1. SyncInv /\ [SyncNext]_allVars => SyncInv'
  BY SyncStep
<1>2. QED  BY <1>1, SyncInitInv, PTL DEF SyncSafety

(* Every variable of the event path keeps to its type.                     *)
THEOREM SyncTypeCorrect == SyncSafety => []SyncTypeOK
<1>1. SyncInv => SyncTypeOK
  BY DEF SyncInv
<1>2. QED  BY <1>1, SyncInductive, PTL

(* An event QuickBooks delivered is held by the core, stored by the server *)
(* or given up as a whole: the acknowledgement by clear_events drops none  *)
(* that the server has not stored.                                         *)
THEOREM NotForgotten == SyncSafety => []NoEventForgotten
<1>1. SyncInv => NoEventForgotten
  BY DEF SyncInv, Accounts
<1>2. QED  BY <1>1, SyncInductive, PTL

-----------------------------------------------------------------------------
(* The refinement: what dataEvents holds is what EventCustody calls held.  *)
LEMMA CustodyUnchanged ==
    ASSUME ToSet(dataEvents') = ToSet(dataEvents), UNCHANGED <<received, gone>>
    PROVE  UNCHANGED Custody!custodyVars
BY DEF Custody!custodyVars

LEMMA CustodyStep ==
    ASSUME SyncInv, [SyncNext]_allVars
    PROVE  [Custody!Next]_Custody!custodyVars
<1> DEFINE held == ToSet(dataEvents)
<1>1. /\ SyncTypeOK /\ TypeOK /\ Messages /\ Accounts /\ Order
      /\ SyncInv' /\ TypeOK' /\ held \subseteq Events
      /\ held \union received \union gone \subseteq arrived
      /\ arrived \subseteq held \union received \union gone
  BY SyncStep, SetOfSequence DEF SyncInv, SyncTypeOK, TypeOK, Accounts, Known,
                                 NoEventForgotten
<1>2. ASSUME NEW e \in Events, Forward(e) PROVE Custody!Accept(e)
  <2>1. /\ e \notin arrived /\ dataEvents' = Append(dataEvents, e)
        /\ UNCHANGED <<received, gone>>
    BY <1>2 DEF Forward, PushEvent, syncVars
  <2>2. ToSet(dataEvents') = ToSet(dataEvents) \union {e}
    BY <1>1, <2>1, SetOfAppend DEF TypeOK
  <2>3. QED  BY <1>1, <2>1, <2>2 DEF Custody!Accept
<1>3. ASSUME NEW e \in Events, Drop(e) PROVE Custody!Miss(e)
  BY <1>1, <1>3 DEF Drop, Custody!Miss
<1>4. CASE \/ QuickBooksOutage \/ PollTimeout \/ PollFails \/ Poll \/ ReplyLost
           \/ CheckCompany \/ GoOffline \/ CoreStarts \/ UNCHANGED allVars
  <2>1. UNCHANGED <<dataEvents, received, gone>>
    BY <1>4 DEF QuickBooksOutage, PollTimeout, PollFails, Poll, ReplyLost, CheckCompany,
                GoOffline, CoreStarts, allVars, syncVars, bufferVars
  <2>2. QED  BY <2>1, CustodyUnchanged
<1>5. CASE AskForEvents \/ AskToClear \/ AskToRecover
  <2>1. UNCHANGED <<dataEvents, received, gone>>
    BY <1>5 DEF AskForEvents, AskToClear, AskToRecover, SendCommand, bufferVars
  <2>2. QED  BY <2>1, CustodyUnchanged
<1>6. CASE ReplyArrives
  <2>1. replies \in Seq(Reply) /\ replies # <<>> /\ UNCHANGED <<dataEvents, gone>>
    BY <1>6 DEF SyncTypeOK, ReplyArrives, bufferVars, SyncInv
  <2>2. Head(replies) = replies[1] /\ 1 \in 1 .. Len(replies) /\ Head(replies) \in Reply
    BY <2>1, TailElements
  <2>3. Head(replies).events \in SUBSET Events /\ Head(replies).events \subseteq arrived
    BY <1>1, <2>2 DEF Reply, Accounts, Known
  <2>4. CASE Head(replies).current
    <3>1. received' = received \union Head(replies).events
      BY <1>6, <2>4 DEF ReplyArrives
    <3>2. Custody!Store(Head(replies).events)
      BY <1>1, <2>1, <2>3, <3>1 DEF Custody!Store
    <3>3. QED  BY <2>3, <3>2 DEF Custody!Next
  <2>5. CASE ~Head(replies).current
    <3>1. UNCHANGED received
      BY <1>6, <2>5 DEF ReplyArrives
    <3>2. QED  BY <2>1, <3>1, CustodyUnchanged
  <2>6. QED  BY <2>4, <2>5
<1>7. CASE RunClearEvents
  <2>1. clearing = "no" /\ dataEvents' = newDataEvents /\ UNCHANGED <<received, gone>>
    BY <1>7 DEF RunClearEvents, ClearEvents
  <2>2. held = HeadEvents \union ToSet(dataEvents') /\ HeadEvents \subseteq received
    BY <1>1, <1>7, <2>1, HeadAndTail, MessagesOfClear
  <2>3. Custody!Release(held \ ToSet(dataEvents'))
    BY <2>1, <2>2 DEF Custody!Release
  <2>4. held \ ToSet(dataEvents') \in SUBSET Events
    BY <1>1
  <2>5. QED  BY <2>3, <2>4 DEF Custody!Next
<1>8. CASE RunClearDataVector \/ CoreEnds
  <2>1. /\ dataEvents' = <<>> /\ gone' = gone \union ToSet(dataEvents)
        /\ UNCHANGED received
    BY <1>8 DEF RunClearDataVector, ClearDataVector, CoreEnds, Restart
  <2>2. Custody!GiveUp
    BY <2>1, SetOfEmpty DEF Custody!GiveUp
  <2>3. QED  BY <2>2 DEF Custody!Next
<1>9. CASE \/ RunGetEvents \/ RunQueryLost \/ RunBeginClearLost \/ RunClearLostTooLate
           \/ RunDeleteLost \/ RunClearNewVector
  <2>1. UNCHANGED <<dataEvents, received, gone>>
    BY <1>9 DEF RunGetEvents, GetEvents, RunQueryLost, QueryLost, RunBeginClearLost,
                BeginClearLost, RunClearLostTooLate, RunDeleteLost, DeleteLost,
                RunClearNewVector, ClearNewVector, syncVars, bufferVars
  <2>2. QED  BY <2>1, CustodyUnchanged
<1>10. (\E e \in Events : Forward(e) \/ Drop(e)) => Custody!Next
  BY <1>2, <1>3 DEF Custody!Next
<1>11. QED
  BY <1>4, <1>5, <1>6, <1>7, <1>8, <1>9, <1>10 DEF SyncNext, RequestThread

(* The event path, with its vectors, commands, losses and restarts, keeps  *)
(* the promise of EventCustody: events are taken into custody once, stored *)
(* by the server only if they were, and let go only when the server has    *)
(* them, or all together when the core starts afresh.                      *)
THEOREM CustodyKept == SyncSafety => ImplementsCustody
<1>1. SyncInit => Custody!Init
  BY SetOfEmpty DEF SyncInit, Init, Custody!Init
<1>2. SyncInv /\ [SyncNext]_allVars => [Custody!Next]_Custody!custodyVars
  BY CustodyStep
<1>3. QED
  BY <1>1, <1>2, SyncInductive, PTL DEF SyncSafety, ImplementsCustody, Custody!Spec
=============================================================================
