--------------------------- MODULE QBSessionProofs ---------------------------
(***************************************************************************)
(* Proofs about QBSession for any set of tickets and any bounds.  The      *)
(* safety of the sessions rests on who may use which wrapper when: the     *)
(* temporary one belongs to the thread that works with it, the persistent  *)
(* one to the request thread until that has ended.                         *)
(***************************************************************************)
EXTENDS QBSession, TLAPS

Opening == {"enter", "create", "connect", "begin"}
Working == Opening \union {"check", "process", "tell", "unsubscribe", "end", "disconnect", "release"}

-----------------------------------------------------------------------------
(* What the threads do when, whatever the wrappers hold. *)

(* The main thread works before the others start and after they have ended. *)
MainAlone ==
    /\ step["main"] \in Working =>
         IF On("main") = "temporary" THEN step["request"] = "off"
                                     ELSE step["request"] = "ended"
    /\ step["request"] = "off" =>
         /\ step["main"] \in Working \union {"idle"}
         /\ On("main") = "temporary"
         /\ task["request"] = NoTask
    /\ step["request"] \in Working \union {"idle"} =>
         step["main"] \in {"idle", "joinPoll", "joinRequest"}

(* The request thread ends at the last message of its queue. *)
QuitIsLast ==
    /\ \A i \in DOMAIN queue :
         queue[i] = "WM_QUIT" => /\ i = Len(queue)
                                 /\ step["main"] \in {"joinRequest", "crashed"}
                                 /\ pollStep \in {"ended", "off"}
    /\ step["main"] = "joinRequest" => pollStep = "ended"

EndIsEnd ==
    /\ step["request"] = "ended" =>
         /\ queue = <<>>
         /\ pollStep = "ended"
         /\ step["main"] \in {"joinRequest", "end", "disconnect", "release", "idle", "ended"}
    /\ step["main"] = "ended" => step["request"] = "ended"
    /\ \A t \in Threads : step[t] = "crashed"
         => pollStep = "off" /\ \A u \in Threads : step[u] = "crashed"

TasksFit ==
    \A t \in Threads :
        /\ task[t].cmd = "startsession" => On(t) = "persistent"
        /\ step[t] = "begin" => task[t].cmd # "subscribexml"

Control == MainAlone /\ QuitIsLast /\ EndIsEnd /\ TasksFit

-----------------------------------------------------------------------------
(* What the wrappers hold. *)

(* A wrapper that does not exist has no ticket. *)
NothingInNone == \A n \in Names : ~wrapper[n].exists => wrapper[n].ticket = NoTicket

(* A thread at work has its wrapper, and the temporary wrapper a thread.   *)
HasWrapper == \A t \in Threads : step[t] \in Working => My(t).exists
HasUser ==
    wrapper["temporary"].exists =>
        \E t \in Threads : On(t) = "temporary" /\ step[t] \in Working \union {"crashed"}

(* The ticket is empty until BeginSession, given up before the release,    *)
(* and never there for a subscription.                                     *)
NoTicketYet == \A t \in Threads : step[t] \in Opening => My(t).ticket = NoTicket
TicketGivenUp ==
    \A t \in Threads :
        step[t] \in {"disconnect", "release"} => My(t).ticket \notin sessions \ stuck
NoneToSubscribe ==
    /\ step["request"] \in Working \union {"crashed"}
    /\ task["request"].cmd = "subscribexml"
    /\ On("request") = "temporary"
    => wrapper["temporary"].ticket = NoTicket

(* The server's session is not there before the request thread starts, and *)
(* gone when the main thread has ended it.                                 *)
NoPersistent ==
    \/ step["request"] = "off"
    \/ step["request"] = "ended" /\ step["main"] \in {"idle", "ended"}
    => ~wrapper["persistent"].exists

(* A second wrapper beside the server's is one of those commands'. *)
SecondIsOther ==
    (\A n \in Names : wrapper[n].exists) => task["request"].cmd \in {"versions", "subscribexml"}

Held ==
    /\ NoOrphans /\ NothingInNone /\ HasWrapper /\ HasUser /\ NoTicketYet /\ TicketGivenUp
    /\ NoneToSubscribe /\ NoPersistent /\ SecondIsOther /\ SecondSessionOnlyForInfo

IInv == TypeOK /\ Control /\ Held

-----------------------------------------------------------------------------
(* Updates of the records keep their types. *)
LEMMA FreshWrappers == NoWrapper \in Wrapper /\ NewWrapper \in Wrapper
  BY DEF NoWrapper, NewWrapper, Wrapper

LEMMA WrapperUpdates ==
  ASSUME NEW w \in [Names -> Wrapper], NEW n \in Names
  PROVE  /\ [w EXCEPT ![n].proc = TRUE] \in [Names -> Wrapper]
         /\ [w EXCEPT ![n].open = TRUE] \in [Names -> Wrapper]
         /\ [w EXCEPT ![n].open = FALSE] \in [Names -> Wrapper]
         /\ [w EXCEPT ![n].ticket = NoTicket] \in [Names -> Wrapper]
         /\ \A k \in Tickets : [w EXCEPT ![n].ticket = k] \in [Names -> Wrapper]
         /\ \A v \in Wrapper : [w EXCEPT ![n] = v] \in [Names -> Wrapper]
  <1>1. w[n] \in Wrapper
    OBVIOUS
  <1>2. /\ [w[n] EXCEPT !.proc = TRUE] \in Wrapper
        /\ [w[n] EXCEPT !.open = TRUE] \in Wrapper
        /\ [w[n] EXCEPT !.open = FALSE] \in Wrapper
        /\ [w[n] EXCEPT !.ticket = NoTicket] \in Wrapper
        /\ \A k \in Tickets : [w[n] EXCEPT !.ticket = k] \in Wrapper
    BY <1>1 DEF Wrapper
  <1>3. \A v \in Wrapper : [w EXCEPT ![n] = v] \in [Names -> Wrapper]
    OBVIOUS
  <1>4. QED
    BY <1>2, <1>3

(* Type correctness: every variable keeps its type, whatever the number of *)
(* tickets, commands, failures and closings.                               *)
THEOREM TypeCorrect == Spec => []TypeOK
<1> USE SessionAssumption DEF SessionAssumption
<1>1. Init => TypeOK
  <2> SUFFICES ASSUME Init PROVE TypeOK
    OBVIOUS
  <2>1. wrapper \in [Names -> Wrapper]
    BY FreshWrappers DEF Init
  <2>2. step \in [Threads -> Steps]
    BY DEF Init, Steps
  <2>3. task \in [Threads -> Task]
    BY DEF Init, Task, NoTask, Names, Messages, ServerCommands, QbCommands, InfoRequests
  <2>4. processedQB \in BOOLEAN /\ offline \in BOOLEAN /\ ready \in BOOLEAN
    BY Zenon DEF Init
  <2>5. QED
    BY <2>1, <2>2, <2>3, <2>4 DEF Init, TypeOK
<1>2. TypeOK /\ [Next]_vars => TypeOK'
  <2> SUFFICES ASSUME TypeOK, [Next]_vars PROVE TypeOK'
    OBVIOUS
  <2> USE DEF TypeOK, Threads, Steps, pollVars, signals, quickBooks, bounds, At, Goto
  <2>1. ASSUME NEW t \in Threads, CreateProcessor(t) PROVE TypeOK'
    <3>1. On(t) \in Names
      BY DEF On, Task
    <3>2. wrapper' \in [Names -> Wrapper]
      <4>1. wrapper' = wrapper \/ wrapper' = [wrapper EXCEPT ![On(t)].proc = TRUE]
        BY <2>1 DEF CreateProcessor
      <4>2. [wrapper EXCEPT ![On(t)].proc = TRUE] \in [Names -> Wrapper]
        BY <3>1, WrapperUpdates
      <4>3. QED
        BY <4>1, <4>2
    <3>3. QED
      BY <2>1, <3>1, <3>2 DEF CreateProcessor, My, Fails, OpeningFailed, SessionBegun
  <2>2. ASSUME NEW t \in Threads, OpenConnection(t) PROVE TypeOK'
    <3>1. On(t) \in Names
      BY DEF On, Task
    <3>2. wrapper' \in [Names -> Wrapper]
      BY <2>2, <3>1, WrapperUpdates, FreshWrappers DEF OpenConnection
    <3>3. QED
      BY <2>2, <3>1, <3>2 DEF OpenConnection, My, Fails, OpeningFailed, SessionBegun
  <2>3. ASSUME NEW t \in Threads, BeginSession(t) PROVE TypeOK'
    <3>1. On(t) \in Names
      BY DEF On, Task
    <3>2. wrapper' \in [Names -> Wrapper]
      <4>1. \/ wrapper' = wrapper
            \/ \E k \in Tickets : wrapper' = [wrapper EXCEPT ![On(t)].ticket = k]
        BY <2>3 DEF BeginSession
      <4>2. \A k \in Tickets : [wrapper EXCEPT ![On(t)].ticket = k] \in [Names -> Wrapper]
        BY <3>1, WrapperUpdates
      <4>3. QED
        BY <4>1, <4>2
    <3>3. QED
      BY <2>3, <3>1, <3>2 DEF BeginSession, My, Fails, OpeningFailed, SessionBegun
  <2>4. ASSUME NEW t \in Threads, CheckOffline(t) PROVE TypeOK'
    BY <2>4 DEF CheckOffline
  <2>5. ASSUME NEW t \in Threads, ProcessRequest(t) PROVE TypeOK'
    <3>1. task' \in [Threads -> Task]
      <4>1. PICK left : task' = [task EXCEPT ![t].left = left]
                        /\ left = IF task[t].left = 0 THEN 0 ELSE task[t].left - 1
        BY <2>5 DEF ProcessRequest
      <4>2. task[t].left \in 0 .. 3
        BY DEF Task, InfoRequests
      <4>3. left \in 0 .. 3
        BY <4>1, <4>2
      <4>4. [task[t] EXCEPT !.left = left] \in Task
        BY <4>3 DEF Task, InfoRequests
      <4>5. QED
        BY <4>1, <4>4
    <3>2. QED
      BY <2>5, <3>1 DEF ProcessRequest
  <2>6. ASSUME NEW t \in Threads, CallThroughNull(t) PROVE TypeOK'
    BY <2>6 DEF CallThroughNull
  <2>7. ASSUME NEW t \in Threads, EndSession(t) PROVE TypeOK'
    <3>1. On(t) \in Names
      BY DEF On, Task
    <3>2. wrapper' \in [Names -> Wrapper]
      <4>1. wrapper' = wrapper \/ wrapper' = [wrapper EXCEPT ![On(t)].ticket = NoTicket]
        BY <2>7 DEF EndSession
      <4>2. [wrapper EXCEPT ![On(t)].ticket = NoTicket] \in [Names -> Wrapper]
        BY <3>1, WrapperUpdates
      <4>3. QED
        BY <4>1, <4>2
    <3>3. QED
      BY <2>7, <3>1, <3>2 DEF EndSession, My, Fails, OpeningFailed, SessionBegun
  <2>8. ASSUME NEW t \in Threads, CloseConnection(t) PROVE TypeOK'
    <3>1. On(t) \in Names
      BY DEF On, Task
    <3>2. wrapper' \in [Names -> Wrapper]
      <4>1. wrapper' = wrapper \/ wrapper' = [wrapper EXCEPT ![On(t)].open = FALSE]
        BY <2>8 DEF CloseConnection
      <4>2. [wrapper EXCEPT ![On(t)].open = FALSE] \in [Names -> Wrapper]
        BY <3>1, WrapperUpdates
      <4>3. QED
        BY <4>1, <4>2
    <3>3. QED
      BY <2>8, <3>1, <3>2 DEF CloseConnection, My, Fails, OpeningFailed, SessionBegun
  <2>9. ASSUME NEW t \in Threads, Release(t) PROVE TypeOK'
    <3>1. On(t) \in Names
      BY DEF On, Task
    <3>2. wrapper' \in [Names -> Wrapper]
      BY <2>9, <3>1, WrapperUpdates, FreshWrappers DEF Release
    <3>3. QED
      BY <2>9, <3>1, <3>2 DEF Release, My, Fails, OpeningFailed, SessionBegun
  <2>10. CASE TakeTooLate
    BY <2>10 DEF TakeTooLate, Receive
  <2>11. CASE TakeStart
    <3>1. Head(queue) \in Messages /\ queue' \in Seq(Messages)
      BY <2>11 DEF TakeStart, Receive
    <3>2. processedQB' \in BOOLEAN
      BY <2>11, Zenon DEF TakeStart, MarkUsed
    <3>3. task' \in [Threads -> Task]
      <4>1. [cmd |-> Head(queue), on |-> "persistent", left |-> 0] \in Task
        BY <3>1 DEF Task, Names, InfoRequests
      <4>2. \/ task' = task
            \/ task' = [task EXCEPT !["request"] =
                          [cmd |-> Head(queue), on |-> "persistent", left |-> 0]]
        BY <2>11 DEF TakeStart, Set
      <4>3. QED
        BY <4>1, <4>2
    <3>4. wrapper' \in [Names -> Wrapper]
      <4>1. wrapper' = wrapper \/ \E n \in Names : wrapper' = [wrapper EXCEPT ![n] = NewWrapper]
        BY <2>11 DEF TakeStart, Names
      <4>2. \A n \in Names : [wrapper EXCEPT ![n] = NewWrapper] \in [Names -> Wrapper]
        BY WrapperUpdates, FreshWrappers
      <4>3. QED
        BY <4>1, <4>2
    <3>5. QED
      BY <2>11, <3>1, <3>2, <3>3, <3>4 DEF TakeStart, Set
  <2>12. CASE TakeEnd
    <3>1. Head(queue) \in Messages /\ queue' \in Seq(Messages)
      BY <2>12 DEF TakeEnd, Receive
    <3>2. processedQB' \in BOOLEAN
      BY <2>12, Zenon DEF TakeEnd, MarkUsed
    <3>3. task' \in [Threads -> Task]
      BY <2>12, <3>1 DEF TakeEnd, Set, Task, Names, InfoRequests
    <3>4. wrapper' \in [Names -> Wrapper]
      BY <2>12, WrapperUpdates, FreshWrappers DEF TakeEnd, Names
    <3>5. QED
      BY <2>12, <3>1, <3>2, <3>3, <3>4 DEF TakeEnd, Set
  <2>13. CASE TakeRequest
    <3>1. Head(queue) \in Messages /\ queue' \in Seq(Messages)
      BY <2>13 DEF TakeRequest, Receive
    <3>2. processedQB' \in BOOLEAN
      BY <2>13, Zenon DEF TakeRequest, MarkUsed
    <3>3. task' \in [Threads -> Task]
      BY <2>13, <3>1 DEF TakeRequest, Set, Task, Names, InfoRequests
    <3>4. wrapper' \in [Names -> Wrapper]
      <4>1. wrapper' = wrapper \/ \E n \in Names : wrapper' = [wrapper EXCEPT ![n] = NewWrapper]
        BY <2>13 DEF TakeRequest, Names
      <4>2. \A n \in Names : [wrapper EXCEPT ![n] = NewWrapper] \in [Names -> Wrapper]
        BY WrapperUpdates, FreshWrappers
      <4>3. QED
        BY <4>1, <4>2
    <3>5. QED
      BY <2>13, <3>1, <3>2, <3>3, <3>4 DEF TakeRequest, Set
  <2>14. CASE TakeOther
    <3>1. Head(queue) \in Messages /\ queue' \in Seq(Messages)
      BY <2>14 DEF TakeOther, Receive
    <3>2. processedQB' \in BOOLEAN
      BY <2>14, Zenon DEF TakeOther, MarkUsed
    <3>3. task' \in [Threads -> Task]
      BY <2>14, <3>1 DEF TakeOther, Set, Task, Names, InfoRequests
    <3>4. wrapper' \in [Names -> Wrapper]
      BY <2>14, WrapperUpdates, FreshWrappers DEF TakeOther, Names
    <3>5. QED
      BY <2>14, <3>1, <3>2, <3>3, <3>4 DEF TakeOther, Set
  <2>15. CASE TakeQuit
    BY <2>15 DEF TakeQuit, Receive
  <2>16. CASE PollIdle
    <3>1. processedQB' \in BOOLEAN
      BY <2>16, Zenon DEF PollIdle
    <3>2. QED
      BY <2>16, <3>1 DEF PollIdle, Messages, ServerCommands, QbCommands
  <2>17. CASE PollCommand
    BY <2>17 DEF PollCommand, Messages, ServerCommands, QbCommands
  <2>18. CASE PollOther
    BY <2>18 DEF PollOther
  <2>19. CASE PollExpire
    <3>1. idlePolls' \in 0 .. 2 /\ pollStep' = "loop"
      BY <2>19 DEF PollExpire
    <3>2. queue' \in Seq(Messages)
      <4>1. queue' = queue \/ queue' = Append(queue, "expire")
        BY <2>19 DEF PollExpire
      <4>2. QED
        BY <4>1 DEF Messages
    <3>3. QED
      BY <2>19, <3>1, <3>2 DEF PollExpire
  <2>20. CASE PollGate
    BY <2>20 DEF PollGate
  <2>21. CASE StartConcert
    <3>1. task' \in [Threads -> Task]
      BY <2>21 DEF StartConcert, DeletePersistent, NoTask, Task, Names, Messages, ServerCommands, QbCommands, InfoRequests
    <3>2. QED
      BY <2>21, <3>1 DEF StartConcert, DeletePersistent
  <2>22. CASE Refresh
    BY <2>22 DEF Refresh, Messages, ServerCommands, QbCommands
  <2>23. CASE StopConcert
    <3>1. offline' \in BOOLEAN /\ ready' \in BOOLEAN
      BY <2>23, Zenon DEF StopConcert
    <3>2. QED
      BY <2>23, <3>1 DEF StopConcert
  <2>24. CASE JoinPoll
    BY <2>24 DEF JoinPoll, Messages, ServerCommands, QbCommands
  <2>25. CASE JoinRequest
    <3>1. task' \in [Threads -> Task]
      BY <2>25 DEF JoinRequest, DeletePersistent, NoTask, Task, Names, Messages, ServerCommands, QbCommands, InfoRequests
    <3>2. QED
      BY <2>25, <3>1 DEF JoinRequest, DeletePersistent
  <2>26. CASE MainEnds
    BY <2>26 DEF MainEnds
  <2>27. CASE QuickBooksCloses
    BY <2>27 DEF QuickBooksCloses
  <2>28. CASE UNCHANGED vars
    BY <2>28 DEF vars
  <2>29. ASSUME NEW t \in Threads, TellPoll(t) PROVE TypeOK'
    <3>1. ready' \in BOOLEAN
      BY <2>29, Zenon DEF TellPoll
    <3>2. QED
      BY <2>29, <3>1 DEF TellPoll
  <2>30. CASE TakeSync
    <3>1. ready' \in BOOLEAN
      BY <2>30, Zenon DEF TakeSync
    <3>2. QED
      BY <2>30, <3>1 DEF TakeSync, Receive
  <2>31. CASE PollLoop
    BY <2>31 DEF PollLoop
  <2>32. CASE CallAfterUninitialize
    BY <2>32 DEF CallAfterUninitialize
  <2>33. QED
    BY <2>1, <2>2, <2>3, <2>4, <2>5, <2>6, <2>7, <2>8, <2>9, <2>10, <2>11, <2>12, <2>13,
       <2>14, <2>15, <2>16, <2>17, <2>18, <2>19, <2>20, <2>21, <2>22, <2>23, <2>24, <2>25,
       <2>26, <2>27, <2>28, <2>29, <2>30, <2>31, <2>32
       DEF Next, WrapperStep, Take, LongPoll, Main
<1>3. QED
  BY <1>1, <1>2, PTL DEF Spec

-----------------------------------------------------------------------------
(* A message put behind a queue without WM_QUIT is its only WM_QUIT at most. *)
LEMMA AppendQuit ==
  ASSUME NEW m, \A i \in DOMAIN queue : queue[i] # "WM_QUIT", queue \in Seq(Messages),
         queue' = Append(queue, m)
  PROVE  \A i \in DOMAIN queue' : queue'[i] = "WM_QUIT" => m = "WM_QUIT" /\ i = Len(queue')
  OBVIOUS

(* Taking the first message leaves WM_QUIT where it was, at the end. *)
LEMMA TailQuit ==
  ASSUME queue \in Seq(Messages), queue # <<>>, queue' = Tail(queue), QuitIsLast,
         UNCHANGED pollStep, step'["main"] = step["main"]
  PROVE  /\ QuitIsLast'
         /\ Head(queue) = "WM_QUIT" => queue' = <<>>
  BY DEF QuitIsLast

(* The threads take turns as Control says. *)
THEOREM ControlCorrect == Spec => []Control
<1>1. Init => Control
  BY DEF Init, Control, MainAlone, QuitIsLast, EndIsEnd, TasksFit, NoTask,
         Names, Threads, Working, Opening, On
<1>2. TypeOK /\ Control /\ [Next]_vars => Control'
  <2> SUFFICES ASSUME TypeOK, Control, [Next]_vars PROVE Control'
    OBVIOUS
  <2>a. /\ queue \in Seq(Messages) /\ step \in [Threads -> Steps]
        /\ task \in [Threads -> [cmd : Messages \union {"nothing"}, on : Names, left : 0 .. InfoRequests]]
    BY DEF TypeOK, Task
  <2> USE <2>a DEF Control, MainAlone, QuitIsLast, EndIsEnd, TasksFit, NoTask, Names, Threads,
        Working, Opening, On, At, Goto, pollVars, signals
  <2>1. ASSUME NEW t \in Threads, CreateProcessor(t) PROVE Control'
    BY <2>1 DEF CreateProcessor, OpeningFailed
  <2>2. ASSUME NEW t \in Threads, OpenConnection(t) PROVE Control'
    BY <2>2 DEF OpenConnection
  <2>3. ASSUME NEW t \in Threads, BeginSession(t) PROVE Control'
    BY <2>3 DEF BeginSession, OpeningFailed, SessionBegun
  <2>4. ASSUME NEW t \in Threads, CheckOffline(t) PROVE Control'
    BY <2>4 DEF CheckOffline
  <2>5. ASSUME NEW t \in Threads, ProcessRequest(t) PROVE Control'
    BY <2>5 DEF ProcessRequest
  <2>6. ASSUME NEW t \in Threads, CallThroughNull(t) PROVE Control'
    BY <2>6 DEF CallThroughNull
  <2>7. ASSUME NEW t \in Threads, EndSession(t) PROVE Control'
    BY <2>7 DEF EndSession
  <2>8. ASSUME NEW t \in Threads, CloseConnection(t) PROVE Control'
    BY <2>8 DEF CloseConnection
  <2>9. ASSUME NEW t \in Threads, Release(t) PROVE Control'
    BY <2>9 DEF Release
  <2>10. CASE TakeTooLate
    <3>1. queue # <<>> /\ queue' = Tail(queue) /\ UNCHANGED pollStep /\ step'["main"] = step["main"]
      BY <2>10 DEF TakeTooLate, Receive
    <3>2. QuitIsLast' /\ (Head(queue) = "WM_QUIT" => queue' = <<>>)
      BY <3>1, TailQuit
    <3>3. QED
      BY <2>10, <3>1, <3>2 DEF TakeTooLate, Receive
  <2>11. CASE TakeStart
    <3>1. queue # <<>> /\ queue' = Tail(queue) /\ UNCHANGED pollStep /\ step'["main"] = step["main"]
      BY <2>11 DEF TakeStart, Receive, Set, Persistent
    <3>2. QuitIsLast' /\ (Head(queue) = "WM_QUIT" => queue' = <<>>)
      BY <3>1, TailQuit
    <3>3. QED
      BY <2>11, <3>1, <3>2 DEF TakeStart, Receive, Set, Persistent
  <2>12. CASE TakeEnd
    <3>1. queue # <<>> /\ queue' = Tail(queue) /\ UNCHANGED pollStep /\ step'["main"] = step["main"]
      BY <2>12 DEF TakeEnd, Receive, Set, Persistent
    <3>2. QuitIsLast' /\ (Head(queue) = "WM_QUIT" => queue' = <<>>)
      BY <3>1, TailQuit
    <3>3. QED
      BY <2>12, <3>1, <3>2 DEF TakeEnd, Receive, Set, Persistent
  <2>13. CASE TakeRequest
    <3>1. queue # <<>> /\ queue' = Tail(queue) /\ UNCHANGED pollStep /\ step'["main"] = step["main"]
      BY <2>13 DEF TakeRequest, Receive, Set, Persistent
    <3>2. QuitIsLast' /\ (Head(queue) = "WM_QUIT" => queue' = <<>>)
      BY <3>1, TailQuit
    <3>3. QED
      BY <2>13, <3>1, <3>2 DEF TakeRequest, Receive, Set, Persistent
  <2>14. CASE TakeOther
    <3>1. queue # <<>> /\ queue' = Tail(queue) /\ UNCHANGED pollStep /\ step'["main"] = step["main"]
      BY <2>14 DEF TakeOther, Receive, Set, Persistent
    <3>2. QuitIsLast' /\ (Head(queue) = "WM_QUIT" => queue' = <<>>)
      BY <3>1, TailQuit
    <3>3. QED
      BY <2>14, <3>1, <3>2 DEF TakeOther, Receive, Set, Persistent
  <2>15. CASE TakeQuit
    <3>1. queue # <<>> /\ queue' = Tail(queue) /\ UNCHANGED pollStep /\ step'["main"] = step["main"]
      BY <2>15 DEF TakeQuit, Receive
    <3>2. QuitIsLast' /\ (Head(queue) = "WM_QUIT" => queue' = <<>>)
      BY <3>1, TailQuit
    <3>3. QED
      BY <2>15, <3>1, <3>2 DEF TakeQuit, Receive
  <2>16. CASE PollIdle
    <3>1. \A j \in DOMAIN queue : queue[j] # "WM_QUIT"
      BY <2>16 DEF PollIdle
    <3>2. queue' = queue \/ \E m : queue' = Append(queue, m) /\ m # "WM_QUIT"
      BY <2>16 DEF PollIdle, ServerCommands, QbCommands
    <3>3. \A j \in DOMAIN queue' : queue'[j] # "WM_QUIT"
      BY <3>1, <3>2, AppendQuit
    <3>4. QED
      BY <2>16, <3>3 DEF PollIdle
  <2>17. CASE PollCommand
    <3>1. \A j \in DOMAIN queue : queue[j] # "WM_QUIT"
      BY <2>17 DEF PollCommand
    <3>2. queue' = queue \/ \E m : queue' = Append(queue, m) /\ m # "WM_QUIT"
      BY <2>17 DEF PollCommand, ServerCommands, QbCommands
    <3>3. \A j \in DOMAIN queue' : queue'[j] # "WM_QUIT"
      BY <3>1, <3>2, AppendQuit
    <3>4. QED
      BY <2>17, <3>3 DEF PollCommand
  <2>18. CASE PollOther
    BY <2>18 DEF PollOther
  <2>19. CASE PollExpire
    <3>1. \A j \in DOMAIN queue : queue[j] # "WM_QUIT"
      BY <2>19 DEF PollExpire
    <3>2. queue' = queue \/ \E m : queue' = Append(queue, m) /\ m # "WM_QUIT"
      BY <2>19 DEF PollExpire, ServerCommands, QbCommands
    <3>3. \A j \in DOMAIN queue' : queue'[j] # "WM_QUIT"
      BY <3>1, <3>2, AppendQuit
    <3>4. QED
      BY <2>19, <3>3 DEF PollExpire, Persistent
  <2>20. CASE PollGate
    BY <2>20 DEF PollGate
  <2>21. CASE StartConcert
    BY <2>21 DEF StartConcert
  <2>22. CASE Refresh
    <3>1. \A j \in DOMAIN queue : queue[j] # "WM_QUIT"
      BY <2>22 DEF Refresh
    <3>2. queue' = queue \/ \E m : queue' = Append(queue, m) /\ m # "WM_QUIT"
      BY <2>22 DEF Refresh, ServerCommands, QbCommands
    <3>3. \A j \in DOMAIN queue' : queue'[j] # "WM_QUIT"
      BY <3>1, <3>2, AppendQuit
    <3>4. QED
      BY <2>22, <3>3 DEF Refresh
  <2>23. CASE StopConcert
    BY <2>23 DEF StopConcert
  <2>24. CASE JoinPoll
    <3>1. \A j \in DOMAIN queue : queue[j] # "WM_QUIT"
      BY <2>24 DEF JoinPoll
    <3>2. queue' = queue \/ \E m : queue' = Append(queue, m) /\ m = "WM_QUIT"
      BY <2>24 DEF JoinPoll, ServerCommands, QbCommands
    <3>3. \A j \in DOMAIN queue' : queue'[j] = "WM_QUIT" => j = Len(queue')
      BY <3>1, <3>2, AppendQuit
    <3>4. QED
      BY <2>24, <3>3 DEF JoinPoll
  <2>25. CASE JoinRequest
    BY <2>25 DEF JoinRequest, DeletePersistent, Persistent
  <2>26. CASE MainEnds
    BY <2>26 DEF MainEnds
  <2>27. CASE QuickBooksCloses
    BY <2>27 DEF QuickBooksCloses
  <2>28. CASE UNCHANGED vars
    BY <2>28 DEF vars
  <2>29. ASSUME NEW t \in Threads, TellPoll(t) PROVE Control'
    BY <2>29 DEF TellPoll
  <2>30. CASE TakeSync
    <3>1. queue # <<>> /\ queue' = Tail(queue) /\ UNCHANGED pollStep /\ step'["main"] = step["main"]
      BY <2>30 DEF TakeSync, Receive
    <3>2. QuitIsLast' /\ (Head(queue) = "WM_QUIT" => queue' = <<>>)
      BY <3>1, TailQuit
    <3>3. QED
      BY <2>30, <3>1, <3>2 DEF TakeSync, Receive
  <2>31. CASE PollLoop
    BY <2>31 DEF PollLoop
  <2>32. CASE CallAfterUninitialize
    BY <2>32 DEF CallAfterUninitialize
  <2>33. QED
    BY <2>1, <2>2, <2>3, <2>4, <2>5, <2>6, <2>7, <2>8, <2>9, <2>10, <2>11, <2>12, <2>13,
       <2>14, <2>15, <2>16, <2>17, <2>18, <2>19, <2>20, <2>21, <2>22, <2>23, <2>24, <2>25,
       <2>26, <2>27, <2>28, <2>29, <2>30, <2>31, <2>32
       DEF Next, WrapperStep, Take, LongPoll, Main
<1>3. QED
  BY <1>1, <1>2, TypeCorrect, PTL DEF Spec

-----------------------------------------------------------------------------
(* The wrappers hold what Held says. *)
THEOREM HeldCorrect == Spec => []Held
<1>1. Init => Held
  BY SessionAssumption DEF SessionAssumption, Init, Held, NoOrphans, NothingInNone, HasWrapper,
     HasUser, NoTicketYet, TicketGivenUp, NoneToSubscribe, NoPersistent, SecondIsOther,
     SecondSessionOnlyForInfo, NoWrapper, NewWrapper, NoTask, Names, Threads, Working, Opening, On, My
<1>2. TypeOK /\ Control /\ Held /\ [Next]_vars => Held'
  <2> SUFFICES ASSUME TypeOK, Control, Held, [Next]_vars PROVE Held'
    OBVIOUS
  <2>a. /\ step \in [Threads -> Steps]
        /\ \A t \in Threads : On(t) \in Names
        /\ wrapper \in [Names -> Wrapper]
        /\ NoTicket \notin sessions
    BY SessionAssumption DEF SessionAssumption, TypeOK, Task, On
  <2>b. task \in [Threads -> [cmd : Messages \union {"nothing"}, on : Names, left : 0 .. InfoRequests]]
    BY DEF TypeOK, Task
  <2> USE <2>a, <2>b DEF Control, MainAlone, EndIsEnd, TasksFit, Held, NoOrphans, NothingInNone,
        HasWrapper, HasUser, NoTicketYet, TicketGivenUp, NoneToSubscribe, NoPersistent,
        SecondIsOther, SecondSessionOnlyForInfo, Names, Threads, Working, Opening,
        On, My, At, Goto, quickBooks, signals
  <2>1. ASSUME NEW t \in Threads, CreateProcessor(t) PROVE Held'
    <3>1. /\ \A n \in Names : /\ wrapper'[n].ticket = wrapper[n].ticket
                             /\ wrapper'[n].exists = wrapper[n].exists
          /\ UNCHANGED <<task, sessions, stuck>>
      BY <2>1 DEF CreateProcessor, Wrapper
    <3>2. PICK s : step[t] \in Working /\ step' = [step EXCEPT ![t] = s] /\ step[t] = "create"
                     /\ \/ s \in {"connect", "check", "end"}
                        \/ s = "idle" /\ On(t) = "persistent"
      BY <2>1 DEF CreateProcessor, OpeningFailed
    <3>3. QED
      BY <3>1, <3>2
  <2>2. ASSUME NEW t \in Threads, OpenConnection(t) PROVE Held'
    <3>1. /\ \A n \in Names : /\ wrapper'[n].ticket = wrapper[n].ticket
                             /\ wrapper'[n].exists = wrapper[n].exists
          /\ UNCHANGED <<task, sessions, stuck>>
      BY <2>2 DEF OpenConnection, Wrapper
    <3>2. PICK s : step[t] \in Working /\ step' = [step EXCEPT ![t] = s] /\ step[t] = "connect"
                     /\ s \in {"process", "begin"}
      BY <2>2 DEF OpenConnection
    <3>3. QED
      BY <3>1, <3>2
  <2>3. ASSUME NEW t \in Threads, BeginSession(t) PROVE Held'
    <3>1. PICK s : /\ step[t] = "begin" /\ step' = [step EXCEPT ![t] = s]
                   /\ \/ s \in {"check", "process", "end"}
                      \/ s = "idle" /\ On(t) = "persistent"
      BY <2>3 DEF BeginSession, OpeningFailed, SessionBegun
    <3>2. CASE UNCHANGED <<wrapper, sessions>>
      BY <2>3, <3>1, <3>2 DEF BeginSession
    <3>3. ASSUME NEW ticket \in Tickets,
                 ticket \notin sessions \union {wrapper[n].ticket : n \in Names},
                 sessions' = sessions \union {ticket},
                 wrapper' = [wrapper EXCEPT ![On(t)].ticket = ticket]
          PROVE  Held'
      <4>1. /\ \A n \in Names : /\ wrapper'[n].exists = wrapper[n].exists
                               /\ wrapper'[n].ticket = IF n = On(t) THEN ticket ELSE wrapper[n].ticket
            /\ UNCHANGED <<task, stuck>>
        BY <2>3, <3>3 DEF BeginSession, Wrapper
      <4>2. NoOrphans'
        BY <3>1, <3>3, <4>1
      <4>3. SecondIsOther' /\ SecondSessionOnlyForInfo'
        BY <3>1, <3>3, <4>1
      <4>4. NoTicketYet' /\ NoneToSubscribe'
        BY <3>1, <3>3, <4>1
      <4>5. TicketGivenUp'
        BY <3>1, <3>3, <4>1
      <4>6. NothingInNone' /\ HasWrapper' /\ HasUser' /\ NoPersistent'
        BY <3>1, <3>3, <4>1
      <4>7. QED
        BY <4>2, <4>3, <4>4, <4>5, <4>6
    <3>4. QED
      BY <2>3, <3>2, <3>3 DEF BeginSession
  <2>4. ASSUME NEW t \in Threads, CheckOffline(t) PROVE Held'
    BY <2>4 DEF CheckOffline
  <2>5. ASSUME NEW t \in Threads, ProcessRequest(t) PROVE Held'
    <3>1. /\ UNCHANGED <<wrapper, sessions, stuck>>
          /\ \A u \in Threads : task'[u].cmd = task[u].cmd /\ task'[u].on = task[u].on
      BY <2>5 DEF ProcessRequest, Task
    <3>2. PICK s : /\ step[t] = "process" /\ step' = [step EXCEPT ![t] = s]
                   /\ \/ s \in {"check", "unsubscribe", "end"}
                      \/ s = "idle" /\ On(t) = "persistent"
      BY <2>5 DEF ProcessRequest
    <3>3. QED
      BY <3>1, <3>2
  <2>6. ASSUME NEW t \in Threads, CallThroughNull(t) PROVE Held'
    BY <2>6 DEF CallThroughNull, NoTask
  <2>7. ASSUME NEW t \in Threads, EndSession(t) PROVE Held'
    <3>1. /\ step[t] = "end" /\ step' = [step EXCEPT ![t] = "disconnect"]
          /\ UNCHANGED task
      BY <2>7 DEF EndSession
    <3>2. CASE UNCHANGED <<wrapper, sessions>>
      <4>1. stuck' = stuck \union ({My(t).ticket} \intersect sessions)
        BY <2>7, <3>2 DEF EndSession
      <4>2. TicketGivenUp'
        BY <3>1, <3>2, <4>1
      <4>3. NoOrphans' /\ NoTicketYet' /\ NoneToSubscribe'
        BY <3>1, <3>2, <4>1
      <4>4. SecondIsOther' /\ SecondSessionOnlyForInfo'
        BY <3>1, <3>2
      <4>5. NothingInNone' /\ HasWrapper' /\ HasUser' /\ NoPersistent'
        BY <3>1, <3>2
      <4>6. QED
        BY <4>2, <4>3, <4>4, <4>5
    <3>3. ASSUME sessions' = sessions \ {My(t).ticket}, UNCHANGED stuck,
                 wrapper' = [wrapper EXCEPT ![On(t)].ticket = NoTicket]
          PROVE  Held'
      <4>1. \A n \in Names :
              /\ wrapper'[n].exists = wrapper[n].exists
              /\ wrapper'[n].ticket = IF n = On(t) THEN NoTicket ELSE wrapper[n].ticket
        BY <3>3 DEF Wrapper
      <4>2. NoOrphans'
        BY <3>1, <3>3, <4>1
      <4>3. NoTicketYet' /\ NoneToSubscribe'
        BY <3>1, <3>3, <4>1
      <4>4. TicketGivenUp'
        <5>1. NoTicket \notin sessions /\ sessions' \ stuck' \subseteq sessions \ stuck
          BY <3>3
        <5>2. ASSUME NEW u \in Threads, step'[u] \in {"disconnect", "release"}
              PROVE  wrapper'[On(u)'].ticket \notin sessions' \ stuck'
          <6>1. On(u)' = On(u) /\ On(u) \in Names
            BY <3>1 DEF Task
          <6>2. CASE On(u) = On(t)
            BY <4>1, <5>1, <6>1, <6>2
          <6>3. CASE On(u) # On(t)
            <7>1. My(u).ticket \notin sessions \ stuck
              BY <3>1, <5>2, <6>3
            <7>2. QED
              BY <4>1, <5>1, <6>1, <6>3, <7>1
          <6>4. QED
            BY <6>2, <6>3
        <5>3. QED
          BY <5>2
      <4>5. SecondIsOther' /\ SecondSessionOnlyForInfo'
        BY <3>1, <4>1
      <4>6. NothingInNone' /\ HasWrapper' /\ HasUser' /\ NoPersistent'
        BY <3>1, <4>1
      <4>7. QED
        BY <4>2, <4>3, <4>4, <4>5, <4>6
    <3>4. QED
      BY <2>7, <3>2, <3>3 DEF EndSession
  <2>8. ASSUME NEW t \in Threads, CloseConnection(t) PROVE Held'
    <3>1. /\ \A n \in Names : /\ wrapper'[n].ticket = wrapper[n].ticket
                             /\ wrapper'[n].exists = wrapper[n].exists
          /\ UNCHANGED <<task, sessions, stuck>>
      BY <2>8 DEF CloseConnection, Wrapper
    <3>2. PICK s : step[t] \in Working /\ step' = [step EXCEPT ![t] = s] 
                     /\ \/ step[t] = "unsubscribe" /\ s = "end"
                        \/ step[t] = "disconnect" /\ s = "release"
      BY <2>8 DEF CloseConnection
    <3>3. QED
      BY <3>1, <3>2
  <2>9. ASSUME NEW t \in Threads, Release(t) PROVE Held'
    BY <2>9 DEF Release, NoWrapper
  <2>10. CASE TakeTooLate
    BY <2>10 DEF TakeTooLate, Receive
  <2>11. CASE TakeStart
    BY <2>11 DEF TakeStart, Receive, Set, Persistent, NewWrapper, NoWrapper
  <2>12. CASE TakeEnd
    BY <2>12 DEF TakeEnd, Receive, Set, Persistent
  <2>13. CASE TakeRequest
    BY <2>13 DEF TakeRequest, Receive, Set, Persistent, NewWrapper, NoWrapper
  <2>14. CASE TakeOther
    BY <2>14 DEF TakeOther, Receive, Set, Persistent, NewWrapper, NoWrapper
  <2>15. CASE TakeQuit
    <3>1. Head(queue) = queue[1] /\ 1 \in DOMAIN queue
      BY <2>15 DEF TakeQuit, Receive, TypeOK
    <3>2. step["main"] \in {"joinRequest", "crashed"}
      BY <2>15, <3>1 DEF TakeQuit, Receive, QuitIsLast
    <3>3. QED
      BY <2>15, <3>2 DEF TakeQuit, Receive
  <2>16. CASE PollIdle
    BY <2>16 DEF PollIdle
  <2>17. CASE PollCommand
    BY <2>17 DEF PollCommand
  <2>18. CASE PollOther
    BY <2>18 DEF PollOther
  <2>19. CASE PollExpire
    BY <2>19 DEF PollExpire, Persistent
  <2>20. CASE PollGate
    BY <2>20 DEF PollGate
  <2>21. CASE StartConcert
    BY <2>21 DEF StartConcert
  <2>22. CASE Refresh
    BY <2>22 DEF Refresh
  <2>23. CASE StopConcert
    BY <2>23 DEF StopConcert
  <2>24. CASE JoinPoll
    BY <2>24 DEF JoinPoll
  <2>25. CASE JoinRequest
    BY <2>25 DEF JoinRequest, DeletePersistent, Persistent
  <2>26. CASE MainEnds
    BY <2>26 DEF MainEnds
  <2>27. CASE QuickBooksCloses
    BY <2>27 DEF QuickBooksCloses
  <2>28. CASE UNCHANGED vars
    BY <2>28 DEF vars
  <2>29. ASSUME NEW t \in Threads, TellPoll(t) PROVE Held'
    BY <2>29 DEF TellPoll
  <2>30. CASE TakeSync
    BY <2>30 DEF TakeSync, Receive
  <2>31. CASE PollLoop
    BY <2>31 DEF PollLoop
  <2>32. CASE CallAfterUninitialize
    BY <2>32 DEF CallAfterUninitialize, NoTask
  <2>33. QED
    BY <2>1, <2>2, <2>3, <2>4, <2>5, <2>6, <2>7, <2>8, <2>9, <2>10, <2>11, <2>12, <2>13,
       <2>14, <2>15, <2>16, <2>17, <2>18, <2>19, <2>20, <2>21, <2>22, <2>23, <2>24, <2>25,
       <2>26, <2>27, <2>28, <2>29, <2>30, <2>31, <2>32
       DEF Next, WrapperStep, Take, LongPoll, Main
<1>3. QED
  BY <1>1, <1>2, TypeCorrect, ControlCorrect, PTL DEF Spec

-----------------------------------------------------------------------------
(* The inductive invariant as a whole. *)
THEOREM Inductive == Spec => []IInv
  BY TypeCorrect, ControlCorrect, HeldCorrect, PTL DEF IInv

(* No session of the core at QuickBooks is forgotten: a wrapper has its    *)
(* ticket, or QuickBooks has refused to end it.                            *)
THEOREM OrphansNever == Spec => []NoOrphans
  BY HeldCorrect, PTL DEF Held

(* Two sessions are open at once only while GetInfoFromQB runs. *)
THEOREM SecondOnlyForInfo == Spec => []SecondSessionOnlyForInfo
  BY HeldCorrect, PTL DEF Held

(* The main thread deletes the server's session when nobody uses it. *)
THEOREM DeletionSafe == Spec => []DeletedUnused
<1>1. Control => DeletedUnused
  BY DEF Control, MainAlone, DeletedUnused, At, Working, Opening
<1>2. QED
  BY <1>1, ControlCorrect, PTL

(* A core that has stopped leaves QuickBooks no session but those it has   *)
(* refused to end.                                                         *)
THEOREM EndLeavesNothing == Spec => []NothingHeldAtEnd
<1>1. TypeOK /\ Control /\ Held => NothingHeldAtEnd
  BY SessionAssumption
     DEF SessionAssumption, TypeOK, Control, EndIsEnd, Held, NoPersistent, HasUser, NothingInNone,
         NoOrphans, NothingHeldAtEnd, At, Names, Threads, Working, Opening
<1>2. QED
  BY <1>1, TypeCorrect, ControlCorrect, HeldCorrect, PTL
=============================================================================
