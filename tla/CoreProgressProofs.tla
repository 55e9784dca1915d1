-------------------------- MODULE CoreProgressProofs --------------------------
(***************************************************************************)
(* Proofs that the core's threads get on: nobody waits in a circle but in  *)
(* the known ways, and once the threads are told to end every step brings  *)
(* the end nearer.  The two are the safety half of OnlyKnownHangs, for any *)
(* kinds and numbers of commands and refreshes; fairness does the rest.    *)
(***************************************************************************)
EXTENDS CorePipelineProofs

-----------------------------------------------------------------------------
(* The invariants, over the one of CorePipelineProofs.                     *)

\* A thread blocked in GetMessage accepts messages.
SignalFits == \A t \in Loops : loop[t] = "blocked" => signal[t]

\* A thread that StopConcert waits for has ended or has a WM_QUIT to come.
QuitThere ==
    /\ mainPc = "joinRequest" => loop["request"] = "exit" \/ ~NoQuit(queue["request"])
    /\ mainPc = "joinResponse" => loop["response"] = "exit" \/ ~NoQuit(queue["response"])

\* The handler stands only at steps of the message it handles.
FitsHand(step, h) ==
    /\ step # "start" => h # <<>>
    /\ step \in {"info", "relink", "linkdead", "publish"} => h[1].kind = "versions"
    /\ step = "register" => h[1].kind = "sync"
    /\ step = "answer" => h[1].kind \in AllKinds \union {"querylost"}
HandlerFits == FitsHand(reqStep, hand["request"])

\* The long-poll thread is told to end in GoOffline, with the flag that keeps
\* it from polling and the request thread from asking QuickBooks.
ClosingFits ==
    timeToQuit => goOffline /\ mainPc \in {"tell", "unblock", "joinPoll"} \union AfterPoll

PInv == IInv /\ SignalFits /\ QuitThere /\ HandlerFits /\ ClosingFits

-----------------------------------------------------------------------------
(* SignalFits.                                                             *)
LEMMA SignalFitsStep ==
    ASSUME LoopTypes, PlainTypes, PollFits, SignalFits, [Next]_vars
    PROVE  SignalFits'
<1>1. CASE UNCHANGED <<signal, loop>>
  BY <1>1 DEF SignalFits, Loops
<1>2. ASSUME NEW t \in Loops, ML!Idle(t)
      PROVE  SignalFits'
  <2>1. signal' = [signal EXCEPT ![t] = TRUE] /\ loop' = [loop EXCEPT ![t] = "blocked"]
    BY <1>2 DEF ML!Idle
  <2>2. signal'[t]
    BY <2>1, LoopTypesMean, Zenon
  <2>3. \A u \in Loops \ {t} : signal'[u] = signal[u] /\ loop'[u] = loop[u]
    BY <2>1, LoopTypesMean
  <2>4. QED  BY <2>2, <2>3 DEF SignalFits, Loops
<1>3. ASSUME NEW t \in Loops, ML!Take(t) \/ ML!TakeQuit(t) \/ ML!Finish(t)
      PROVE  SignalFits'
  <2>1. loop'[t] # "blocked" /\ \A u \in Loops \ {t} : loop'[u] = loop[u]
    BY <1>3, TakeTypes, TakeQuitTypes, Finished
  <2>2. signal' = signal \/ signal' = [signal EXCEPT ![t] = FALSE]
    BY <1>3 DEF ML!Take, ML!TakeQuit, ML!Finish
  <2>3. \A u \in Loops \ {t} : signal'[u] = signal[u]
    BY <2>2, LoopTypesMean
  <2>4. QED  BY <2>1, <2>3 DEF SignalFits, Loops
<1>4. CASE OffLoops \/ PollDeliver \/ PollPostExpire \/ RefreshPosts \/ QuitRequestThread
           \/ QuitResponseThread
  BY <1>1, <1>4, OffLoopsSame, PostedItem DEF loopVars
<1>5. CASE RequestIdle \/ ResponseIdle
  BY <1>2, <1>5 DEF RequestIdle, ResponseIdle, Loops
<1>6. CASE RequestTake \/ ResponseTake \/ RequestQuit \/ ResponseQuit \/ RequestAnswer
           \/ RequestExpire \/ SendBack
  BY <1>3, <1>6 DEF RequestTake, ResponseTake, RequestQuit, ResponseQuit, RequestAnswer,
                    RequestExpire, SendBack, Loops
<1>7. QED  BY <1>4, <1>5, <1>6, StepKinds

-----------------------------------------------------------------------------
(* QuitThere.                                                              *)
LEMMA QuitStays ==
    ASSUME NEW q \in Seq(Item)
    PROVE  /\ ~NoQuit(Append(q, Quit))
           /\ q # <<>> /\ ~NoQuit(q) /\ Head(q) # Quit => ~NoQuit(Tail(q))
<1>1. ~NoQuit(Append(q, Quit))
  <2> DEFINE r == Append(q, Quit)
  <2>1. Len(r) = Len(q) + 1 /\ Len(q) \in Nat /\ r[Len(q) + 1] = Quit
    BY ItemKeys
  <2> HIDE DEF r
  <2>2. Len(r) \in 1 .. Len(r) /\ r[Len(r)] = Quit
    BY <2>1
  <2>3. QED  BY <2>2 DEF NoQuit, r
<1>2. ASSUME q # <<>>, ~NoQuit(q), Head(q) # Quit
      PROVE  ~NoQuit(Tail(q))
  <2> DEFINE r == Tail(q)
  <2>1. PICK i \in 1 .. Len(q) : q[i] = Quit
    BY <1>2 DEF NoQuit
  <2>2. Len(r) = Len(q) - 1 /\ Len(q) \in Nat \ {0} /\ Head(q) = q[1]
    BY <1>2
  <2>3. \A j \in 1 .. Len(r) : r[j] = q[j + 1]
    BY <1>2, HeadTailProperties
  <2> HIDE DEF r
  <2>4. i # 1
    BY <1>2, <2>1, <2>2
  <2>5. i - 1 \in 1 .. Len(r) /\ (i - 1) + 1 = i
    BY <2>1, <2>2, <2>4
  <2>6. r[i - 1] = Quit
    BY <2>1, <2>3, <2>5
  <2>7. QED  BY <2>5, <2>6 DEF NoQuit, r
<1>3. QED  BY <1>1, <1>2

LEMMA QuitThereStep ==
    ASSUME LoopTypes, PlainTypes, PollFits, QuitThere, [Next]_vars
    PROVE  QuitThere'
<1>1. ASSUME mainPc' = "joinRequest"
      PROVE  loop'["request"] = "exit" \/ ~NoQuit(queue'["request"])
  <2> DEFINE q == queue["request"]
  <2>1. q \in Seq(Item)
    BY UnderWayIs
  <2>2. CASE QuitRequestThread
    BY <2>1, <2>2, PostedItem, Posted, ItemKeys, QuitStays DEF Loops
  <2>3. CASE mainPc = "joinRequest" /\ ~QuitRequestThread
    <3>1. loop["request"] = "exit" \/ ~NoQuit(q)
      BY <2>3 DEF QuitThere
    <3>2. CASE RequestLeft
      BY <3>1, <3>2 DEF RequestLeft
    <3>3. CASE RequestPosted
      BY <2>3, <3>3 DEF RequestPosted, BeforeJoin
    <3>4. CASE ML!Take("request")
      <4>1. /\ q # <<>> /\ queue'["request"] = Tail(q) /\ loop["request"] # "exit"
            /\ Head(q) \in Messages
        BY <3>4, TakeTypes DEF Loops
      <4>2. QED  BY <2>1, <3>1, <4>1, QuitStays, ItemKeys
    <3>5. CASE ML!TakeQuit("request")
      BY <3>5, TakeQuitTypes DEF Loops
    <3>6. QED  BY <2>3, <3>2, <3>3, <3>4, <3>5, RequestQueueSteps
  <2>4. QED
    BY <1>1, <2>2, <2>3, MainMoves DEF BeforeJoin, JoinLongPoll, GoOfflineAgain,
       JoinRequestThread, QuitResponseThread, JoinResponseThread
<1>2. ASSUME mainPc' = "joinResponse"
      PROVE  loop'["response"] = "exit" \/ ~NoQuit(queue'["response"])
  <2> DEFINE q == queue["response"]
  <2>1. q \in Seq(Item)
    BY UnderWayIs
  <2>2. CASE QuitResponseThread
    BY <2>1, <2>2, PostedItem, Posted, ItemKeys, QuitStays DEF Loops
  <2>3. CASE mainPc = "joinResponse" /\ ~QuitResponseThread
    <3>1. loop["response"] = "exit" \/ ~NoQuit(q)
      BY <2>3 DEF QuitThere
    <3>2. CASE ResponseLeft
      BY <3>1, <3>2 DEF ResponseLeft
    <3>3. CASE ResponsePosted
      <4>1. PICK m \in Messages : queue'["response"] = Append(q, m)
        BY <3>3 DEF ResponsePosted
      <4>2. ~NoQuit(q) => ~NoQuit(queue'["response"])
        BY <2>1, <4>1, AppendProperties, ItemKeys DEF NoQuit
      <4>3. QED  BY <3>1, <3>3, <4>2 DEF ResponsePosted
    <3>4. CASE ML!Take("response")
      <4>1. /\ q # <<>> /\ queue'["response"] = Tail(q) /\ loop["response"] # "exit"
            /\ Head(q) \in Messages
        BY <3>4, TakeTypes DEF Loops
      <4>2. QED  BY <2>1, <3>1, <4>1, QuitStays, ItemKeys
    <3>5. CASE ML!TakeQuit("response")
      BY <3>5, TakeQuitTypes DEF Loops
    <3>6. QED  BY <2>3, <3>2, <3>3, <3>4, <3>5, ResponseQueueSteps
  <2>4. QED
    BY <1>2, <2>2, <2>3, MainMoves DEF BeforeJoin, JoinLongPoll, GoOfflineAgain,
       QuitRequestThread, JoinRequestThread, JoinResponseThread
<1>3. QED  BY <1>1, <1>2 DEF QuitThere

-----------------------------------------------------------------------------
(* HandlerFits.  Only the request thread changes reqStep and its hand.     *)
HandlerRuns ==
    \/ RunPlain \/ RunQbOffline \/ RunQb
    \/ RunInfo \/ RunRelink \/ RunLinkdead \/ RunPublish
    \/ RunSync \/ RunRegister \/ RunBrowser \/ RunQuit

LEMMA HandlerMoves ==
    ASSUME LoopTypes, PlainTypes, PollFits, [Next]_vars
    PROVE  \/ HandlerRuns
           \/ UNCHANGED <<reqStep, hand>>
           \/ RequestTake \/ RequestAnswer \/ RequestExpire
           \/ reqStep' = reqStep /\ hand'["request"] = hand["request"]
<1>1. CASE OffLoops
  <2>1. UNCHANGED hand
    BY <1>1, OffLoopsSame DEF loopVars
  <2>2. HandlerRuns \/ UNCHANGED reqStep
    BY <1>1 DEF OffLoops, HandlerRuns, PollLoop, PollWaitReady, PollGate, PollSend, PollIdle,
       PollOldSessionKey, PollCommand, PollFails, PollBackoff, PollNotify, PollExpire,
       RefreshArrives, Close, GoOfflineBegin, GoOfflineMark, GoOfflineTell,
       GoOfflineEnd, JoinLongPoll, GoOfflineAgain, JoinRequestThread, JoinResponseThread, vars
  <2>3. QED  BY <2>1, <2>2
<1>2. CASE PollDeliver \/ PollPostExpire \/ RefreshPosts \/ QuitRequestThread
           \/ QuitResponseThread
  BY <1>2, PostedItem DEF PollDeliver, PollPostExpire, RefreshPosts, QuitRequestThread,
                          QuitResponseThread
<1>3. CASE RequestIdle \/ ResponseIdle
  BY <1>3, IdleTypes DEF RequestIdle, ResponseIdle, Loops
<1>4. CASE RequestQuit \/ ResponseQuit
  BY <1>4, TakeQuitTypes DEF RequestQuit, ResponseQuit, Loops
<1>5. CASE ResponseTake \/ SendBack
  BY <1>5, TakeTypes, Finished DEF ResponseTake, SendBack, Loops
<1>6. QED  BY <1>1, <1>2, <1>3, <1>4, <1>5, StepKinds

LEMMA HandlerFitsStep ==
    ASSUME LoopTypes, PlainTypes, PollFits, HandlerFits, [Next]_vars
    PROVE  HandlerFits'
<1> DEFINE h == hand["request"]
<1>1. CASE HandlerRuns
  <2>1. hand' = hand /\ h # <<>>
    <3>1. loop["request"] = "busy"
      BY <1>1 DEF HandlerRuns, Handling, RunPlain, RunQbOffline, RunQb, RunInfo, RunRelink,
                  RunLinkdead, RunPublish, RunSync, RunRegister, RunBrowser, RunQuit
    <3>2. OffLoops
      BY <1>1 DEF HandlerRuns, OffLoops
    <3>3. QED  BY <3>1, <3>2, OffLoopsSame, LoopTypesMean DEF Loops, loopVars
  <2>2. FitsHand(reqStep', h)
    <3>1. CASE RunPlain \/ RunQbOffline \/ RunSync \/ RunRegister \/ RunBrowser \/ RunQuit
      BY <2>1, <3>1 DEF FitsHand, AllKinds, Handling, RunPlain, RunQbOffline, RunSync,
                        RunRegister, RunBrowser, RunQuit
    <3>2. CASE RunQb
      BY <2>1, <3>2 DEF FitsHand, AllKinds, Handling, RunQb
    <3>3. CASE RunInfo \/ RunRelink \/ RunLinkdead \/ RunPublish
      BY <2>1, <3>3 DEF FitsHand, AllKinds, Handling, RunInfo, RunRelink, RunLinkdead,
                        RunPublish
    <3>4. QED  BY <1>1, <3>1, <3>2, <3>3 DEF HandlerRuns
  <2>3. QED  BY <2>1, <2>2 DEF HandlerFits, FitsHand
<1>2. CASE RequestTake
  <2>1. reqStep' = reqStep /\ h = <<>>
    BY <1>2, TakeTypes DEF RequestTake, Loops
  <2>2. QED  BY <2>1 DEF HandlerFits, FitsHand
<1>3. CASE RequestAnswer \/ RequestExpire
  <2>1. reqStep' = "start"
    BY <1>3 DEF RequestAnswer, RequestExpire, Handling
  <2>2. QED  BY <2>1 DEF HandlerFits, FitsHand
<1>4. CASE reqStep' = reqStep /\ hand'["request"] = h
  BY <1>4 DEF HandlerFits, FitsHand
<1>5. QED  BY <1>1, <1>2, <1>3, <1>4, HandlerMoves

-----------------------------------------------------------------------------
(* ClosingFits.                                                            *)
MainThread == RefreshArrives \/ RefreshPosts \/ Close \/ StopConcert

LEMMA OthersLeaveMain ==
    [Next]_vars => MainThread \/ UNCHANGED <<mainPc, timeToQuit, goOffline>>
<1> SUFFICES ASSUME [Next]_vars
             PROVE  MainThread \/ UNCHANGED <<mainPc, timeToQuit, goOffline>>
  OBVIOUS
<1>1. CASE LongPollThread
  BY <1>1 DEF LongPollThread, PollLoop, PollWaitReady, PollGate, PollSend, PollIdle,
              PollOldSessionKey, PollCommand, PollFails, PollBackoff, PollNotify, PollDeliver,
              PollExpire, PollPostExpire, mainVars, offlineVars
<1>2. CASE RequestThread \/ ResponseThread
  BY <1>2 DEF RequestThread, ResponseThread, RequestIdle, RequestTake, RequestQuit, RunPlain,
              RunQbOffline, RunQb, RunInfo, RunRelink, RunLinkdead, RunPublish, RunSync,
              RunRegister, RunBrowser, RunQuit, RequestAnswer, RequestExpire,
              ResponseIdle, ResponseTake, SendBack, ResponseQuit, mainVars, offlineVars
<1>3. CASE UNCHANGED vars
  BY <1>3 DEF vars, mainVars, offlineVars
<1>4. QED  BY <1>1, <1>2, <1>3 DEF Next, MainThread

LEMMA ClosingFitsStep ==
    ASSUME ClosingFits, [Next]_vars
    PROVE  ClosingFits'
<1>1. CASE UNCHANGED <<mainPc, timeToQuit, goOffline>>
  BY <1>1 DEF ClosingFits
<1>2. CASE RefreshArrives \/ RefreshPosts \/ Close
  BY <1>2 DEF ClosingFits, AfterPoll, RefreshArrives, RefreshPosts, Close, offlineVars
<1>3. CASE GoOfflineBegin \/ GoOfflineMark \/ GoOfflineTell \/ GoOfflineEnd
  BY <1>3 DEF ClosingFits, AfterPoll, GoOfflineBegin, GoOfflineMark, GoOfflineTell,
              GoOfflineEnd, offlineVars
<1>4. CASE JoinLongPoll \/ GoOfflineAgain \/ QuitRequestThread \/ JoinRequestThread
           \/ QuitResponseThread \/ JoinResponseThread
  BY <1>4 DEF ClosingFits, AfterPoll, JoinLongPoll, GoOfflineAgain, QuitRequestThread,
              JoinRequestThread, QuitResponseThread, JoinResponseThread, offlineVars
<1>5. QED  BY <1>1, <1>2, <1>3, <1>4, OthersLeaveMain DEF MainThread, StopConcert

-----------------------------------------------------------------------------
(* The theorems.                                                           *)
LEMMA ProgressInit == Init => PInv
<1> SUFFICES ASSUME Init PROVE PInv
  OBVIOUS
<1>1. signal = [t \in Loops |-> TRUE]
  BY DEF Init, ML!LoopInit, Loops
<1>2. SignalFits
  BY <1>1 DEF SignalFits
<1>3. QED
  BY <1>2, InitHolds DEF PInv, QuitThere, HandlerFits, FitsHand, ClosingFits, Init

LEMMA ProgressStep == PInv /\ [Next]_vars => PInv'
<1> SUFFICES ASSUME PInv, [Next]_vars PROVE PInv'
  OBVIOUS
<1>1. IInv /\ LoopTypes /\ PlainTypes /\ PollFits
  BY TypeMeans DEF PInv, IInv, Control
<1>2. SignalFits /\ QuitThere /\ HandlerFits /\ ClosingFits
  BY DEF PInv
<1>3. IInv'
  BY <1>1, StepHolds
<1>4. SignalFits' /\ QuitThere'
  BY <1>1, <1>2, SignalFitsStep, QuitThereStep
<1>5. HandlerFits' /\ ClosingFits'
  BY <1>1, <1>2, HandlerFitsStep, ClosingFitsStep
<1>6. QED  BY <1>3, <1>4, <1>5 DEF PInv

(* The invariant of progress holds of every behaviour of the core.         *)
THEOREM ProgressInductive == Spec => []PInv
<1>1. Init /\ [][Next]_vars => []PInv
  BY ProgressInit, ProgressStep, PTL
<1>2. QED  BY <1>1, PTL DEF Spec

LEMMA NotEmpty ==
    ASSUME NEW q, ~NoQuit(q)
    PROVE  q # <<>>
BY DEF NoQuit

\* A response thread that refuses replies has one to send or to look for.
LEMMA ResponseUnready ==
    ASSUME LoopTypes, SignalFits, loop["response"] # "exit", ~signal["response"]
    PROVE  ResponseGetsOn
<1>1. loop["response"] # "blocked" /\ loop["response"] \in ML!LoopStates
  BY LoopTypesMean DEF SignalFits, Loops
<1>2. QED  BY <1>1 DEF ResponseGetsOn, LoopGetsOn, ML!LoopStates

\* A request thread at work gets on, waits for a response thread that does,
\* or waits for the main thread or the shell.
LEMMA RequestBusy ==
    ASSUME PInv, loop["request"] = "busy"
    PROVE  RequestGetsOn \/ ResponseGetsOn \/ RefreshMeetsBrowser \/ ShellSilent
<1> DEFINE h == hand["request"]
<1>1. LoopTypes /\ PlainTypes /\ RequestEnds /\ ResponseEnds /\ SignalFits /\ HandlerFits
  BY TypeMeans DEF PInv, IInv, Control
<1>2. h # <<>> /\ h[1] \in Messages
  BY <1>1, LoopTypesMean, HandFacts DEF Loops
<1>3. h[1].kind \in AllKinds \union {"querylost", "expire"}
  BY <1>2 DEF Messages
<1>4. loop["response"] # "exit"
  BY <1>1 DEF RequestEnds, ResponseEnds, AfterRequest
<1>5. reqStep \in HandlerSteps
  BY <1>1 DEF PlainTypes
<1>6. FitsHand(reqStep, h)
  BY <1>1 DEF HandlerFits
<1>7. CASE reqStep = "start"
  <2>1. CASE h[1].kind = "browser"
    BY <1>7, <2>1 DEF RequestGetsOn, Handling, RefreshMeetsBrowser, MainAnswersSendMessage
  <2>2. CASE h[1].kind # "browser"
    BY <1>3, <1>7, <2>2 DEF RequestGetsOn, Handling
  <2>3. QED  BY <2>1, <2>2
<1>8. CASE reqStep \in {"info", "relink", "linkdead", "publish"}
  BY <1>6, <1>8 DEF RequestGetsOn, Handling, FitsHand
<1>9. CASE reqStep = "register"
  BY <1>6, <1>9 DEF RequestGetsOn, Handling, FitsHand
<1>10. CASE reqStep = "answer"
  <2>1. CASE signal["response"]
    BY <1>6, <1>10, <2>1 DEF RequestGetsOn, Handling, FitsHand
  <2>2. CASE ~signal["response"]
    BY <1>1, <1>4, <2>2, ResponseUnready
  <2>3. QED  BY <2>1, <2>2
<1>11. CASE reqStep = "unheard"
  BY <1>11 DEF ShellSilent
<1>12. QED  BY <1>5, <1>7, <1>8, <1>9, <1>10, <1>11 DEF HandlerSteps

\* A request thread that refuses messages, or has some, does not sleep.
LEMMA RequestUnready ==
    ASSUME PInv, loop["request"] # "exit", ~signal["request"] \/ queue["request"] # <<>>
    PROVE  RequestGetsOn \/ ResponseGetsOn \/ RefreshMeetsBrowser \/ ShellSilent
<1>1. LoopTypes /\ SignalFits
  BY TypeMeans DEF PInv, IInv
<1>2. loop["request"] \in ML!LoopStates
  BY <1>1, LoopTypesMean DEF Loops
<1>3. CASE loop["request"] = "busy"
  BY <1>3, RequestBusy
<1>4. CASE loop["request"] = "top"
  BY <1>4 DEF RequestGetsOn, LoopGetsOn
<1>5. CASE loop["request"] = "blocked"
  BY <1>1, <1>5 DEF SignalFits, RequestGetsOn, LoopGetsOn, Loops
<1>6. QED  BY <1>2, <1>3, <1>4, <1>5 DEF ML!LoopStates

(* When the main thread has to post a refresh, or is in StopConcert, it or *)
(* a thread it waits for gets on, except in the known hangs.               *)
THEOREM NoOtherDeadlock == Spec => []OnlyKnownDeadlocks
<1>1. PInv => OnlyKnownDeadlocks
  <2> SUFFICES ASSUME PInv, mainPc \notin {"pump", "done"}
               PROVE  \/ MainGetsOn \/ RequestGetsOn \/ ResponseGetsOn
                      \/ Closing /\ PollGetsOn
                      \/ WakeUpLost \/ RefreshMeetsBrowser \/ ShellSilent
    BY DEF OnlyKnownDeadlocks
  <2>1. /\ LoopTypes /\ PlainTypes /\ PollFits /\ RequestEnds /\ ResponseEnds
        /\ SignalFits /\ QuitThere
    BY TypeMeans DEF PInv, IInv, Control
  <2>2. mainPc \in MainStates /\ pollPc \in PollStates
    BY <2>1 DEF PlainTypes
  <2>3. mainPc \notin AfterRequest \union {"joinRequest"} => loop["request"] # "exit"
    BY <2>1 DEF RequestEnds
  <2>4. CASE mainPc = "refresh"
    <3>1. CASE signal["request"]
      BY <2>4, <3>1 DEF MainGetsOn
    <3>2. CASE ~signal["request"]
      BY <2>3, <2>4, <3>2, RequestUnready DEF AfterRequest
    <3>3. QED  BY <3>1, <3>2
  <2>5. CASE mainPc \in {"offline", "mark", "tell", "unblock", "offlineAgain", "quitRequest",
                         "quitResponse"}
    BY <2>5 DEF MainGetsOn
  <2>6. CASE mainPc = "joinPoll"
    <3>1. Closing /\ MainAnswersSendMessage /\ loop["request"] # "exit"
      BY <2>3, <2>6 DEF Closing, MainAnswersSendMessage, AfterRequest
    <3>2. CASE pollPc = "exit"
      BY <2>6, <3>2 DEF MainGetsOn
    <3>3. CASE pollPc \in {"loop", "gate", "send", "inflight", "expire", "notify", "backoff"}
      BY <3>1, <3>3 DEF PollGetsOn
    <3>4. CASE pollPc = "wait"
      BY <2>6, <3>1, <3>4 DEF PollGetsOn, WakeUpLost
    <3>5. CASE pollPc \in {"deliver", "postExpire"}
      <4>1. CASE ~signal["request"] \/ queue["request"] # <<>>
        BY <3>1, <4>1, RequestUnready
      <4>2. CASE signal["request"] /\ queue["request"] = <<>>
        <5>1. Len(queue["request"]) < MaxQueue
          BY <4>2, PipelineAssumption
        <5>2. QED  BY <3>1, <3>5, <4>2, <5>1 DEF PollGetsOn
      <4>3. QED  BY <4>1, <4>2
    <3>6. QED  BY <2>2, <3>2, <3>3, <3>4, <3>5 DEF PollStates
  <2>7. CASE mainPc = "joinRequest"
    <3>1. CASE loop["request"] = "exit"
      BY <2>7, <3>1 DEF MainGetsOn
    <3>2. CASE loop["request"] # "exit"
      <4>1. queue["request"] # <<>>
        BY <2>1, <2>7, <3>2, NotEmpty DEF QuitThere
      <4>2. QED  BY <3>2, <4>1, RequestUnready
    <3>3. QED  BY <3>1, <3>2
  <2>8. CASE mainPc = "joinResponse"
    <3>1. CASE loop["response"] = "exit"
      BY <2>8, <3>1 DEF MainGetsOn
    <3>2. CASE loop["response"] # "exit"
      <4>1. queue["response"] # <<>> /\ loop["response"] \in ML!LoopStates
        BY <2>1, <2>8, <3>2, NotEmpty, LoopTypesMean DEF QuitThere, Loops
      <4>2. QED  BY <3>2, <4>1 DEF ResponseGetsOn, LoopGetsOn, ML!LoopStates
    <3>3. QED  BY <3>1, <3>2
  <2>9. CASE mainPc = "unheard"
    BY <2>9 DEF ShellSilent
  <2>10. QED  BY <2>2, <2>4, <2>5, <2>6, <2>7, <2>8, <2>9 DEF MainStates
<1>2. QED  BY <1>1, ProgressInductive, PTL

-----------------------------------------------------------------------------
(* The work left, as a sum over the threads.                               *)
RequestLeftOf(l, step, n) ==
    MessageWork * n
      + (CASE l = "busy" -> HandlerWork[step] + ReplyWork + 1
           [] l = "top" -> 1
           [] OTHER -> 0)
ResponseLeftOf(l, n) ==
    ReplyWork * n
      + (CASE l = "busy" -> 2
           [] l = "top" -> 1
           [] OTHER -> 0)
MainLeftOf(pc) ==
    CASE pc = "done" -> 0
      [] pc = "joinResponse" -> 1
      [] pc = "quitResponse" -> 2 + ReplyWork
      [] pc = "joinRequest" -> 3 + ReplyWork
      [] pc = "quitRequest" -> 4 + ReplyWork + MessageWork
      [] pc = "offlineAgain" -> 5 + ReplyWork + MessageWork
      [] pc = "joinPoll" -> 6 + ReplyWork + MessageWork
      [] pc = "unblock" -> 7 + ReplyWork + MessageWork
      [] OTHER -> 8 + ReplyWork + MessageWork

RequestNow == RequestLeftOf(loop["request"], reqStep, Len(queue["request"]))
ResponseNow == ResponseLeftOf(loop["response"], Len(queue["response"]))

LEMMA WorkIs ==
    /\ Work = MainLeftOf(mainPc) + PollWork[pollPc] + RequestNow + ResponseNow
    /\ Work' = MainLeftOf(mainPc') + PollWork[pollPc'] + RequestNow' + ResponseNow'
BY DEF Work, MainWork, RequestWork, ResponseWork, MainLeftOf, RequestLeftOf, ResponseLeftOf,
       RequestNow, ResponseNow

LEMMA LeftIsNat ==
    /\ \A pc \in MainStates : MainLeftOf(pc) \in Nat
    /\ \A pc \in PollStates : PollWork[pc] \in Nat
    /\ \A l \in ML!LoopStates, step \in HandlerSteps, n \in Nat :
         RequestLeftOf(l, step, n) \in Nat
    /\ \A l \in ML!LoopStates, n \in Nat : ResponseLeftOf(l, n) \in Nat
<1> USE DEF MessageWork, ReplyWork
<1>1. \A pc \in MainStates : MainLeftOf(pc) \in Nat
  BY DEF MainStates, MainLeftOf
<1>2. \A pc \in PollStates : PollWork[pc] \in Nat
  BY DEF PollStates, PollWork
<1>3. \A step \in HandlerSteps : HandlerWork[step] \in Nat
  BY DEF HandlerSteps, HandlerWork
<1>4. \A l \in ML!LoopStates, step \in HandlerSteps, n \in Nat :
         RequestLeftOf(l, step, n) \in Nat
  BY <1>3 DEF RequestLeftOf, ML!LoopStates
<1>5. \A l \in ML!LoopStates, n \in Nat : ResponseLeftOf(l, n) \in Nat
  BY DEF ResponseLeftOf, ML!LoopStates
<1>6. QED  BY <1>1, <1>2, <1>4, <1>5

LEMMA NowIsNat ==
    ASSUME LoopTypes, PlainTypes
    PROVE  /\ MainLeftOf(mainPc) \in Nat /\ PollWork[pollPc] \in Nat
           /\ RequestNow \in Nat /\ ResponseNow \in Nat
           /\ loop["request"] \in ML!LoopStates /\ loop["response"] \in ML!LoopStates
           /\ queue["request"] \in Seq(Item) /\ queue["response"] \in Seq(Item)
           /\ Len(queue["request"]) \in Nat /\ Len(queue["response"]) \in Nat
<1>1. /\ loop["request"] \in ML!LoopStates /\ loop["response"] \in ML!LoopStates
      /\ queue["request"] \in Seq(Item) /\ queue["response"] \in Seq(Item)
  BY LoopTypesMean DEF Loops
<1>2. Len(queue["request"]) \in Nat /\ Len(queue["response"]) \in Nat
  BY <1>1
<1>3. QED  BY <1>1, <1>2, LeftIsNat DEF PlainTypes, RequestNow, ResponseNow

\* The next state's types, which the lemma above gives for the state itself.
LEMMA ThenIsNat ==
    ASSUME LoopTypes', PlainTypes'
    PROVE  /\ MainLeftOf(mainPc') \in Nat /\ PollWork[pollPc'] \in Nat
           /\ RequestNow' \in Nat /\ ResponseNow' \in Nat
<1>1. /\ loop'["request"] \in ML!LoopStates /\ loop'["response"] \in ML!LoopStates
      /\ queue'["request"] \in Seq(Item) /\ queue'["response"] \in Seq(Item)
  BY DEF Loops, LoopTypes, ML!LoopTypeOK, Item
<1>2. Len(queue'["request"]) \in Nat /\ Len(queue'["response"]) \in Nat
  BY <1>1
<1>3. QED  BY <1>1, <1>2, LeftIsNat DEF PlainTypes, RequestNow, ResponseNow

\* The sums of a step: at most one thread gives work to another, and gives
\* less than it has done.
LEMMA Sums ==
    ASSUME LoopTypes, PlainTypes, LoopTypes', PlainTypes',
           \/ /\ MainLeftOf(mainPc') < MainLeftOf(mainPc)
              /\ PollWork[pollPc'] = PollWork[pollPc]
              /\ RequestNow' = RequestNow /\ ResponseNow' = ResponseNow
           \/ /\ MainLeftOf(mainPc') + MessageWork < MainLeftOf(mainPc)
              /\ PollWork[pollPc'] = PollWork[pollPc]
              /\ RequestNow' = RequestNow + MessageWork /\ ResponseNow' = ResponseNow
           \/ /\ MainLeftOf(mainPc') + ReplyWork < MainLeftOf(mainPc)
              /\ PollWork[pollPc'] = PollWork[pollPc]
              /\ RequestNow' = RequestNow /\ ResponseNow' = ResponseNow + ReplyWork
           \/ /\ MainLeftOf(mainPc') = MainLeftOf(mainPc)
              /\ PollWork[pollPc'] < PollWork[pollPc]
              /\ RequestNow' = RequestNow /\ ResponseNow' = ResponseNow
           \/ /\ MainLeftOf(mainPc') = MainLeftOf(mainPc)
              /\ PollWork[pollPc'] + MessageWork < PollWork[pollPc]
              /\ RequestNow' = RequestNow + MessageWork /\ ResponseNow' = ResponseNow
           \/ /\ MainLeftOf(mainPc') = MainLeftOf(mainPc)
              /\ PollWork[pollPc'] = PollWork[pollPc]
              /\ RequestNow' < RequestNow /\ ResponseNow' = ResponseNow
           \/ /\ MainLeftOf(mainPc') = MainLeftOf(mainPc)
              /\ PollWork[pollPc'] = PollWork[pollPc]
              /\ RequestNow' + ReplyWork < RequestNow
              /\ ResponseNow' = ResponseNow + ReplyWork
           \/ /\ MainLeftOf(mainPc') = MainLeftOf(mainPc)
              /\ PollWork[pollPc'] = PollWork[pollPc]
              /\ RequestNow' = RequestNow /\ ResponseNow' < ResponseNow
    PROVE  Work' < Work
<1> DEFINE a == MainLeftOf(mainPc)    b == PollWork[pollPc]
           c == RequestNow            d == ResponseNow
           a1 == MainLeftOf(mainPc')  b1 == PollWork[pollPc']
           c1 == RequestNow'          d1 == ResponseNow'
<1>1. /\ a \in Nat /\ b \in Nat /\ c \in Nat /\ d \in Nat
      /\ a1 \in Nat /\ b1 \in Nat /\ c1 \in Nat /\ d1 \in Nat
  BY NowIsNat, ThenIsNat
<1>2. Work = a + b + c + d /\ Work' = a1 + b1 + c1 + d1
  BY WorkIs
<1>3. \/ a1 < a /\ b1 = b /\ c1 = c /\ d1 = d
      \/ a1 + MessageWork < a /\ b1 = b /\ c1 = c + MessageWork /\ d1 = d
      \/ a1 + ReplyWork < a /\ b1 = b /\ c1 = c /\ d1 = d + ReplyWork
      \/ a1 = a /\ b1 < b /\ c1 = c /\ d1 = d
      \/ a1 = a /\ b1 + MessageWork < b /\ c1 = c + MessageWork /\ d1 = d
      \/ a1 = a /\ b1 = b /\ c1 < c /\ d1 = d
      \/ a1 = a /\ b1 = b /\ c1 + ReplyWork < c /\ d1 = d + ReplyWork
      \/ a1 = a /\ b1 = b /\ c1 = c /\ d1 < d
  OBVIOUS
<1> HIDE DEF a, b, c, d, a1, b1, c1, d1
<1>4. a1 + b1 + c1 + d1 < a + b + c + d
  BY <1>1, <1>3 DEF MessageWork, ReplyWork
<1>5. QED  BY <1>2, <1>4

\* What posting, taking and the handler's steps do to the sums.
LEMMA PostedWork ==
    ASSUME LoopTypes, NEW t \in Loops, NEW m \in Item,
           queue'[t] = Append(queue[t], m)
    PROVE  Len(queue'[t]) = Len(queue[t]) + 1 /\ Len(queue[t]) \in Nat
<1>1. queue[t] \in Seq(Item)
  BY LoopTypesMean
<1>2. QED  BY <1>1

LEMMA TakenWork ==
    ASSUME LoopTypes, NEW t \in Loops, queue[t] # <<>>,
           queue'[t] = Tail(queue[t])
    PROVE  Len(queue[t]) = Len(queue'[t]) + 1 /\ Len(queue'[t]) \in Nat
<1>1. queue[t] \in Seq(Item)
  BY LoopTypesMean
<1>2. QED  BY <1>1

LEMMA MessageAdds ==
    /\ \A l \in ML!LoopStates, step \in HandlerSteps, n \in Nat :
         RequestLeftOf(l, step, n + 1) = RequestLeftOf(l, step, n) + MessageWork
    /\ \A l \in ML!LoopStates, n \in Nat :
         ResponseLeftOf(l, n + 1) = ResponseLeftOf(l, n) + ReplyWork
<1>1. \A step \in HandlerSteps : HandlerWork[step] \in Nat
  BY DEF HandlerSteps, HandlerWork
<1>2. ASSUME NEW l \in ML!LoopStates, NEW step \in HandlerSteps, NEW n \in Nat
      PROVE  RequestLeftOf(l, step, n + 1) = RequestLeftOf(l, step, n) + MessageWork
  <2>1. MessageWork * (n + 1) = MessageWork * n + MessageWork /\ MessageWork * n \in Nat
    BY DEF MessageWork, ReplyWork
  <2>2. HandlerWork[step] + ReplyWork + 1 \in Nat /\ MessageWork \in Nat
    BY <1>1 DEF MessageWork, ReplyWork
  <2> HIDE DEF MessageWork, ReplyWork
  <2>3. CASE l = "busy"
    BY <2>1, <2>2, <2>3 DEF RequestLeftOf
  <2>4. CASE l = "top"
    BY <2>1, <2>2, <2>4 DEF RequestLeftOf
  <2>5. CASE l \notin {"busy", "top"}
    BY <2>1, <2>2, <2>5 DEF RequestLeftOf
  <2>6. QED  BY <2>3, <2>4, <2>5
<1>3. ASSUME NEW l \in ML!LoopStates, NEW n \in Nat
      PROVE  ResponseLeftOf(l, n + 1) = ResponseLeftOf(l, n) + ReplyWork
  BY DEF ResponseLeftOf, ReplyWork, ML!LoopStates
<1>4. QED  BY <1>2, <1>3

LEMMA PollSpends ==
    ASSUME PlainTypes, timeToQuit, goOffline
    PROVE  /\ \/ PollLoop \/ PollWaitReady \/ PollGate \/ PollSend \/ PollIdle
              \/ PollOldSessionKey \/ PollCommand \/ PollFails \/ PollBackoff \/ PollNotify
              \/ PollExpire
              => PollWork[pollPc'] < PollWork[pollPc]
           /\ PollDeliver \/ PollPostExpire
              => PollWork[pollPc'] + MessageWork < PollWork[pollPc]
<1> USE DEF PollWork, MessageWork, ReplyWork
<1>1. CASE PollLoop \/ PollWaitReady \/ PollGate \/ PollSend
  BY <1>1 DEF PollLoop, PollWaitReady, PollGate, PollSend, PollDeliver, PollPostExpire
<1>2. CASE PollIdle \/ PollOldSessionKey \/ PollCommand \/ PollFails
  BY <1>2 DEF PollIdle, PollOldSessionKey, PollCommand, PollFails, PollDeliver, PollPostExpire
<1>3. CASE PollBackoff \/ PollNotify
  BY <1>3 DEF PollBackoff, PollNotify, PollDeliver, PollPostExpire
<1>4. CASE PollExpire
  BY <1>4 DEF PollExpire, PollDeliver, PollPostExpire
<1>5. CASE PollDeliver \/ PollPostExpire
  BY <1>5 DEF PollDeliver, PollPostExpire, PollLoop, PollWaitReady, PollGate, PollSend,
              PollIdle, PollOldSessionKey, PollCommand, PollFails, PollBackoff, PollNotify,
              PollExpire
<1>6. QED  BY <1>1, <1>2, <1>3, <1>4, <1>5

LEMMA HandlerSpends ==
    ASSUME PlainTypes, HandlerRuns
    PROVE  HandlerWork[reqStep'] < HandlerWork[reqStep] /\ loop["request"] = "busy"
<1>1. CASE RunPlain \/ RunQbOffline \/ RunSync \/ RunRegister \/ RunBrowser \/ RunQuit
  <2>1. loop["request"] = "busy"
    BY <1>1 DEF Handling, RunPlain, RunQbOffline, RunSync, RunRegister, RunBrowser, RunQuit
  <2>2. \/ reqStep = "start" /\ reqStep' \in {"register", "unheard", "answer"}
        \/ reqStep = "register" /\ reqStep' = "answer"
    BY <1>1 DEF Handling, RunPlain, RunQbOffline, RunSync, RunRegister, RunBrowser, RunQuit
  <2>3. QED  BY <2>1, <2>2 DEF HandlerWork
<1>2. CASE RunQb
  <2>1. reqStep = "start" /\ loop["request"] = "busy"
    BY <1>2 DEF Handling, RunQb
  <2>2. reqStep' = "info" \/ reqStep' = "answer"
    BY <1>2, Zenon DEF RunQb
  <2>3. QED  BY <2>1, <2>2 DEF HandlerWork
<1>3. CASE RunInfo \/ RunRelink \/ RunLinkdead \/ RunPublish
  BY <1>3 DEF HandlerWork, Handling, RunInfo, RunRelink, RunLinkdead, RunPublish
<1>4. QED  BY <1>1, <1>2, <1>3 DEF HandlerRuns

LEMMA LongPollSpends ==
    ASSUME PInv, PInv', timeToQuit, LongPollThread
    PROVE  Work' < Work
<1>1. /\ LoopTypes /\ PlainTypes /\ PollFits /\ LoopTypes' /\ PlainTypes' /\ goOffline
  BY TypeMeans DEF PInv, IInv, Control, ClosingFits, TypeOK, LoopTypes, PlainTypes, Hands
<1>2. UNCHANGED <<mainPc, reqStep>>
  BY DEF LongPollThread, PollLoop, PollWaitReady, PollGate, PollSend, PollIdle,
         PollOldSessionKey, PollCommand, PollFails, PollBackoff, PollNotify, PollDeliver,
         PollExpire, PollPostExpire, mainVars
<1>3. CASE PollDeliver \/ PollPostExpire
  <2>1. PICK m \in Messages : /\ queue' = [queue EXCEPT !["request"] = Append(@, m)]
                              /\ UNCHANGED loop
    BY <1>1, <1>3, PostedItem
  <2>2. /\ queue'["request"] = Append(queue["request"], m)
        /\ queue'["response"] = queue["response"]
    BY <1>1, <2>1, Posted, ItemKeys DEF Loops
  <2>3. Len(queue'["request"]) = Len(queue["request"]) + 1 /\ Len(queue["request"]) \in Nat
    BY <1>1, <2>2, PostedWork, ItemKeys DEF Loops
  <2>4. ResponseNow' = ResponseNow
    BY <2>1, <2>2 DEF ResponseNow
  <2>5. RequestNow' = RequestNow + MessageWork
    <3>1. RequestNow' = RequestLeftOf(loop["request"], reqStep, Len(queue["request"]) + 1)
      BY <1>2, <2>1, <2>3 DEF RequestNow
    <3>2. loop["request"] \in ML!LoopStates /\ reqStep \in HandlerSteps
      BY <1>1, NowIsNat DEF PlainTypes
    <3>3. QED  BY <2>3, <3>1, <3>2, MessageAdds DEF RequestNow
  <2>6. QED  BY <1>1, <1>2, <1>3, <2>4, <2>5, PollSpends, Sums
<1>4. CASE ~(PollDeliver \/ PollPostExpire)
  <2>1. OffLoops
    BY <1>4 DEF LongPollThread, OffLoops
  <2>2. RequestNow' = RequestNow /\ ResponseNow' = ResponseNow
    BY <1>2, <2>1, OffLoopsSame DEF RequestNow, ResponseNow, loopVars
  <2>3. QED  BY <1>1, <1>2, <1>4, <2>2, PollSpends, Sums DEF LongPollThread
<1>5. QED  BY <1>3, <1>4

\* What a thread that takes a message, ends or finishes has left.
LEMMA LoopLeft ==
    /\ \A step \in HandlerSteps, n \in Nat, l \in {"top", "blocked"} :
         /\ RequestLeftOf("busy", "start", n) < RequestLeftOf(l, step, n + 1)
         /\ RequestLeftOf("exit", step, n) < RequestLeftOf(l, step, n + 1)
    /\ \A step \in HandlerSteps, n \in Nat :
         RequestLeftOf("blocked", step, n) < RequestLeftOf("top", step, n)
    /\ \A n \in Nat :
         /\ RequestLeftOf("top", "start", n) + ReplyWork < RequestLeftOf("busy", "answer", n)
         /\ RequestLeftOf("top", "start", n) < RequestLeftOf("busy", "start", n)
    /\ \A n \in Nat, l \in {"top", "blocked"} :
         /\ ResponseLeftOf("busy", n) < ResponseLeftOf(l, n + 1)
         /\ ResponseLeftOf("exit", n) < ResponseLeftOf(l, n + 1)
    /\ \A n \in Nat :
         /\ ResponseLeftOf("blocked", n) < ResponseLeftOf("top", n)
         /\ ResponseLeftOf("top", n) < ResponseLeftOf("busy", n)
<1>1. HandlerWork["start"] = 6 /\ HandlerWork["answer"] = 1
  BY DEF HandlerWork
<1>2. QED
  BY <1>1 DEF RequestLeftOf, ResponseLeftOf, MessageWork, ReplyWork

LEMMA HandlerLeft ==
    ASSUME NEW n \in Nat, NEW step \in HandlerSteps, NEW next \in HandlerSteps,
           HandlerWork[next] < HandlerWork[step]
    PROVE  RequestLeftOf("busy", next, n) < RequestLeftOf("busy", step, n)
<1>1. HandlerWork[step] \in Nat /\ HandlerWork[next] \in Nat
  BY DEF HandlerSteps, HandlerWork
<1>2. MessageWork * n \in Nat /\ ReplyWork \in Nat
  BY DEF MessageWork, ReplyWork
<1> HIDE DEF MessageWork, ReplyWork
<1>3. QED  BY <1>1, <1>2 DEF RequestLeftOf

\* The steps of the loops themselves, the same in both threads.
LEMMA LoopSteps ==
    ASSUME LoopTypes, NEW t \in Loops, NEW u \in Loops \ {t}
    PROVE  /\ ML!Idle(t) => /\ loop[t] = "top" /\ loop'[t] = "blocked" /\ queue'[t] = queue[t]
                            /\ loop'[u] = loop[u] /\ queue'[u] = queue[u]
           /\ ML!Take(t) \/ ML!TakeQuit(t) =>
                /\ loop[t] \in {"top", "blocked"} /\ hand[t] = <<>>
                /\ Len(queue[t]) = Len(queue'[t]) + 1 /\ Len(queue'[t]) \in Nat
                /\ loop'[u] = loop[u] /\ queue'[u] = queue[u]
           /\ ML!Take(t) => loop'[t] = "busy"
           /\ ML!TakeQuit(t) => loop'[t] = "exit"
           /\ ML!Finish(t) => /\ loop[t] = "busy" /\ loop'[t] = "top" /\ loop'[u] = loop[u]
<1>1. ASSUME ML!Idle(t)
      PROVE  /\ loop[t] = "top" /\ loop'[t] = "blocked" /\ queue'[t] = queue[t]
             /\ loop'[u] = loop[u] /\ queue'[u] = queue[u]
  BY <1>1, LoopTypesMean DEF ML!Idle
<1>2. ASSUME ML!Take(t)
      PROVE  /\ loop[t] \in {"top", "blocked"} /\ hand[t] = <<>> /\ loop'[t] = "busy"
             /\ queue[t] # <<>> /\ queue'[t] = Tail(queue[t])
             /\ loop'[u] = loop[u] /\ queue'[u] = queue[u]
  <2>1. loop[t] \in {"top", "blocked"}
    BY <1>2 DEF ML!Take
  <2>2. QED  BY <1>2, <2>1, TakeTypes
<1>3. ASSUME ML!TakeQuit(t)
      PROVE  /\ loop[t] \in {"top", "blocked"} /\ hand[t] = <<>> /\ loop'[t] = "exit"
             /\ queue[t] # <<>> /\ queue'[t] = Tail(queue[t])
             /\ loop'[u] = loop[u] /\ queue'[u] = queue[u]
  <2>1. loop[t] \in {"top", "blocked"}
    BY <1>3 DEF ML!TakeQuit
  <2>2. QED  BY <1>3, <2>1, TakeQuitTypes
<1>4. ASSUME ML!Finish(t)
      PROVE  loop[t] = "busy" /\ loop'[t] = "top" /\ loop'[u] = loop[u]
  BY <1>4, Finished
<1>5. QED  BY <1>1, <1>2, <1>3, <1>4, TakenWork

LEMMA RequestSpends ==
    ASSUME PInv, PInv', RequestThread
    PROVE  Work' < Work
<1> DEFINE n == Len(queue["request"])
<1>1. /\ LoopTypes /\ PlainTypes /\ PollFits /\ LoopTypes' /\ PlainTypes' /\ HandlerFits
  BY TypeMeans DEF PInv, IInv, Control, TypeOK, LoopTypes, PlainTypes, Hands
<1>2. UNCHANGED <<mainPc, pollPc>>
  BY DEF RequestThread, RequestIdle, RequestTake, RequestQuit, RunPlain,
         RunQbOffline, RunQb, RunInfo, RunRelink, RunLinkdead, RunPublish, RunSync,
         RunRegister, RunBrowser, RunQuit, RequestAnswer, RequestExpire, mainVars, pollVars
<1>3. "request" \in Loops /\ "response" \in Loops \ {"request"}
  BY DEF Loops
<1>4. n \in Nat /\ reqStep \in HandlerSteps /\ reqStep' \in HandlerSteps
  BY <1>1, NowIsNat DEF PlainTypes
<1>5. CASE HandlerRuns
  <2>1. UNCHANGED loopVars
    BY <1>5, OffLoopsSame DEF HandlerRuns, OffLoops
  <2>2. RequestNow' < RequestNow /\ ResponseNow' = ResponseNow
    BY <1>1, <1>4, <1>5, <2>1, HandlerSpends, HandlerLeft
       DEF loopVars, RequestNow, ResponseNow
  <2>3. QED  BY <1>1, <1>2, <2>2, Sums
<1>6. CASE RequestIdle
  <2>1. /\ loop["request"] = "top" /\ loop'["request"] = "blocked"
        /\ queue'["request"] = queue["request"] /\ reqStep' = reqStep
        /\ loop'["response"] = loop["response"] /\ queue'["response"] = queue["response"]
    BY <1>1, <1>3, <1>6, LoopSteps DEF RequestIdle
  <2>2. RequestNow' < RequestNow /\ ResponseNow' = ResponseNow
    BY <1>4, <2>1, LoopLeft DEF RequestNow, ResponseNow
  <2>3. QED  BY <1>1, <1>2, <2>2, Sums
<1>7. CASE RequestTake \/ RequestQuit
  <2>1. /\ loop["request"] \in {"top", "blocked"} /\ loop'["request"] \in {"busy", "exit"}
        /\ n = Len(queue'["request"]) + 1 /\ Len(queue'["request"]) \in Nat
        /\ loop'["response"] = loop["response"] /\ queue'["response"] = queue["response"]
        /\ hand["request"] = <<>> /\ reqStep' = reqStep
    BY <1>1, <1>3, <1>7, LoopSteps DEF RequestTake, RequestQuit
  <2>2. reqStep = "start"
    BY <1>1, <2>1 DEF HandlerFits, FitsHand
  <2>3. RequestNow' < RequestNow /\ ResponseNow' = ResponseNow
    BY <1>4, <2>1, <2>2, LoopLeft DEF RequestNow, ResponseNow
  <2>4. QED  BY <1>1, <1>2, <2>3, Sums
<1>8. CASE RequestExpire
  <2>1. /\ loop["request"] = "busy" /\ loop'["request"] = "top"
        /\ queue' = queue /\ loop'["response"] = loop["response"]
        /\ reqStep = "start" /\ reqStep' = reqStep
    BY <1>1, <1>3, <1>8, LoopSteps DEF RequestExpire, Handling
  <2>2. RequestNow' < RequestNow /\ ResponseNow' = ResponseNow
    BY <1>4, <2>1, LoopLeft DEF RequestNow, ResponseNow
  <2>3. QED  BY <1>1, <1>2, <2>2, Sums
<1>9. CASE RequestAnswer
  <2> DEFINE m == hand["request"][1]
  <2>1. /\ loop["request"] = "busy" /\ loop'["request"] = "top"
        /\ loop'["response"] = loop["response"]
        /\ reqStep = "answer" /\ reqStep' = "start"
    BY <1>1, <1>3, <1>9, LoopSteps DEF RequestAnswer, Handling
  <2>2. CASE m.key = 0
    <3>1. UNCHANGED queue
      BY <1>1, <1>9, <2>2, AnswerPosts
    <3>2. RequestNow' + ReplyWork < RequestNow /\ ResponseNow' = ResponseNow
      BY <1>4, <2>1, <3>1, LoopLeft DEF RequestNow, ResponseNow
    <3>3. RequestNow' < RequestNow
      BY <1>1, <3>2, NowIsNat, ThenIsNat DEF ReplyWork
    <3>4. QED  BY <1>1, <1>2, <3>2, <3>3, Sums
  <2>3. CASE m.key # 0
    <3>1. /\ queue'["response"] = Append(queue["response"], m) /\ m \in Item
          /\ queue'["request"] = queue["request"]
      BY <1>1, <1>3, <1>9, <2>3, AnswerPosts, Posted, ItemKeys DEF Loops
    <3>2. /\ Len(queue'["response"]) = Len(queue["response"]) + 1
          /\ Len(queue["response"]) \in Nat
      BY <1>1, <1>3, <3>1, PostedWork
    <3>3. ResponseNow' = ResponseNow + ReplyWork
      BY <1>1, <2>1, <3>2, NowIsNat, MessageAdds DEF ResponseNow
    <3>4. RequestNow' + ReplyWork < RequestNow
      BY <1>4, <2>1, <3>1, LoopLeft DEF RequestNow
    <3>5. QED  BY <1>1, <1>2, <3>3, <3>4, Sums
  <2>4. QED  BY <2>2, <2>3
<1>10. QED  BY <1>5, <1>6, <1>7, <1>8, <1>9 DEF RequestThread, HandlerRuns

LEMMA ResponseSpends ==
    ASSUME PInv, PInv', ResponseThread
    PROVE  Work' < Work
<1> DEFINE n == Len(queue["response"])
<1>1. /\ LoopTypes /\ PlainTypes /\ LoopTypes' /\ PlainTypes'
  BY TypeMeans DEF PInv, IInv, TypeOK, LoopTypes, PlainTypes, Hands
<1>2. UNCHANGED <<mainPc, pollPc, reqStep>>
  BY DEF ResponseThread, ResponseIdle, ResponseTake, SendBack, ResponseQuit, mainVars, pollVars
<1>3. "response" \in Loops /\ "request" \in Loops \ {"response"} /\ n \in Nat
  BY <1>1, NowIsNat DEF Loops
<1>4. CASE ResponseIdle
  <2>1. /\ loop["response"] = "top" /\ loop'["response"] = "blocked"
        /\ queue'["response"] = queue["response"]
        /\ loop'["request"] = loop["request"] /\ queue'["request"] = queue["request"]
    BY <1>1, <1>3, <1>4, LoopSteps DEF ResponseIdle
  <2>2. ResponseNow' < ResponseNow /\ RequestNow' = RequestNow
    BY <1>2, <1>3, <2>1, LoopLeft DEF RequestNow, ResponseNow
  <2>3. QED  BY <1>1, <1>2, <2>2, Sums
<1>5. CASE ResponseTake \/ ResponseQuit
  <2>1. /\ loop["response"] \in {"top", "blocked"} /\ loop'["response"] \in {"busy", "exit"}
        /\ n = Len(queue'["response"]) + 1 /\ Len(queue'["response"]) \in Nat
        /\ loop'["request"] = loop["request"] /\ queue'["request"] = queue["request"]
    BY <1>1, <1>3, <1>5, LoopSteps DEF ResponseTake, ResponseQuit
  <2>2. ResponseNow' < ResponseNow /\ RequestNow' = RequestNow
    BY <1>2, <2>1, LoopLeft DEF RequestNow, ResponseNow
  <2>3. QED  BY <1>1, <1>2, <2>2, Sums
<1>6. CASE SendBack
  <2>1. /\ loop["response"] = "busy" /\ loop'["response"] = "top"
        /\ queue' = queue /\ loop'["request"] = loop["request"]
    BY <1>1, <1>3, <1>6, LoopSteps DEF SendBack
  <2>2. ResponseNow' < ResponseNow /\ RequestNow' = RequestNow
    BY <1>2, <1>3, <2>1, LoopLeft DEF RequestNow, ResponseNow
  <2>3. QED  BY <1>1, <1>2, <2>2, Sums
<1>7. QED  BY <1>4, <1>5, <1>6 DEF ResponseThread

LEMMA StopSpends ==
    ASSUME PInv, PInv', timeToQuit, MainThread
    PROVE  Work' < Work
<1>1. /\ LoopTypes /\ PlainTypes /\ PollFits /\ LoopTypes' /\ PlainTypes'
      /\ mainPc \in {"tell", "unblock", "joinPoll"} \union AfterPoll
  BY TypeMeans DEF PInv, IInv, Control, ClosingFits, TypeOK, LoopTypes, PlainTypes, Hands
<1>2. "request" \in Loops /\ "response" \in Loops \ {"request"}
  BY DEF Loops
<1>3. CASE RefreshArrives \/ RefreshPosts \/ Close \/ GoOfflineBegin \/ GoOfflineMark
  BY <1>1, <1>3 DEF AfterPoll, RefreshArrives, RefreshPosts, Close, GoOfflineBegin,
                    GoOfflineMark
<1>4. CASE GoOfflineTell \/ GoOfflineEnd \/ JoinLongPoll \/ GoOfflineAgain
           \/ JoinRequestThread \/ JoinResponseThread
  <2>1. UNCHANGED <<loopVars, reqStep, pollVars>>
    BY <1>4 DEF GoOfflineTell, GoOfflineEnd, JoinLongPoll, GoOfflineAgain,
                JoinRequestThread, JoinResponseThread
  <2>2. \/ mainPc = "tell" /\ mainPc' = "unblock"
        \/ mainPc = "unblock" /\ mainPc' = "joinPoll"
        \/ mainPc = "joinPoll" /\ mainPc' = "offlineAgain"
        \/ mainPc = "offlineAgain" /\ mainPc' = "quitRequest"
        \/ mainPc = "joinRequest" /\ mainPc' = "quitResponse"
        \/ mainPc = "joinResponse" /\ mainPc' = "done"
    BY <1>4 DEF GoOfflineTell, GoOfflineEnd, JoinLongPoll, GoOfflineAgain,
                JoinRequestThread, JoinResponseThread
  <2>3. MainLeftOf(mainPc') < MainLeftOf(mainPc)
    BY <2>2 DEF MainLeftOf, MessageWork, ReplyWork
  <2>4. RequestNow' = RequestNow /\ ResponseNow' = ResponseNow /\ pollPc' = pollPc
    BY <2>1 DEF RequestNow, ResponseNow, loopVars, pollVars
  <2>5. QED  BY <1>1, <2>3, <2>4, Sums
<1>5. CASE QuitRequestThread
  <2>1. /\ mainPc = "quitRequest" /\ mainPc' = "joinRequest"
        /\ UNCHANGED <<loop, reqStep, pollPc>>
    BY <1>5, PostedItem, <1>1 DEF QuitRequestThread, pollVars
  <2>2. /\ queue'["request"] = Append(queue["request"], Quit)
        /\ queue'["response"] = queue["response"]
    BY <1>1, <1>2, <1>5, PostedItem, Posted, ItemKeys
  <2>3. Len(queue'["request"]) = Len(queue["request"]) + 1 /\ Len(queue["request"]) \in Nat
    BY <1>1, <1>2, <2>2, PostedWork, ItemKeys
  <2>4. MainLeftOf(mainPc') + MessageWork < MainLeftOf(mainPc)
    BY <2>1 DEF MainLeftOf, MessageWork, ReplyWork
  <2>5. RequestNow' = RequestNow + MessageWork
    <3>1. RequestNow' = RequestLeftOf(loop["request"], reqStep, Len(queue["request"]) + 1)
      BY <2>1, <2>3 DEF RequestNow
    <3>2. loop["request"] \in ML!LoopStates /\ reqStep \in HandlerSteps
      BY <1>1, NowIsNat DEF PlainTypes
    <3>3. QED  BY <2>3, <3>1, <3>2, MessageAdds DEF RequestNow
  <2>6. ResponseNow' = ResponseNow
    BY <2>1, <2>2 DEF ResponseNow
  <2>7. QED  BY <1>1, <2>1, <2>4, <2>5, <2>6, Sums
<1>6. CASE QuitResponseThread
  <2>1. /\ mainPc = "quitResponse" /\ mainPc' = "joinResponse"
        /\ UNCHANGED <<loop, reqStep, pollPc>>
    BY <1>6, PostedItem, <1>1 DEF QuitResponseThread, pollVars
  <2>2. /\ queue'["response"] = Append(queue["response"], Quit)
        /\ queue'["request"] = queue["request"]
    BY <1>1, <1>6, PostedItem, Posted, ItemKeys DEF Loops
  <2>3. Len(queue'["response"]) = Len(queue["response"]) + 1 /\ Len(queue["response"]) \in Nat
    BY <1>1, <1>2, <2>2, PostedWork, ItemKeys
  <2>4. MainLeftOf(mainPc') + ReplyWork < MainLeftOf(mainPc)
    BY <2>1 DEF MainLeftOf, MessageWork, ReplyWork
  <2>5. ResponseNow' = ResponseNow + ReplyWork
    BY <1>1, <2>1, <2>3, NowIsNat, MessageAdds DEF ResponseNow
  <2>6. RequestNow' = RequestNow
    BY <2>1, <2>2 DEF RequestNow
  <2>7. QED  BY <1>1, <2>1, <2>4, <2>5, <2>6, Sums
<1>7. QED  BY <1>3, <1>4, <1>5, <1>6 DEF MainThread, StopConcert

(* Once the long-poll thread is told to end, every step of any thread      *)
(* leaves the core with less work, whatever commands still come in.        *)
THEOREM EachStepNearsTheEnd == Spec => ClosingUsesUpWork
<1>1. PInv /\ [Next]_vars /\ PInv' => [timeToQuit => Work' < Work]_vars
  <2> SUFFICES ASSUME PInv, Next, PInv', timeToQuit PROVE Work' < Work
    OBVIOUS
  <2>1. QED
    BY LongPollSpends, RequestSpends, ResponseSpends, StopSpends DEF Next, MainThread
<1>2. QED  BY <1>1, ProgressInductive, PTL DEF Spec, ClosingUsesUpWork

(* The work left is a natural number: a core that closes takes at most so  *)
(* many steps more.                                                        *)
THEOREM WorkIsFinite == Spec => [](Work \in Nat)
<1>1. PInv => Work \in Nat
  <2> SUFFICES ASSUME PInv PROVE Work \in Nat
    OBVIOUS
  <2>1. LoopTypes /\ PlainTypes
    BY TypeMeans DEF PInv, IInv
  <2>2. QED  BY <2>1, NowIsNat, WorkIs
<1>2. QED  BY <1>1, ProgressInductive, PTL

=============================================================================
