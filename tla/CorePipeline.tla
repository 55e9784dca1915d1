---------------------------- MODULE CorePipeline ----------------------------
(***************************************************************************)
(* The threads of the core process, from the long poll that brings a       *)
(* command to the reply that is posted, and StopConcert, which ends them.  *)
(*                                                                         *)
(*   long-poll thread  -> request thread -> response thread                *)
(*   main thread: window messages, "refresh", StopConcert                  *)
(*                                                                         *)
(* Commands are told apart by their effect on threads, events and the      *)
(* QuickBooks session; what they return is left out.  A command's key is   *)
(* its number in the order of arrival; 0 is the key the core gives to the  *)
(* commands it sends to itself, which are not answered.                    *)
(***************************************************************************)
EXTENDS Naturals, Sequences, SequencesExt

CONSTANTS
    Kinds,          \* the kinds of command the server sends, of AllKinds
    MaxCommands,    \* bound on the keyed commands
    MaxRefresh,     \* bound on the "refresh" messages of the shell
    MaxQueue        \* bound on the request queue for the long poll's own messages

AllKinds == {"plain", "qb", "startsession", "endsession", "versions", "browser",
             "quit", "sync"}

ASSUME PipelineAssumption ==
    /\ Kinds \subseteq AllKinds
    /\ MaxCommands \in Nat
    /\ MaxRefresh \in Nat
    /\ MaxQueue \in Nat \ {0}

VARIABLES
    queue, signal, loop, hand,  \* the two message loops
    reqStep,        \* request thread: how far the handler has come
    pollPc,         \* long-poll thread
    pollMsg,        \* ... the message it has to deliver
    mainPc,         \* main thread
    closePosted,    \* WM_CLOSE waits in the main thread's queue
    refreshes,      \* "refresh" messages so far
    goOffline,      \* LongPoll::goOfflineSignal
    timeToQuit,     \* LongPoll::timeToQuit
    ready,          \* QBInfo::readyForLongPollSignal
    session,        \* QBInfo::persistentQBXMLWrapper # NULL
    processedQB,    \* QBInfo::processedQBRequest
    idlePolls,      \* LongPoll::pollsWithoutQBRequest
    accepted,       \* history: number of keyed commands posted
    answered,       \* history: keys the response thread tried to send, in order
    lastHeard       \* history: the last call the server got from the core's state

Keys == 0 .. MaxCommands
Messages == [key : Keys, kind : AllKinds \union {"querylost"}]
              \union {[key |-> 0, kind |-> "expire"]}
Quit == [key |-> 0, kind |-> "WM_QUIT"]

ML == INSTANCE MessageLoop WITH Loops <- {"request", "response"}

loopVars == <<queue, signal, loop, hand>>
pollVars == <<pollPc, pollMsg, idlePolls>>
mainVars == <<mainPc, closePosted, refreshes>>
offlineVars == <<goOffline, timeToQuit, ready>>
sessionVars == <<session, processedQB>>
history == <<accepted, answered, lastHeard>>
vars == <<loopVars, reqStep, pollVars, mainVars, offlineVars, sessionVars, history>>

PollStates == {"loop", "wait", "gate", "send", "inflight", "notify", "deliver",
               "backoff", "expire", "postExpire", "exit"}
MainStates == {"pump", "refresh", "unheard", "offline", "mark", "tell", "unblock", "joinPoll",
               "offlineAgain", "quitRequest", "joinRequest", "quitResponse",
               "joinResponse", "done"}
HandlerSteps == {"start", "info", "relink", "linkdead", "publish",
                 "register", "unheard", "answer"}

TypeOK ==
    /\ ML!LoopTypeOK
    /\ reqStep \in HandlerSteps
    /\ pollPc \in PollStates
    /\ pollMsg \in {<<>>} \union {<<m>> : m \in Messages}
    /\ mainPc \in MainStates
    /\ idlePolls \in 0 .. 2
    /\ \A v \in {closePosted, goOffline, timeToQuit, ready, session, processedQB} : v \in BOOLEAN
    /\ refreshes \in 0 .. MaxRefresh
    /\ accepted \in Keys
    /\ answered \in Seq(Keys)
    /\ lastHeard \in {"nothing", "wait", "linkdead", "offline", "offlineAgain"}

Init ==
    /\ ML!LoopInit
    /\ reqStep = "start"
    /\ pollPc = "loop"
    /\ pollMsg = <<>>
    /\ mainPc = "pump"
    /\ closePosted = FALSE
    /\ refreshes = 0
    /\ goOffline = FALSE
    /\ timeToQuit = FALSE
    /\ ready \in BOOLEAN    \* GetInfoFromQB ran before StartConcert
    /\ session = FALSE
    /\ processedQB = FALSE
    /\ idlePolls = 0
    /\ accepted = 0
    /\ answered = <<>>
    /\ lastHeard = "nothing"

-----------------------------------------------------------------------------
\* Fault: the loop does not look at timeToQuit.
PollLoopForever ==
    /\ pollPc = "loop"
    /\ pollPc' = "wait"
    /\ UNCHANGED <<loopVars, reqStep, pollMsg, idlePolls, mainVars, offlineVars,
                   sessionVars, history>>

(* Long-poll thread: while (timeToQuit != 1) DoLongPoll(); *)
PollLoop ==
    /\ pollPc = "loop"
    /\ pollPc' = IF timeToQuit THEN "exit" ELSE "wait"
    /\ UNCHANGED <<loopVars, reqStep, pollMsg, idlePolls, mainVars, offlineVars,
                   sessionVars, history>>

PollWaitReady ==
    /\ pollPc = "wait"
    /\ ready
    /\ pollPc' = "gate"
    /\ UNCHANGED <<loopVars, reqStep, pollMsg, idlePolls, mainVars, offlineVars,
                   sessionVars, history>>

(* The test of the state comes to nothing: GoOffline sets it after the      *)
(* event.                                                                  *)
PollGate ==
    /\ pollPc = "gate"
    /\ pollPc' = IF goOffline THEN "loop" ELSE "send"
    /\ UNCHANGED <<loopVars, reqStep, pollMsg, idlePolls, mainVars, offlineVars,
                   sessionVars, history>>

PollSend ==
    /\ pollPc = "send"
    /\ pollPc' = "inflight"
    /\ lastHeard' = "wait"
    /\ UNCHANGED <<loopVars, reqStep, pollMsg, idlePolls, mainVars, offlineVars,
                   sessionVars, accepted, answered>>

(* The poll returns.  TIMEOUT and LINKDEAD also make the core ask itself   *)
(* for lost events unless it knows of some; OLD_SESSION_KEY neither tells  *)
(* the main window nor counts as an idle poll.                             *)
PollIdle ==
    /\ pollPc = "inflight"
    /\ processedQB' = FALSE
    /\ pollPc' = "notify"
    /\ \/ pollMsg' = <<>>
       \/ /\ Len(queue["request"]) < MaxQueue
          /\ pollMsg' = <<[key |-> 0, kind |-> "querylost"]>>
    /\ UNCHANGED <<loopVars, reqStep, idlePolls, mainVars, offlineVars, session, history>>

PollOldSessionKey ==
    /\ pollPc = "inflight"
    /\ pollPc' = "expire"
    /\ UNCHANGED <<loopVars, reqStep, pollMsg, idlePolls, mainVars, offlineVars,
                   sessionVars, history>>

PollCommand ==
    /\ pollPc = "inflight"
    /\ accepted < MaxCommands
    /\ pollPc' = "notify"
    /\ \E k \in Kinds : pollMsg' = <<[key |-> accepted + 1, kind |-> k]>>
    /\ UNCHANGED <<loopVars, reqStep, idlePolls, mainVars, offlineVars, sessionVars, history>>

(* No answer, or one the core cannot read. *)
PollFails ==
    /\ pollPc = "inflight"
    /\ pollPc' = "backoff"
    /\ UNCHANGED <<loopVars, reqStep, pollMsg, idlePolls, mainVars, offlineVars,
                   sessionVars, history>>

(* The wait for goOffline, tryAgain or 15 seconds, after the main window    *)
(* has been told.                                                           *)
MainAnswersSendMessage == mainPc # "refresh"

PollBackoff ==
    /\ pollPc = "backoff"
    /\ MainAnswersSendMessage
    /\ pollPc' = "expire"
    /\ UNCHANGED <<loopVars, reqStep, pollMsg, idlePolls, mainVars, offlineVars,
                   sessionVars, history>>

(* SendMessage(cMainDlg, QUICKLET_CONNECT_UPD) returns when the main thread *)
(* pumps, or at once when the window is gone.                               *)
PollNotify ==
    /\ pollPc = "notify"
    /\ MainAnswersSendMessage
    /\ pollPc' = IF pollMsg = <<>> THEN "expire" ELSE "deliver"
    /\ UNCHANGED <<loopVars, reqStep, pollMsg, idlePolls, mainVars, offlineVars,
                   sessionVars, history>>

(* ReceivedMessage *)
PollDeliver ==
    /\ pollPc = "deliver"
    /\ ML!WaitAndPost("request", pollMsg[1])
    /\ pollPc' = "expire"
    /\ pollMsg' = <<>>
    /\ accepted' = accepted + (IF pollMsg[1].key = 0 THEN 0 ELSE 1)
    /\ UNCHANGED <<signal, loop, hand, reqStep, idlePolls, mainVars, offlineVars, sessionVars,
                   answered, lastHeard>>

(* Fault: the third idle poll does not yet count as the third. *)
PollExpireLate ==
    /\ pollPc = "expire"
    /\ IF ~session
       THEN pollPc' = "loop" /\ UNCHANGED idlePolls
       ELSE IF processedQB
       THEN pollPc' = "loop" /\ idlePolls' = 0
       ELSE IF idlePolls = 3
       THEN pollPc' = "postExpire" /\ UNCHANGED idlePolls
       ELSE pollPc' = "loop" /\ idlePolls' = idlePolls + 1
    /\ UNCHANGED <<loopVars, reqStep, pollMsg, mainVars, offlineVars, sessionVars, history>>


(* ClearExpiredQBSession counts the polls without a QuickBooks request. *)
PollExpire ==
    /\ pollPc = "expire"
    /\ IF ~session
       THEN pollPc' = "loop" /\ UNCHANGED idlePolls
       ELSE IF processedQB
       THEN pollPc' = "loop" /\ idlePolls' = 0
       ELSE IF idlePolls = 2
       THEN pollPc' = "postExpire" /\ UNCHANGED idlePolls
       ELSE pollPc' = "loop" /\ idlePolls' = idlePolls + 1
    /\ UNCHANGED <<loopVars, reqStep, pollMsg, mainVars, offlineVars, sessionVars, history>>

PollPostExpire ==
    /\ pollPc = "postExpire"
    /\ Len(queue["request"]) < MaxQueue
    /\ ML!WaitAndPost("request", [key |-> 0, kind |-> "expire"])
    /\ idlePolls' = 0
    /\ pollPc' = "loop"
    /\ UNCHANGED <<signal, loop, hand, reqStep, pollMsg, mainVars, offlineVars, sessionVars,
                   history>>

LongPollThread ==
    \/ PollLoop \/ PollWaitReady \/ PollGate \/ PollSend
    \/ PollIdle \/ PollOldSessionKey \/ PollCommand \/ PollFails
    \/ PollBackoff \/ PollNotify \/ PollDeliver \/ PollExpire \/ PollPostExpire

-----------------------------------------------------------------------------
(* Request thread.  `Handling(k)` holds while it handles a message of kind *)
(* k; a handler that does nothing here but compute a reply goes from       *)
(* "start" to "answer" at once.                                            *)
Handling(kinds, step) ==
    /\ loop["request"] = "busy"
    /\ hand["request"][1].kind \in kinds
    /\ reqStep = step

RequestIdle ==
    /\ ML!Idle("request")
    /\ UNCHANGED <<reqStep, pollVars, mainVars, offlineVars, sessionVars, history>>

RequestTake ==
    /\ ML!Take("request")
    /\ UNCHANGED <<reqStep, pollVars, mainVars, offlineVars, sessionVars, history>>

RequestQuit ==
    /\ ML!TakeQuit("request")
    /\ UNCHANGED <<reqStep, pollVars, mainVars, offlineVars, sessionVars, history>>

RunPlain ==
    /\ Handling({"plain", "querylost"}, "start")
    /\ reqStep' = "answer"
    /\ UNCHANGED <<loopVars, pollVars, mainVars, offlineVars, sessionVars, history>>

(* cmd_qb answers SHUTDOWN once the core goes offline. *)
RunQbOffline ==
    /\ Handling({"qb", "startsession", "endsession", "versions"}, "start")
    /\ goOffline
    /\ reqStep' = "answer"
    /\ UNCHANGED <<loopVars, pollVars, mainVars, offlineVars, sessionVars, history>>

RunQb ==
    /\ Handling({"qb", "startsession", "endsession", "versions"}, "start")
    /\ ~goOffline
    /\ processedQB' = TRUE
    /\ LET kind == hand["request"][1].kind IN
         /\ session' = CASE kind = "startsession" -> TRUE
                          [] kind = "endsession" -> FALSE
                          [] OTHER -> session
         /\ reqStep' = IF kind = "versions" THEN "info" ELSE "answer"
    /\ UNCHANGED <<loopVars, pollVars, mainVars, offlineVars, history>>

(* GetInfoFromQB: it gives up at one of its many checks of goOffline, or    *)
(* passes the last of them; then, if the company has changed, it takes the  *)
(* long poll off and Reset puts it on again; then it sets the event for a   *)
(* company that has an id and resets it for one that has not.               *)
RunInfo ==
    /\ Handling({"versions"}, "info")
    /\ \/ goOffline /\ reqStep' = "answer"
       \/ ~goOffline /\ reqStep' \in {"relink", "publish"}
    /\ UNCHANGED <<loopVars, pollVars, mainVars, offlineVars, sessionVars, history>>

RunRelink ==
    /\ Handling({"versions"}, "relink")
    /\ ready' = FALSE
    /\ reqStep' = "linkdead"
    /\ UNCHANGED <<loopVars, pollVars, mainVars, goOffline, timeToQuit, sessionVars, history>>

RunLinkdead ==
    /\ Handling({"versions"}, "linkdead")
    /\ ready' = TRUE
    /\ lastHeard' = "linkdead"
    /\ reqStep' = "publish"
    /\ UNCHANGED <<loopVars, pollVars, mainVars, goOffline, timeToQuit, sessionVars, accepted,
                   answered>>

RunPublish ==
    /\ Handling({"versions"}, "publish")
    /\ ready' \in BOOLEAN
    /\ reqStep' = "answer"
    /\ UNCHANGED <<loopVars, pollVars, mainVars, goOffline, timeToQuit, sessionVars, history>>

(* start_test_sync: RegisterConnector takes the long poll off and puts it   *)
(* on again only if the web server accepts the company.                     *)
RunSync ==
    /\ Handling({"sync"}, "start")
    /\ ready' = FALSE
    /\ reqStep' = "register"
    /\ UNCHANGED <<loopVars, pollVars, mainVars, goOffline, timeToQuit, sessionVars, history>>

RunRegister ==
    /\ Handling({"sync"}, "register")
    /\ ready' \in {ready, TRUE}
    /\ reqStep' = "answer"
    /\ UNCHANGED <<loopVars, pollVars, mainVars, goOffline, timeToQuit, sessionVars, history>>

(* SendMessage to the main window, as in PollNotify. *)
RunBrowser ==
    /\ Handling({"browser"}, "start")
    /\ MainAnswersSendMessage
    /\ reqStep' = "answer"
    /\ UNCHANGED <<loopVars, pollVars, mainVars, offlineVars, sessionVars, history>>

(* quit and update: the shell is told, then WM_CLOSE is posted to the main *)
(* window.  But a shell that waits for the end of this core answers no     *)
(* SendMessage, and the request thread does not get any further.           *)
RunQuit ==
    /\ Handling({"quit"}, "start")
    /\ \/ reqStep' = "answer" /\ closePosted' = TRUE
       \/ reqStep' = "unheard" /\ UNCHANGED closePosted
    /\ UNCHANGED <<loopVars, pollVars, mainPc, refreshes, offlineVars, sessionVars, history>>

(* Fault: the reply is dropped once the core goes offline. *)
RequestAnswerOnline ==
    /\ Handling(AllKinds \union {"querylost"}, "answer")
    /\ signal["response"]
    /\ ML!Finish("request")
    /\ LET m == hand["request"][1] IN
         IF m.key = 0 \/ goOffline
         THEN UNCHANGED queue
         ELSE ML!WaitAndPost("response", m)
    /\ reqStep' = "start"
    /\ UNCHANGED <<pollVars, mainVars, offlineVars, sessionVars, history>>

(* Fault: the handler waits for its own thread's event. *)
RequestAnswerWaitsForItself ==
    /\ Handling(AllKinds \union {"querylost"}, "answer")
    /\ signal["request"]
    /\ ML!Finish("request")
    /\ LET m == hand["request"][1] IN
         IF m.key = 0
         THEN UNCHANGED queue
         ELSE ML!WaitAndPost("response", m)
    /\ reqStep' = "start"
    /\ UNCHANGED <<pollVars, mainVars, offlineVars, sessionVars, history>>

(* The envelope goes to the response thread unless the key is 0. *)
RequestAnswer ==
    /\ Handling(AllKinds \union {"querylost"}, "answer")
    /\ signal["response"]
    /\ ML!Finish("request")
    /\ LET m == hand["request"][1] IN
         IF m.key = 0
         THEN UNCHANGED queue
         ELSE ML!WaitAndPost("response", m)
    /\ reqStep' = "start"
    /\ UNCHANGED <<pollVars, mainVars, offlineVars, sessionVars, history>>

(* LEVION_END_SESSION *)
RequestExpire ==
    /\ Handling({"expire"}, "start")
    /\ session' = FALSE
    /\ ML!Finish("request")
    /\ UNCHANGED <<queue, reqStep, pollVars, mainVars, offlineVars, processedQB, history>>

RequestThread ==
    \/ RequestIdle \/ RequestTake \/ RequestQuit
    \/ RunPlain \/ RunQbOffline \/ RunQb
    \/ RunInfo \/ RunRelink \/ RunLinkdead \/ RunPublish
    \/ RunSync \/ RunRegister \/ RunBrowser \/ RunQuit
    \/ RequestAnswer \/ RequestExpire

-----------------------------------------------------------------------------
(* Response thread: one POST per reply, whatever becomes of it. *)
ResponseIdle ==
    /\ ML!Idle("response")
    /\ UNCHANGED <<reqStep, pollVars, mainVars, offlineVars, sessionVars, history>>

ResponseTake ==
    /\ ML!Take("response")
    /\ UNCHANGED <<reqStep, pollVars, mainVars, offlineVars, sessionVars, history>>

SendBack ==
    /\ ML!Finish("response")
    /\ answered' = Append(answered, hand["response"][1].key)
    /\ UNCHANGED <<queue, reqStep, pollVars, mainVars, offlineVars, sessionVars, accepted,
                   lastHeard>>

ResponseQuit ==
    /\ ML!TakeQuit("response")
    /\ UNCHANGED <<reqStep, pollVars, mainVars, offlineVars, sessionVars, history>>

ResponseThread == ResponseIdle \/ ResponseTake \/ SendBack \/ ResponseQuit

-----------------------------------------------------------------------------
(* Main thread.  The shell sends "refresh" when a company file is opened;  *)
(* the main thread posts a request to itself and does not pump meanwhile.  *)
RefreshArrives ==
    /\ mainPc = "pump"
    /\ refreshes < MaxRefresh
    /\ refreshes' = refreshes + 1
    /\ mainPc' = "refresh"
    /\ UNCHANGED <<loopVars, reqStep, pollVars, closePosted, offlineVars, sessionVars, history>>

RefreshPosts ==
    /\ mainPc = "refresh"
    /\ ML!WaitAndPost("request", [key |-> 0, kind |-> "versions"])
    /\ mainPc' = "pump"
    /\ UNCHANGED <<signal, loop, hand, reqStep, pollVars, closePosted, refreshes, offlineVars,
                   sessionVars, history>>

(* OnDestroy tells the shell, unless it was the shell that closed the      *)
(* core; a shell that waits for the end of this core does not answer.      *)
AfterFarewell == {"offline", "unheard"}

(* WM_CLOSE: posted by a command, by the long-poll thread of a version the *)
(* server has disabled, or from the tray, the system or the shell's        *)
(* "shutdown".  CloseDialog destroys the windows and calls StopConcert.    *)
Close ==
    /\ mainPc = "pump"
    /\ mainPc' \in AfterFarewell
    /\ closePosted' = FALSE
    /\ UNCHANGED <<loopVars, reqStep, pollVars, refreshes, offlineVars, sessionVars, history>>

(* GoOffline: the long poll is taken off, the thread told to end, the      *)
(* server told, the poll under way aborted, and the long-poll thread       *)
(* woken up in case it waits.                                              *)
GoOfflineBegin ==
    /\ mainPc = "offline"
    /\ ready' = FALSE
    /\ mainPc' = "mark"
    /\ UNCHANGED <<loopVars, reqStep, pollVars, closePosted, refreshes, goOffline, timeToQuit,
                   sessionVars, history>>

GoOfflineMark ==
    /\ mainPc = "mark"
    /\ goOffline' = TRUE
    /\ timeToQuit' = TRUE
    /\ mainPc' = "tell"
    /\ UNCHANGED <<loopVars, reqStep, pollVars, closePosted, refreshes, ready, sessionVars,
                   history>>

GoOfflineTell ==
    /\ mainPc = "tell"
    /\ lastHeard' = "offline"
    /\ mainPc' = "unblock"
    /\ UNCHANGED <<loopVars, reqStep, pollVars, closePosted, refreshes, offlineVars,
                   sessionVars, accepted, answered>>

GoOfflineEnd ==
    /\ mainPc = "unblock"
    /\ ready' = TRUE
    /\ mainPc' = "joinPoll"
    /\ UNCHANGED <<loopVars, reqStep, pollVars, closePosted, refreshes, goOffline, timeToQuit,
                   sessionVars, history>>

\* Fault: StopConcert does not wait for the long-poll thread.
LeaveLongPoll ==
    /\ mainPc = "joinPoll"
    /\ mainPc' = "offlineAgain"
    /\ UNCHANGED <<loopVars, reqStep, pollVars, closePosted, refreshes, offlineVars,
                   sessionVars, history>>

JoinLongPoll ==
    /\ mainPc = "joinPoll"
    /\ pollPc = "exit"
    /\ mainPc' = "offlineAgain"
    /\ UNCHANGED <<loopVars, reqStep, pollVars, closePosted, refreshes, offlineVars,
                   sessionVars, history>>

(* GoOffline(true), with a new key; no long-poll thread is left to see its *)
(* effects on the events.                                                  *)
GoOfflineAgain ==
    /\ mainPc = "offlineAgain"
    /\ lastHeard' = "offlineAgain"
    /\ ready' = TRUE
    /\ mainPc' = "quitRequest"
    /\ UNCHANGED <<loopVars, reqStep, pollVars, closePosted, refreshes, goOffline, timeToQuit,
                   sessionVars, accepted, answered>>

QuitRequestThread ==
    /\ mainPc = "quitRequest"
    /\ ML!PostQuit("request")
    /\ mainPc' = "joinRequest"
    /\ UNCHANGED <<reqStep, pollVars, closePosted, refreshes, offlineVars, sessionVars, history>>

(* The session that is left is closed by the main thread. *)
JoinRequestThread ==
    /\ mainPc = "joinRequest"
    /\ loop["request"] = "exit"
    /\ session' = FALSE
    /\ mainPc' = "quitResponse"
    /\ UNCHANGED <<loopVars, reqStep, pollVars, closePosted, refreshes, offlineVars,
                   processedQB, history>>

QuitResponseThread ==
    /\ mainPc = "quitResponse"
    /\ ML!PostQuit("response")
    /\ mainPc' = "joinResponse"
    /\ UNCHANGED <<reqStep, pollVars, closePosted, refreshes, offlineVars, sessionVars, history>>

\* Fault: StopConcert does not wait for the response thread.
LeaveResponseThread ==
    /\ mainPc = "joinResponse"
    /\ mainPc' = "done"
    /\ UNCHANGED <<loopVars, reqStep, pollVars, closePosted, refreshes, offlineVars,
                   sessionVars, history>>

JoinResponseThread ==
    /\ mainPc = "joinResponse"
    /\ loop["response"] = "exit"
    /\ mainPc' = "done"
    /\ UNCHANGED <<loopVars, reqStep, pollVars, closePosted, refreshes, offlineVars,
                   sessionVars, history>>

StopConcert ==
    \/ GoOfflineBegin \/ GoOfflineMark \/ GoOfflineTell \/ GoOfflineEnd \/ JoinLongPoll
    \/ GoOfflineAgain
    \/ QuitRequestThread \/ JoinRequestThread \/ QuitResponseThread \/ JoinResponseThread

Next ==
    \/ LongPollThread
    \/ RequestThread
    \/ ResponseThread
    \/ RefreshArrives \/ RefreshPosts \/ Close
    \/ StopConcert

(* Every thread that can run does.  Of the world outside: QuickBooks and   *)
(* the POST of a reply return, a poll returns within its timeout, and a    *)
(* poll now and then brings an idle answer.  Nobody has to close the       *)
(* window, but WM_CLOSE, once posted, is handled.                          *)
Spec ==
    /\ Init /\ [][Next]_vars
    /\ WF_vars(LongPollThread)
    /\ SF_vars(PollIdle)
    /\ WF_vars(RequestThread)
    /\ WF_vars(ResponseThread)
    /\ WF_vars(RefreshPosts)
    /\ WF_vars(Close /\ closePosted)
    /\ WF_vars(StopConcert)

-----------------------------------------------------------------------------
(* The messages under way, the one that is farthest first. *)
UnderWay ==
    hand["response"] \o queue["response"] \o hand["request"] \o queue["request"]

(* The keys of s, but for the core's own 0, are those of lo .. hi in order. *)
KeysInOrder(s, lo, hi) ==
    /\ {s[i].key : i \in DOMAIN s} \ {0} = lo .. hi
    /\ \A i, j \in DOMAIN s :
         i < j /\ s[i].key # 0 /\ s[j].key # 0 => s[i].key < s[j].key

(* No command is lost, answered twice or overtaken on its way through the  *)
(* two queues: the keys answered, those with the response thread and those *)
(* with the request thread are, in this order, all keys accepted.          *)
CommandsStayInOrder ==
    /\ answered = [i \in 1 .. Len(answered) |-> i]
    /\ Len(answered) <= accepted
    /\ KeysInOrder(UnderWay, Len(answered) + 1, accepted)

(* When StopConcert returns, every command that was taken from the server  *)
(* has been answered, and the QuickBooks session is closed.                *)
NothingLeftBehind ==
    mainPc = "done" => answered = [i \in 1 .. accepted |-> i] /\ ~session

(* The core serves the web server as CommandService promises: it takes     *)
(* commands until StopConcert has seen the long-poll thread end, answers    *)
(* them in order, and ends when it owes no answer.                         *)
AfterPoll == {"offlineAgain", "quitRequest", "joinRequest", "quitResponse",
              "joinResponse", "done"}
ServicePhase ==
    IF mainPc = "done" THEN "stopped" ELSE IF mainPc \in AfterPoll THEN "draining" ELSE "open"
Service == INSTANCE CommandService WITH phase <- ServicePhase
ServesCommands == Service!Spec

(* No poll follows the second offline call: the server ends up knowing     *)
(* that the core is offline, if it gets that call.                         *)
LastWordIsOffline ==
    [][(mainPc \in AfterPoll \ {"offlineAgain"}) => lastHeard' # "wait"]_vars

(* "If we are supposed to go offline, don't longpoll" (DoLongPoll). *)
NoPollOnceOffline ==
    [][PollSend => ~goOffline]_vars

(* The ways the core can hang: the long-poll thread waits for an event     *)
(* that the request thread has reset after GoOffline set it; the main      *)
(* thread waits for a request thread that waits for the main thread; the   *)
(* main or the request thread has a message for a shell that waits for the *)
(* end of the core.                                                        *)
WakeUpLost == mainPc = "joinPoll" /\ pollPc = "wait" /\ ~ready
RefreshMeetsBrowser == mainPc = "refresh" /\ Handling({"browser"}, "start")
ShellSilent == mainPc = "unheard" \/ reqStep = "unheard"

(* A core that knows of no company does not poll, and a command that fails  *)
(* to register one takes the long poll off, perhaps for good.              *)
PollOff == pollPc = "wait" /\ ~ready


(* Whatever the commands and refreshes, a core that is told to close (or   *)
(* has a refresh to post) gets on with it unless it hangs in one of those. *)
Closing == mainPc \notin {"pump", "refresh"}
OnlyKnownHangs ==
    \/ <>[](WakeUpLost \/ RefreshMeetsBrowser \/ ShellSilent)
    \/ /\ Closing ~> mainPc = "done"
       /\ mainPc = "refresh" ~> mainPc # "refresh"

(* What lets each thread take a step, whatever message it is at: the core  *)
(* handles every kind it may get at every step it may stand at.            *)
LoopGetsOn(t) == loop[t] = "top" \/ (loop[t] = "blocked" /\ queue[t] # <<>>)
RequestGetsOn ==
    \/ LoopGetsOn("request")
    \/ Handling((AllKinds \ {"browser"}) \union {"querylost", "expire"}, "start")
    \/ Handling({"browser"}, "start") /\ MainAnswersSendMessage
    \/ \E s \in {"info", "relink", "linkdead", "publish"} : Handling({"versions"}, s)
    \/ Handling({"sync"}, "register")
    \/ Handling(AllKinds \union {"querylost"}, "answer") /\ signal["response"]
ResponseGetsOn == LoopGetsOn("response") \/ loop["response"] = "busy"
PollGetsOn ==
    \/ pollPc \in {"loop", "gate", "send", "inflight", "expire"}
    \/ pollPc = "wait" /\ ready
    \/ pollPc \in {"notify", "backoff"} /\ MainAnswersSendMessage
    \/ pollPc = "deliver" /\ signal["request"]
    \/ pollPc = "postExpire" /\ signal["request"] /\ Len(queue["request"]) < MaxQueue
MainGetsOn ==
    \/ mainPc = "refresh" /\ signal["request"]
    \/ mainPc \in {"offline", "mark", "tell", "unblock", "offlineAgain", "quitRequest",
                   "quitResponse"}
    \/ mainPc = "joinPoll" /\ pollPc = "exit"
    \/ mainPc = "joinRequest" /\ loop["request"] = "exit"
    \/ mainPc = "joinResponse" /\ loop["response"] = "exit"

(* Nobody waits in a circle but in the known ways: when the main thread     *)
(* waits to post a refresh, the request or the response thread gets on;     *)
(* when it waits in StopConcert, one of the three does.                     *)
OnlyKnownDeadlocks ==
    mainPc \notin {"pump", "done"} =>
        \/ MainGetsOn \/ RequestGetsOn \/ ResponseGetsOn
        \/ Closing /\ PollGetsOn
        \/ WakeUpLost \/ RefreshMeetsBrowser \/ ShellSilent

(* The steps the threads have left once they have been told to end, at     *)
(* most: those of each thread where it is, and for a message in a queue    *)
(* those of the thread that takes it, with the reply it may cause.         *)
ReplyWork == 3
MessageWork == 8 + ReplyWork

PollWork ==
    [exit |-> 0, loop |-> 1, gate |-> 2, wait |-> 3,
     postExpire |-> 2 + MessageWork, expire |-> 3 + MessageWork, backoff |-> 4 + MessageWork,
     deliver |-> 4 + 2 * MessageWork, notify |-> 5 + 2 * MessageWork,
     inflight |-> 6 + 2 * MessageWork, send |-> 7 + 2 * MessageWork]

HandlerWork ==
    [start |-> 6, info |-> 5, relink |-> 4, linkdead |-> 3, publish |-> 2, register |-> 2,
     unheard |-> 1, answer |-> 1]

RequestWork ==
    MessageWork * Len(queue["request"])
      + (CASE loop["request"] = "busy" -> HandlerWork[reqStep] + ReplyWork + 1
           [] loop["request"] = "top" -> 1
           [] OTHER -> 0)

ResponseWork ==
    ReplyWork * Len(queue["response"])
      + (CASE loop["response"] = "busy" -> 2
           [] loop["response"] = "top" -> 1
           [] OTHER -> 0)

MainWork ==
    CASE mainPc = "done" -> 0
      [] mainPc = "joinResponse" -> 1
      [] mainPc = "quitResponse" -> 2 + ReplyWork
      [] mainPc = "joinRequest" -> 3 + ReplyWork
      [] mainPc = "quitRequest" -> 4 + ReplyWork + MessageWork
      [] mainPc = "offlineAgain" -> 5 + ReplyWork + MessageWork
      [] mainPc = "joinPoll" -> 6 + ReplyWork + MessageWork
      [] mainPc = "unblock" -> 7 + ReplyWork + MessageWork
      [] OTHER -> 8 + ReplyWork + MessageWork

Work == MainWork + PollWork[pollPc] + RequestWork + ResponseWork

(* A core that has been told to end cannot run on: whatever the threads    *)
(* do, each step brings the end nearer.                                    *)
ClosingUsesUpWork == [][timeToQuit => Work' < Work]_vars
=============================================================================
