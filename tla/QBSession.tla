------------------------------ MODULE QBSession ------------------------------
(***************************************************************************)
(* The core's connection to QuickBooks.  A qbXMLRPWrapper holds a COM      *)
(* object, a connection made through it and the ticket of a session; its   *)
(* destructor gives all three back.  The core keeps one for the server     *)
(* (qb startsession ... qb endsession, QBInfo::persistentQBXMLWrapper) and *)
(* makes another for what needs one of its own.                            *)
(*                                                                         *)
(* Each call to QuickBooks is a step and may fail.  QuickBooks itself is   *)
(* external: it knows sessions and connections, and forgets them when it   *)
(* closes.  The long-poll thread ends a session that is not used, by a     *)
(* message behind the server's commands; the main thread ends the session  *)
(* that is left when the core stops.                                       *)
(***************************************************************************)
EXTENDS Naturals, Sequences, FiniteSets

CONSTANTS
    Tickets,        \* what BeginSession returns
    NoTicket,       \* the empty m_Ticket
    MaxQueue,       \* bound on the request queue for the long poll's own messages
    MaxCommands,    \* bound on the commands of the server and the refreshes
    MaxFailures,    \* bound on the calls that fail without a reason
    MaxClosings     \* bound on the times QuickBooks closes

ASSUME SessionAssumption ==
    /\ NoTicket \notin Tickets
    /\ MaxQueue \in Nat \ {0}
    /\ MaxCommands \in Nat
    /\ MaxFailures \in Nat
    /\ MaxClosings \in Nat

VARIABLES
    wrapper,        \* the two wrappers: the server's and one for the task in hand
    step,           \* how far each thread has come
    task,           \* what each thread is doing, and with which wrapper
    queue,          \* the request thread's messages
    pollStep,       \* long-poll thread
    processedQB,    \* QBInfo::processedQBRequest
    idlePolls,      \* LongPoll::pollsWithoutQBRequest
    offline,        \* LongPoll::goOfflineSignal
    ready,          \* QBInfo::readyForLongPollSignal: there is a company to poll for
    sessions,       \* QuickBooks: tickets of open sessions
    connected,      \* QuickBooks: wrappers that have a connection
    stuck,          \* history: tickets whose EndSession failed
    commands, failures, closings    \* counters for the bounds

pollVars == <<pollStep, processedQB, idlePolls>>
quickBooks == <<sessions, connected, stuck>>
bounds == <<commands, failures, closings>>
signals == <<offline, ready>>
vars == <<wrapper, step, task, queue, pollVars, signals, quickBooks, bounds>>

Names == {"persistent", "temporary"}
Threads == {"main", "request"}
Wrapper == [exists : BOOLEAN, proc : BOOLEAN, open : BOOLEAN, ticket : Tickets \union {NoTicket}]
NoWrapper == [exists |-> FALSE, proc |-> FALSE, open |-> FALSE, ticket |-> NoTicket]
NewWrapper == [NoWrapper EXCEPT !.exists = TRUE]

\* commands that cmd_qb handles; it refuses them once the core is going offline
QbCommands == {"qb", "startsession", "endsession", "versions"}
ServerCommands == QbCommands \union {"subscribexml", "sync"}
Messages == ServerCommands \union {"querylost", "expire", "WM_QUIT"}
Steps == {"enter", "create", "connect", "begin", "check", "process", "tell", "unsubscribe", "end", "disconnect",
          "release", "idle", "off", "joinPoll", "joinRequest", "ended", "crashed"}

\* GetInfoFromQB asks for the company, its templates and the host.
InfoRequests == 3
Task == [cmd : Messages \union {"nothing"}, on : Names, left : 0 .. InfoRequests]
NoTask == [cmd |-> "nothing", on |-> "temporary", left |-> 0]

TypeOK ==
    /\ wrapper \in [Names -> Wrapper]
    /\ step \in [Threads -> Steps]
    /\ task \in [Threads -> Task]
    /\ queue \in Seq(Messages)
    /\ pollStep \in {"off", "loop", "gate", "poll", "check", "ended"}
    /\ processedQB \in BOOLEAN
    /\ idlePolls \in 0 .. 2
    /\ offline \in BOOLEAN
    /\ ready \in BOOLEAN
    /\ sessions \subseteq Tickets
    /\ connected \subseteq Names
    /\ stuck \subseteq Tickets
    /\ commands \in 0 .. MaxCommands
    /\ failures \in 0 .. MaxFailures
    /\ closings \in 0 .. MaxClosings

(* Run: the main thread calls GetInfoFromQB before it starts the others. *)
Init ==
    /\ wrapper = [n \in Names |-> IF n = "temporary" THEN NewWrapper ELSE NoWrapper]
    /\ step = [t \in Threads |-> IF t = "main" THEN "enter" ELSE "off"]
    /\ task = [t \in Threads |->
                 IF t = "main" THEN [cmd |-> "versions", on |-> "temporary", left |-> InfoRequests]
                 ELSE NoTask]
    /\ queue = <<>>
    /\ pollStep = "off"
    /\ processedQB = FALSE
    /\ idlePolls = 0
    /\ offline = FALSE
    /\ ready = FALSE
    /\ sessions = {}
    /\ connected = {}
    /\ stuck = {}
    /\ commands = 0
    /\ failures = 0
    /\ closings = 0

-----------------------------------------------------------------------------
(* The steps of qbXMLRPWrapper, in either thread. *)
At(t, s) == step[t] = s
Goto(t, s) == step' = [step EXCEPT ![t] = s]
On(t) == task[t].on
My(t) == wrapper[On(t)]

Fails == failures < MaxFailures /\ failures' = failures + 1

(* StartSession keeps a wrapper that could not open; GetInfoFromQB goes on *)
(* with it; the others delete it.                                          *)
OpeningFailed(t) ==
    Goto(t, CASE task[t].cmd = "startsession" -> "idle"
              [] task[t].cmd = "versions" -> "check"
              [] OTHER -> "end")

(* OpenQBConnection: CoCreateInstance ... *)
CreateProcessor(t) ==
    /\ At(t, "create")
    /\ \/ /\ wrapper' = [wrapper EXCEPT ![On(t)].proc = TRUE]
          /\ Goto(t, "connect")
          /\ UNCHANGED failures
       \/ /\ Fails
          /\ OpeningFailed(t)
          /\ UNCHANGED wrapper
    /\ UNCHANGED <<task, queue, pollVars, signals, quickBooks, commands, closings>>

(* ... and OpenConnection2, whose result is not looked at. *)
OpenConnection(t) ==
    /\ At(t, "connect")
    /\ \/ connected' = connected \union {On(t)} /\ UNCHANGED failures
       \/ Fails /\ UNCHANGED connected
    /\ wrapper' = [wrapper EXCEPT ![On(t)].open = TRUE]
    /\ Goto(t, IF task[t].cmd = "subscribexml" THEN "process" ELSE "begin")
    /\ UNCHANGED <<task, queue, pollVars, signals, sessions, stuck, commands, closings>>

SessionBegun(t) ==
    Goto(t, CASE task[t].cmd = "startsession" -> "idle"
              [] task[t].cmd = "versions" -> "check"
              [] OTHER -> "process")

BeginSession(t) ==
    /\ At(t, "begin")
    /\ \/ /\ On(t) \in connected
          /\ \E ticket \in Tickets \ (sessions \union {wrapper[n].ticket : n \in Names}) :
               /\ sessions' = sessions \union {ticket}
               /\ wrapper' = [wrapper EXCEPT ![On(t)].ticket = ticket]
          /\ SessionBegun(t)
          /\ UNCHANGED failures
       \/ /\ IF On(t) \in connected THEN Fails ELSE UNCHANGED failures
          /\ OpeningFailed(t)
          /\ UNCHANGED <<sessions, wrapper>>
    /\ UNCHANGED <<task, queue, pollVars, signals, connected, stuck, commands, closings>>

(* GetInfoFromQB looks before it opens the file, before each request and   *)
(* after the last whether the core goes offline.                           *)
CheckOffline(t) ==
    /\ step[t] \in {"enter", "check"}
    /\ Goto(t, CASE offline -> "end"
              [] ~offline /\ At(t, "enter") -> "create"
              [] ~offline /\ At(t, "check") -> IF task[t].left > 0 THEN "process" ELSE "tell")
    /\ UNCHANGED <<wrapper, task, queue, pollVars, signals, quickBooks, bounds>>

(* ProcessRequest and ProcessSubscription; whether the request itself has  *)
(* failed makes no difference to what follows.                             *)
ProcessRequest(t) ==
    /\ At(t, "process")
    /\ My(t).proc
    /\ LET left == IF task[t].left = 0 THEN 0 ELSE task[t].left - 1 IN
         /\ task' = [task EXCEPT ![t].left = left]
         /\ Goto(t, IF task[t].cmd = "versions" THEN "check"
                    ELSE IF task[t].cmd = "subscribexml" THEN "unsubscribe"
                    ELSE IF On(t) = "persistent" THEN "idle"
                    ELSE "end")
    /\ UNCHANGED <<wrapper, queue, pollVars, signals, quickBooks, bounds>>

(* GetInfoFromQB lets the long poll go if there is a company, and holds it *)
(* back if there is none or its file could not be read.                    *)
TellPoll(t) ==
    /\ At(t, "tell")
    /\ ready' \in BOOLEAN
    /\ Goto(t, "end")
    /\ UNCHANGED <<wrapper, task, queue, pollVars, offline, quickBooks, bounds>>

(* A call through the null m_pReqProc: the process ends. *)
CallThroughNull(t) ==
    /\ At(t, "process")
    /\ ~My(t).proc
    /\ step' = [u \in Threads |-> "crashed"]
    /\ pollStep' = "off"
    /\ UNCHANGED <<wrapper, task, queue, processedQB, idlePolls, signals, quickBooks, bounds>>

(* ~qbXMLRPWrapper: CloseCompanyFile, CloseQBConnection, Release.  A       *)
(* failure is noted and the next step taken.                               *)
EndSession(t) ==
    /\ At(t, "end")
    /\ LET ticket == My(t).ticket IN
         \/ /\ ticket \in sessions
            /\ sessions' = sessions \ {ticket}
            /\ wrapper' = [wrapper EXCEPT ![On(t)].ticket = NoTicket]
            /\ UNCHANGED <<stuck, failures>>
         \/ /\ IF ticket \in sessions THEN Fails ELSE UNCHANGED failures
            /\ stuck' = stuck \union ({ticket} \intersect sessions)
            /\ UNCHANGED <<sessions, wrapper>>
    /\ Goto(t, "disconnect")
    /\ UNCHANGED <<task, queue, pollVars, signals, connected, commands, closings>>

(* Also called by ProcessSubscription, before the destructor. *)
CloseConnection(t) ==
    /\ step[t] \in {"disconnect", "unsubscribe"}
    /\ \/ /\ On(t) \in connected
          /\ connected' = connected \ {On(t)}
          /\ wrapper' = [wrapper EXCEPT ![On(t)].open = FALSE]
          /\ UNCHANGED failures
       \/ /\ IF My(t).open /\ On(t) \in connected THEN Fails ELSE UNCHANGED failures
          /\ UNCHANGED <<connected, wrapper>>
    /\ Goto(t, IF At(t, "unsubscribe") THEN "end" ELSE "release")
    /\ UNCHANGED <<task, queue, pollVars, signals, sessions, stuck, commands, closings>>

Release(t) ==
    /\ At(t, "release")
    /\ wrapper' = [wrapper EXCEPT ![On(t)] = NoWrapper]
    /\ connected' = connected \ {On(t)}
    /\ Goto(t, "idle")
    /\ UNCHANGED <<task, queue, pollVars, signals, sessions, stuck, bounds>>

WrapperStep(t) ==
    \/ CreateProcessor(t) \/ OpenConnection(t) \/ BeginSession(t)
    \/ CheckOffline(t) \/ ProcessRequest(t) \/ TellPoll(t) \/ CallThroughNull(t)
    \/ EndSession(t) \/ CloseConnection(t) \/ Release(t)

-----------------------------------------------------------------------------
(* The request thread takes a message. *)
Persistent == wrapper["persistent"].exists

Receive(cmds) ==
    /\ At("request", "idle")
    /\ queue # <<>>
    /\ Head(queue) \in cmds
    /\ queue' = Tail(queue)

Served == ~(offline /\ Head(queue) \in QbCommands)

Set(name, left, s) ==
    /\ task' = [task EXCEPT !["request"] = [cmd |-> Head(queue), on |-> name, left |-> left]]
    /\ Goto("request", s)

\* cmd_qb sets the flag, the other handlers do not.
MarkUsed == processedQB' = (processedQB \/ Head(queue) \in QbCommands)

(* cmd_qb answers SHUTDOWN. *)
TakeTooLate ==
    /\ Receive(QbCommands)
    /\ ~Served
    /\ UNCHANGED <<wrapper, step, task, pollVars, signals, quickBooks, bounds>>

(* Fault: a second startsession opens a second session in its place. *)
TakeStartAnew ==
    /\ Receive({"startsession"})
    /\ Served
    /\ MarkUsed
    /\ wrapper' = [wrapper EXCEPT !["persistent"] = NewWrapper]
    /\ Set("persistent", 0, "create")
    /\ UNCHANGED <<pollStep, idlePolls, signals, quickBooks, bounds>>

(* StartSession *)
TakeStart ==
    /\ Receive({"startsession"})
    /\ Served
    /\ MarkUsed
    /\ IF Persistent
       THEN UNCHANGED <<wrapper, step, task>>
       ELSE /\ wrapper' = [wrapper EXCEPT !["persistent"] = NewWrapper]
            /\ Set("persistent", 0, "create")
    /\ UNCHANGED <<pollStep, idlePolls, signals, quickBooks, bounds>>

(* Fault: a session that could not be ended is kept, to be ended later. *)
TakeEndIfOpen ==
    /\ Receive({"endsession", "expire"})
    /\ Served
    /\ MarkUsed
    /\ IF Persistent /\ wrapper["persistent"].ticket \in sessions
       THEN Set("persistent", 0, "end")
       ELSE UNCHANGED <<step, task>>
    /\ UNCHANGED <<wrapper, pollStep, idlePolls, signals, quickBooks, bounds>>

(* EndSession, at the server's command or after three idle polls. *)
TakeEnd ==
    /\ Receive({"endsession", "expire"})
    /\ Served
    /\ MarkUsed
    /\ IF Persistent
       THEN Set("persistent", 0, "end")
       ELSE UNCHANGED <<step, task>>
    /\ UNCHANGED <<wrapper, pollStep, idlePolls, signals, quickBooks, bounds>>

(* Fault: every request opens the company file for itself. *)
TakeRequestAlone ==
    /\ Receive({"qb", "querylost"})
    /\ Served
    /\ MarkUsed
    /\ wrapper' = [wrapper EXCEPT !["temporary"] = NewWrapper]
    /\ Set("temporary", 0, "create")
    /\ UNCHANGED <<pollStep, idlePolls, signals, quickBooks, bounds>>

(* ProcessQBXMLRequest uses the server's session if there is one. *)
TakeRequest ==
    /\ Receive({"qb", "querylost"})
    /\ Served
    /\ MarkUsed
    /\ IF Persistent
       THEN Set("persistent", 0, "process") /\ UNCHANGED wrapper
       ELSE /\ wrapper' = [wrapper EXCEPT !["temporary"] = NewWrapper]
            /\ Set("temporary", 0, "create")
    /\ UNCHANGED <<pollStep, idlePolls, signals, quickBooks, bounds>>

(* GetInfoFromQB and cmd_subscribexml have a wrapper of their own. *)
TakeOther ==
    /\ Receive({"versions", "subscribexml"})
    /\ Served
    /\ MarkUsed
    /\ wrapper' = [wrapper EXCEPT !["temporary"] = NewWrapper]
    /\ IF Head(queue) = "versions"
       THEN Set("temporary", InfoRequests, "enter")
       ELSE Set("temporary", 0, "create")
    /\ UNCHANGED <<pollStep, idlePolls, signals, quickBooks, bounds>>

(* start_test_sync asks the web server about the company: RegisterConnector *)
(* holds the long poll back and lets it go again on a good answer only.     *)
TakeSync ==
    /\ Receive({"sync"})
    /\ ready' \in BOOLEAN
    /\ UNCHANGED <<wrapper, step, task, pollVars, offline, quickBooks, bounds>>

TakeQuit ==
    /\ Receive({"WM_QUIT"})
    /\ Goto("request", "ended")
    /\ UNCHANGED <<wrapper, task, pollVars, signals, quickBooks, bounds>>

Take ==
    \/ TakeTooLate \/ TakeStart \/ TakeEnd \/ TakeRequest \/ TakeOther \/ TakeSync
    \/ TakeQuit

-----------------------------------------------------------------------------
(* The long-poll thread; a poll under way when the core goes offline still *)
(* has its answer.  MessageLoop has the wait before a message is posted.   *)
PollIdle ==
    /\ pollStep = "poll"
    /\ processedQB' = FALSE
    /\ pollStep' = "check"
    /\ \/ UNCHANGED queue
       \/ Len(queue) < MaxQueue /\ queue' = Append(queue, "querylost")
    /\ UNCHANGED <<wrapper, step, task, idlePolls, signals, quickBooks, bounds>>

PollCommand ==
    /\ pollStep = "poll"
    /\ commands < MaxCommands
    /\ commands' = commands + 1
    /\ pollStep' = "check"
    /\ \E c \in ServerCommands : queue' = Append(queue, c)
    /\ UNCHANGED <<wrapper, step, task, processedQB, idlePolls, signals, quickBooks, failures,
                   closings>>

\* A new key, a failure, or a command that has nothing to do with QuickBooks.
PollOther ==
    /\ pollStep = "poll"
    /\ pollStep' = "check"
    /\ UNCHANGED <<wrapper, step, task, queue, processedQB, idlePolls, signals, quickBooks, bounds>>

(* Fault: the third idle poll does not yet count as the third. *)
PollExpireLate ==
    /\ pollStep = "check"
    /\ pollStep' = "loop"
    /\ IF Persistent /\ ~processedQB
       THEN idlePolls' = idlePolls + 1
       ELSE UNCHANGED idlePolls
    /\ IF idlePolls = 3 /\ Len(queue) < MaxQueue
       THEN queue' = Append(queue, "expire")
       ELSE UNCHANGED queue
    /\ UNCHANGED <<wrapper, step, task, processedQB, signals, quickBooks, bounds>>

(* ClearExpiredQBSession *)
PollExpire ==
    /\ pollStep = "check"
    /\ pollStep' = "loop"
    /\ \/ /\ ~Persistent
          /\ UNCHANGED <<idlePolls, queue>>
       \/ /\ Persistent /\ processedQB
          /\ idlePolls' = 0
          /\ UNCHANGED queue
       \/ /\ Persistent /\ ~processedQB /\ idlePolls < 2
          /\ idlePolls' = idlePolls + 1
          /\ UNCHANGED queue
       \/ /\ Persistent /\ ~processedQB /\ idlePolls = 2
          /\ Len(queue) < MaxQueue
          /\ queue' = Append(queue, "expire")
          /\ idlePolls' = 0
    /\ UNCHANGED <<wrapper, step, task, processedQB, signals, quickBooks, bounds>>

(* The thread's loop tests timeToQuit, which GoOffline sets. *)
PollLoop ==
    /\ pollStep = "loop"
    /\ pollStep' = IF offline THEN "ended" ELSE "gate"
    /\ UNCHANGED <<wrapper, step, task, queue, processedQB, idlePolls, signals, quickBooks, bounds>>

(* DoLongPoll waits with no time limit for readyForLongPollSignal, then    *)
(* tests goOfflineSignal; the loop ends then too.                          *)
PollGate ==
    /\ pollStep = "gate"
    /\ ready
    /\ pollStep' = IF offline THEN "ended" ELSE "poll"
    /\ UNCHANGED <<wrapper, step, task, queue, processedQB, idlePolls, signals, quickBooks, bounds>>

LongPoll == PollIdle \/ PollCommand \/ PollOther \/ PollExpire \/ PollLoop \/ PollGate

-----------------------------------------------------------------------------
(* The main thread. *)
StartConcert ==
    /\ At("main", "idle")
    /\ At("request", "off")
    /\ Goto("request", "idle")
    /\ pollStep' = "loop"
    /\ task' = [task EXCEPT !["main"] = NoTask]
    /\ UNCHANGED <<wrapper, queue, processedQB, idlePolls, signals, quickBooks, bounds>>

\* The shell says "refresh".
Refresh ==
    /\ At("main", "idle")
    /\ step["request"] \notin {"off", "ended"}
    /\ commands < MaxCommands
    /\ commands' = commands + 1
    /\ queue' = Append(queue, "versions")
    /\ UNCHANGED <<wrapper, step, task, pollVars, signals, quickBooks, failures, closings>>

(* StopConcert: the long-poll thread goes first, then the request thread,  *)
(* then the server's session.                                              *)
StopConcert ==
    /\ At("main", "idle")
    /\ step["request"] \notin {"off", "ended"}
    /\ offline' = TRUE
    /\ ready' = TRUE
    /\ Goto("main", "joinPoll")
    /\ UNCHANGED <<wrapper, task, queue, pollVars, quickBooks, bounds>>

JoinPoll ==
    /\ At("main", "joinPoll")
    /\ pollStep = "ended"
    /\ queue' = Append(queue, "WM_QUIT")
    /\ Goto("main", "joinRequest")
    /\ UNCHANGED <<wrapper, task, pollVars, signals, quickBooks, bounds>>

DeletePersistent ==
    /\ IF Persistent
       THEN /\ task' = [task EXCEPT !["main"] =
                          [cmd |-> "WM_QUIT", on |-> "persistent", left |-> 0]]
            /\ Goto("main", "end")
       ELSE Goto("main", "ended") /\ UNCHANGED task
    /\ UNCHANGED <<wrapper, queue, pollVars, signals, quickBooks, bounds>>

\* Fault: the session is deleted before the request thread has ended.
JoinNobody ==
    /\ At("main", "joinRequest")
    /\ DeletePersistent

\* Fault: the session is left to the end of the process.
JoinAndLeave ==
    /\ At("main", "joinRequest")
    /\ At("request", "ended")
    /\ Goto("main", "ended")
    /\ UNCHANGED <<wrapper, task, queue, pollVars, signals, quickBooks, bounds>>

JoinRequest ==
    /\ At("main", "joinRequest")
    /\ At("request", "ended")
    /\ DeletePersistent

MainEnds ==
    /\ At("main", "idle")
    /\ At("request", "ended")
    /\ Goto("main", "ended")
    /\ UNCHANGED <<wrapper, task, queue, pollVars, signals, quickBooks, bounds>>

(* The request thread made the connection and has given up COM at its end: *)
(* what the main thread calls on it may fail, or crash.                    *)
CallAfterUninitialize ==
    /\ step["main"] \in {"end", "disconnect", "release"}
    /\ On("main") = "persistent"
    /\ My("main").proc
    /\ step' = [u \in Threads |-> "crashed"]
    /\ pollStep' = "off"
    /\ UNCHANGED <<wrapper, task, queue, processedQB, idlePolls, signals, quickBooks, bounds>>

Main ==
    \/ StartConcert \/ Refresh \/ StopConcert \/ JoinPoll \/ JoinRequest
    \/ CallAfterUninitialize \/ MainEnds

-----------------------------------------------------------------------------
(* QuickBooks closes, or loses its company file. *)
QuickBooksCloses ==
    /\ closings < MaxClosings
    /\ closings' = closings + 1
    /\ sessions' = {}
    /\ connected' = {}
    /\ stuck' = {}
    /\ UNCHANGED <<wrapper, step, task, queue, pollVars, signals, commands, failures>>

Next ==
    \/ \E t \in Threads : WrapperStep(t)
    \/ Take
    \/ LongPoll
    \/ Main
    \/ QuickBooksCloses

(* Calls to QuickBooks return and threads that are not blocked run on.  Of *)
(* infinitely many polls some are idle.                                    *)
Spec ==
    /\ Init
    /\ [][Next]_vars
    /\ \A t \in Threads : WF_vars(WrapperStep(t))
    /\ WF_vars(Take)
    /\ WF_vars(LongPoll)
    /\ SF_vars(PollIdle)
    /\ WF_vars(StartConcert \/ JoinPoll \/ JoinRequest \/ MainEnds)

-----------------------------------------------------------------------------
(* Every session QuickBooks has open for the core is known to a wrapper,   *)
(* which will end it, unless the attempt to end it has failed: no way      *)
(* through opening, requests and closing, with any call failing, drops a   *)
(* ticket.                                                                 *)
NoOrphans == sessions \subseteq {wrapper[n].ticket : n \in Names} \union stuck

(* The core has two sessions open at once only while GetInfoFromQB reads   *)
(* the company inside the server's session.                                *)
SecondSessionOnlyForInfo ==
    (\A n \in Names : wrapper[n].ticket # NoTicket) => task["request"].cmd = "versions"

(* The main thread deletes the server's session without a lock: nobody     *)
(* else uses it then, and nobody opens it again.                           *)
DeletedUnused ==
    At("main", "end") \/ At("main", "disconnect") \/ At("main", "release")
        => step["request"] \in {"off", "ended"}

(* When the core has stopped QuickBooks has no session left of it but      *)
(* those it refused to end.                                                *)
NothingHeldAtEnd == At("main", "ended") => sessions \subseteq stuck

(* A server's session that does not work, because it could not be opened   *)
(* or QuickBooks has closed meanwhile, is thrown away in the end and the   *)
(* server can start another, unless the long poll is held back for ever.   *)
Broken == Persistent /\ wrapper["persistent"].ticket \notin sessions
HeldBack == pollStep = "gate" /\ ~ready
BrokenSessionEnds ==
    <>[]HeldBack \/ (Broken ~> (~Broken \/ At("request", "crashed")))

(* "Once you're in a session, you may start sending requests"              *)
(* (qbXMLRPWrapper.cpp:23).                                                *)
RequestsAreInSession ==
    [][\A t \in Threads :
         (ProcessRequest(t) \/ CallThroughNull(t)) /\ task[t].cmd # "subscribexml"
            => My(t).ticket # NoTicket]_vars
=============================================================================
