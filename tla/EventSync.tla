------------------------------ MODULE EventSync ------------------------------
(***************************************************************************)
(* The way of a data event from QuickBooks to the web server: the shell    *)
(* forwards it to the core if a core is running, EventBuffer keeps it, a   *)
(* long poll tells the server how many events wait, the server answers the *)
(* poll with a command, the request thread runs the commands in order and  *)
(* the response thread posts the replies in order.                         *)
(*                                                                         *)
(* A command is lost when the answer to a poll is lost, a reply when its   *)
(* POST fails; the core never repeats either, so the server does.  The     *)
(* server is not part of the repository: it is modelled as a client of the *)
(* commands that sends one at a time, repeats one it got no reply to and   *)
(* ignores the reply to a command it has repeated since (commands and      *)
(* replies are matched by key; `current` says the key is still awaited).   *)
(***************************************************************************)
EXTENDS EventBuffer

CONSTANTS
    MaxQueue,       \* bound on commands waiting for the request thread
    MaxRestarts,    \* bound on the ends of the core process
    MaxOutages,     \* bound on the times QuickBooks cannot deliver events
    MaxFailures,    \* bound on the requests to QuickBooks that fail
    MaxHasty        \* how often the server repeats a command still under way

ASSUME SyncAssumption ==
    /\ MaxQueue \in Nat \ {0}
    /\ MaxRestarts \in Nat
    /\ MaxOutages \in Nat
    /\ MaxFailures \in Nat
    /\ MaxHasty \in Nat

VARIABLES
    up,         \* a core process is running
    ready,      \* readyForLongPollSignal: the long-poll thread may pass its wait
    offline,    \* goOfflineSignal: StopConcert has begun
    polling,    \* a long poll is waiting at the server
    advertised, \* what the last poll said: events waiting, lost events
    commands,   \* the request thread's queue
    replies,    \* replies posted to the response thread
    phase,      \* where the server is in its exchange with the core
    received,   \* events the server has stored
    gone,       \* history: events given up by a restart or a recovery, or missed
    qbLost,     \* QuickBooks has a record of events it could not deliver
    restarts, outages, failures, hasty  \* counters for the bounds

coreState == <<up, ready, offline>>
syncVars == <<coreState, polling, advertised, commands, replies, phase, received, gone,
              qbLost, restarts, outages, failures, hasty>>
allVars == <<bufferVars, syncVars>>

CommandNames == {"get", "clear", "clearLost", "queryLost"}
Command == [name : CommandNames, current : BOOLEAN]
Reply == [name : CommandNames, current : BOOLEAN, events : SUBSET Events]
Phases == {"idle", "asked", "stored", "clearing", "recovering"}

SyncTypeOK ==
    /\ TypeOK
    /\ up \in BOOLEAN
    /\ ready \in BOOLEAN
    /\ offline \in BOOLEAN
    /\ polling \in BOOLEAN
    /\ advertised \in [events : BOOLEAN, lost : BOOLEAN]
    /\ commands \in Seq(Command)
    /\ replies \in Seq(Reply)
    /\ phase \in Phases
    /\ received \subseteq Events
    /\ gone \subseteq Events
    /\ qbLost \in BOOLEAN
    /\ restarts \in 0 .. MaxRestarts
    /\ outages \in 0 .. MaxOutages
    /\ failures \in 0 .. MaxFailures
    /\ hasty \in 0 .. MaxHasty

SyncInit ==
    /\ Init
    /\ up = TRUE
    /\ ready = FALSE
    /\ offline = FALSE
    /\ polling = FALSE
    /\ advertised = [events |-> FALSE, lost |-> FALSE]
    /\ commands = <<>>
    /\ replies = <<>>
    /\ phase = "idle"
    /\ received = {}
    /\ gone = {}
    /\ qbLost = FALSE
    /\ restarts = 0
    /\ outages = 0
    /\ failures = 0
    /\ hasty = 0

-----------------------------------------------------------------------------
(* The shell: ProcessEvent sends a data event to the core's window, and    *)
(* drops it when there is none.                                            *)
Forward(e) ==
    /\ up
    /\ PushEvent(e)
    /\ UNCHANGED syncVars

Drop(e) ==
    /\ ~up
    /\ e \notin arrived
    /\ arrived' = arrived \union {e}
    /\ gone' = gone \union {e}
    /\ UNCHANGED <<dataEvents, newDataEvents, lostDataEvents, clearing, reported, slipped,
                   coreState, polling, advertised, commands, replies, phase, received,
                   qbLost, restarts, outages, failures, hasty>>

(* QuickBooks finds no shell to call and makes a note of it. *)
QuickBooksOutage ==
    /\ outages < MaxOutages
    /\ outages' = outages + 1
    /\ qbLost' = TRUE
    /\ UNCHANGED <<bufferVars, coreState, polling, advertised, commands, replies, phase, received,
                   gone, restarts, failures, hasty>>

-----------------------------------------------------------------------------
(* The long-poll thread: DoLongPoll waits, with no time limit, for the     *)
(* signal that the core has a company to poll for, reads the size of       *)
(* dataEvents and the flag, and sends both to the server.  It looks before *)
(* whether the core is offline, but not in one step with the sending.      *)
Poll ==
    /\ up
    /\ ready
    /\ ~polling
    /\ polling' = TRUE
    /\ advertised' = [events |-> dataEvents # <<>>, lost |-> lostDataEvents]
    /\ UNCHANGED <<bufferVars, coreState, commands, replies, phase, received, gone, qbLost,
                   restarts, outages, failures, hasty>>

\* Fault: the test of lostDataEvents is the wrong way round.
PollTimeoutAsksTooLate ==
    /\ polling
    /\ polling' = FALSE
    /\ IF ~lostDataEvents
       THEN UNCHANGED commands
       ELSE /\ Len(commands) < MaxQueue
            /\ commands' = Append(commands, [name |-> "queryLost", current |-> FALSE])
    /\ UNCHANGED <<bufferVars, coreState, advertised, replies, phase, received, gone, qbLost,
                   restarts, outages, failures, hasty>>

(* The server has no command: on TIMEOUT the core asks itself for lost     *)
(* events, unless it knows of some.                                        *)
PollTimeout ==
    /\ polling
    /\ polling' = FALSE
    /\ IF lostDataEvents
       THEN UNCHANGED commands
       ELSE /\ Len(commands) < MaxQueue
            /\ commands' = Append(commands, [name |-> "queryLost", current |-> FALSE])
    /\ UNCHANGED <<bufferVars, coreState, advertised, replies, phase, received, gone, qbLost,
                   restarts, outages, failures, hasty>>

(* The poll fails or times out in the network; the core will poll again. *)
PollFails ==
    /\ polling
    /\ polling' = FALSE
    /\ UNCHANGED <<bufferVars, coreState, advertised, commands, replies, phase, received, gone,
                   qbLost, restarts, outages, failures, hasty>>

-----------------------------------------------------------------------------
(* The server (external). *)
NoLongerCurrent(s) == [i \in DOMAIN s |-> [s[i] EXCEPT !.current = FALSE]]

UnderWay == \E m \in ToSet(commands) \union ToSet(replies) : m.current

(* The command reaches the request thread with the answer to the poll, or  *)
(* the answer is lost.  What was awaited before is awaited no more.        *)
SendCommand(name) ==
    /\ polling
    /\ polling' = FALSE
    /\ \/ commands' = NoLongerCurrent(commands)
       \/ /\ Len(commands) < MaxQueue
          /\ commands' = Append(NoLongerCurrent(commands), [name |-> name, current |-> TRUE])
    /\ replies' = NoLongerCurrent(replies)
    /\ hasty' = IF UnderWay THEN hasty + 1 ELSE hasty
    /\ hasty' <= MaxHasty
    /\ UNCHANGED <<bufferVars, coreState, advertised, received, gone, qbLost, restarts, outages,
                   failures>>

AskForEvents ==
    /\ phase = "asked" \/ (phase = "idle" /\ advertised.events)
    /\ phase' = "asked"
    /\ SendCommand("get")

AskToClear ==
    /\ phase \in {"stored", "clearing"}
    /\ phase' = "clearing"
    /\ SendCommand("clear")

(* The server rereads the company's data before it orders the recovery. *)
AskToRecover ==
    /\ phase = "recovering" \/ (phase = "idle" /\ advertised.lost)
    /\ phase' = "recovering"
    /\ SendCommand("clearLost")

(* A reply arrives, or its POST failed and nobody tries again. *)
ReplyArrives ==
    /\ replies # <<>>
    /\ replies' = Tail(replies)
    /\ LET r == Head(replies) IN
         IF r.current
         THEN /\ phase' = IF r.name = "get" THEN "stored" ELSE "idle"
              /\ received' = received \union r.events
         ELSE UNCHANGED <<phase, received>>
    /\ UNCHANGED <<bufferVars, coreState, polling, advertised, commands, gone, qbLost,
                   restarts, outages, failures, hasty>>

ReplyLost ==
    /\ replies # <<>>
    /\ replies' = Tail(replies)
    /\ UNCHANGED <<bufferVars, coreState, polling, advertised, commands, phase, received, gone,
                   qbLost, restarts, outages, failures, hasty>>

-----------------------------------------------------------------------------
(* The request thread runs the commands of its queue, one after the other; *)
(* every one but query_lost_data_events is answered.                       *)
Answer(events) ==
    /\ commands' = Tail(commands)
    /\ replies' = Append(replies, [name |-> Head(commands).name,
                                   current |-> Head(commands).current,
                                   events |-> events])

NextCommandIs(name) ==
    /\ up
    /\ commands # <<>>
    /\ Head(commands).name = name

\* Fault: the reply lists what is left after the handler has started a new queue.
RunGetEventsTooLate ==
    /\ NextCommandIs("get")
    /\ GetEvents
    /\ Answer(ToSet(newDataEvents'))
    /\ UNCHANGED <<coreState, polling, advertised, phase, received, gone, qbLost, restarts, outages,
                   failures, hasty>>

RunGetEvents ==
    /\ NextCommandIs("get")
    /\ GetEvents
    /\ Answer(ToSet(dataEvents))
    /\ UNCHANGED <<coreState, polling, advertised, phase, received, gone, qbLost, restarts, outages,
                   failures, hasty>>

RunClearEvents ==
    /\ NextCommandIs("clear")
    /\ ClearEvents
    /\ Answer({})
    /\ UNCHANGED <<coreState, polling, advertised, phase, received, gone, qbLost, restarts, outages,
                   failures, hasty>>

(* A request to QuickBooks that fails. *)
QuickBooksFails ==
    /\ failures < MaxFailures
    /\ failures' = failures + 1

(* query_lost_data_events takes a failure for "nothing lost". *)
RunQueryLost ==
    /\ NextCommandIs("queryLost")
    /\ \/ QueryLost(qbLost) /\ UNCHANGED failures
       \/ QueryLost(FALSE) /\ QuickBooksFails
    /\ commands' = Tail(commands)
    /\ UNCHANGED <<coreState, polling, advertised, replies, phase, received, gone, qbLost,
                   restarts, outages, hasty>>

RunBeginClearLost ==
    /\ NextCommandIs("clearLost")
    /\ ~offline
    /\ BeginClearLost
    /\ UNCHANGED syncVars

(* The core is going offline: cmd_qb answers "SHUTDOWN" and does nothing.  *)
(* The server is not relied on to tell this from another answer.           *)
RunClearLostTooLate ==
    /\ NextCommandIs("clearLost")
    /\ clearing = "no"
    /\ offline
    /\ Answer({})
    /\ UNCHANGED <<bufferVars, coreState, polling, advertised, phase, received, gone, qbLost,
                   restarts, outages, failures, hasty>>

(* The handler does not look whether the request has failed. *)
RunDeleteLost ==
    /\ up
    /\ DeleteLost
    /\ \/ qbLost' = FALSE /\ UNCHANGED failures
       \/ QuickBooksFails /\ UNCHANGED qbLost
    /\ UNCHANGED <<coreState, polling, advertised, commands, replies, phase, received, gone,
                   restarts, outages, hasty>>

RunClearDataVector ==
    /\ up
    /\ ClearDataVector
    /\ gone' = gone \union ToSet(dataEvents)
    /\ UNCHANGED <<coreState, polling, advertised, commands, replies, phase, received, qbLost,
                   restarts, outages, failures, hasty>>

RunClearNewVector ==
    /\ up
    /\ ClearNewVector
    /\ Answer({})
    /\ UNCHANGED <<coreState, polling, advertised, phase, received, gone, qbLost, restarts, outages,
                   failures, hasty>>

-----------------------------------------------------------------------------
(* Between two commands of the server's the request thread, or the start   *)
(* of the core, asks QuickBooks or the server which company this is:       *)
(* GetInfoFromQB sets the signal when there is one and resets it when      *)
(* there is none, RegisterConnector resets it and sets it again only on a  *)
(* good answer.  Whether it is good is not for the core to say.            *)
CheckCompany ==
    /\ up
    /\ clearing = "no"
    /\ ready' = ~ready
    /\ UNCHANGED <<bufferVars, up, offline, polling, advertised, commands, replies, phase,
                   received, gone, qbLost, restarts, outages, failures, hasty>>

(* StopConcert begins: the thread is let out of its wait and finds the     *)
(* core offline, unless it had looked already.                             *)
GoOffline ==
    /\ up
    /\ ~offline
    /\ restarts < MaxRestarts
    /\ offline' = TRUE
    /\ ready' = TRUE
    /\ UNCHANGED <<bufferVars, up, polling, advertised, commands, replies, phase, received,
                   gone, qbLost, restarts, outages, failures, hasty>>

(* The core process ends.  Its queues go with it, and so does its poll; the *)
(* reply being posted may still arrive.                                     *)
CoreEnds ==
    /\ up
    /\ restarts < MaxRestarts
    /\ restarts' = restarts + 1
    /\ up' = FALSE
    /\ ready' = FALSE
    /\ offline' = FALSE
    /\ Restart
    /\ commands' = <<>>
    /\ replies' \in {r \in Prefixes(replies) : Len(r) <= 1}
    /\ polling' = FALSE
    /\ gone' = gone \union ToSet(dataEvents)
    /\ UNCHANGED <<advertised, phase, received, qbLost, outages, failures, hasty>>

CoreStarts ==
    /\ ~up
    /\ up' = TRUE
    /\ UNCHANGED <<bufferVars, ready, offline, polling, advertised, commands, replies, phase, received, gone,
                   qbLost, restarts, outages, failures, hasty>>

RequestThread ==
    \/ RunGetEvents \/ RunClearEvents \/ RunQueryLost
    \/ RunBeginClearLost \/ RunDeleteLost \/ RunClearDataVector \/ RunClearNewVector
    \/ RunClearLostTooLate

SyncNext ==
    \/ \E e \in Events : Forward(e) \/ Drop(e)
    \/ QuickBooksOutage
    \/ PollTimeout \/ PollFails
    \/ AskForEvents \/ AskToClear \/ AskToRecover
    \/ ReplyArrives \/ ReplyLost
    \/ Poll
    \/ RequestThread
    \/ CheckCompany \/ GoOffline
    \/ CoreEnds \/ CoreStarts

SyncSafety == SyncInit /\ [][SyncNext]_allVars

(* Threads that are not blocked run; SetEvent lets out a thread that waits *)
(* even when the signal is reset at once, and the core that is not offline *)
(* polls then.  Nothing is assumed of the signal itself.  Of the network   *)
(* only this: a command sent again and again gets through, and so does a   *)
(* reply.  Of the server: from some time on (MaxHasty) it repeats a        *)
(* command only when the command or its reply is lost.                     *)
Delivered(Ask) == Ask /\ commands' # NoLongerCurrent(commands)

SyncSpec ==
    /\ SyncSafety
    /\ WF_allVars(RequestThread)
    /\ SF_allVars(Poll /\ ~offline)
    /\ WF_allVars(CoreStarts)
    /\ WF_allVars(PollTimeout \/ PollFails)
    /\ SF_allVars(Delivered(AskForEvents))
    /\ SF_allVars(Delivered(AskToClear))
    /\ SF_allVars(Delivered(AskToRecover))
    /\ SF_allVars(ReplyArrives /\ Head(replies).current)
    /\ WF_allVars(ReplyArrives)
    /\ SF_allVars(PollTimeout)

-----------------------------------------------------------------------------
(* Every event QuickBooks delivered is held by the core, stored by the     *)
(* server or given up as a whole by a restart or a recovery: no loss of a  *)
(* command or a reply, no repetition and no event arriving between two     *)
(* commands makes clear_events drop an event the server does not have.     *)
NoEventForgotten ==
    arrived \subseteq ToSet(dataEvents) \union received \union gone

(* The event path keeps the promise of EventCustody. *)
Custody == INSTANCE EventCustody WITH held <- ToSet(dataEvents)
ImplementsCustody == Custody!Spec

(* A core that no longer polls: it waits for a signal that never comes, or *)
(* its end has begun and does not come.  The server is told nothing more.  *)
KeptOff == up /\ (~ready \/ offline)

(* An event held by the core gets to the server, or is given up, unless    *)
(* the core is kept off for ever.                                          *)
EventsGetThrough ==
    \/ <>[]KeptOff
    \/ \A e \in Events :
          e \in ToSet(dataEvents) ~> e \in received \union gone

(* The server learns of an outage of QuickBooks and orders the recovery,   *)
(* which deletes QuickBooks' record of it, unless the core is kept off.    *)
OutagesGetThrough == <>[]KeptOff \/ (qbLost ~> ~qbLost)
=============================================================================
