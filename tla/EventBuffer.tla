----------------------------- MODULE EventBuffer -----------------------------
(***************************************************************************)
(* The data events QuickBooks raised and the web server has not taken yet, *)
(* as the core process keeps them: two vectors of the Orchestrator, filled *)
(* by the main thread and emptied by the request thread.  dataEvents is    *)
(* everything the server may still need; newDataEvents is what arrived     *)
(* since the server last asked for the events.                             *)
(*                                                                         *)
(* mutexDataEvents makes PushEvent, GetEvents and ClearEvents single       *)
(* steps.  The handler of "qb clear_lost_data_events" takes no lock, so    *)
(* each of its effects is a step of its own.                               *)
(***************************************************************************)
EXTENDS Naturals, SequencesExt

CONSTANTS
    Events      \* the data events (their XML), each raised once by QuickBooks

VARIABLES
    dataEvents,     \* Orchestrator::dataEvents
    newDataEvents,  \* Orchestrator::newDataEvents
    lostDataEvents, \* Orchestrator::lostDataEvents
    clearing,       \* how far the handler of clear_lost_data_events has come
    arrived,        \* history: events pushed in the life of the system
    reported,       \* history: events some get_events reply has listed
    slipped         \* history: events pushed between the two unlocked clears

bufferVars == <<dataEvents, newDataEvents, lostDataEvents, clearing,
                arrived, reported, slipped>>

Clearing == {"no", "deleting", "clearData", "clearNew"}

TypeOK ==
    /\ dataEvents \in Seq(Events)
    /\ newDataEvents \in Seq(Events)
    /\ lostDataEvents \in BOOLEAN
    /\ clearing \in Clearing
    /\ arrived \subseteq Events
    /\ reported \subseteq Events
    /\ slipped \subseteq Events

Init ==
    /\ dataEvents = <<>>
    /\ newDataEvents = <<>>
    /\ lostDataEvents = FALSE
    /\ clearing = "no"
    /\ arrived = {}
    /\ reported = {}
    /\ slipped = {}

-----------------------------------------------------------------------------
(* Fault: the push to dataEvents is forgotten. *)
PushEventOnce(e) ==
    /\ e \notin arrived
    /\ newDataEvents' = Append(newDataEvents, e)
    /\ arrived' = arrived \union {e}
    /\ slipped' = IF clearing = "clearNew" THEN slipped \union {e} ELSE slipped
    /\ UNCHANGED <<dataEvents, lostDataEvents, clearing, reported>>

(* Fault: the message is kept with its prefix. *)
PushEventWithPrefix(e) ==
    /\ e \notin arrived
    /\ dataEvents' = Append(dataEvents, <<"qbeventsxml:", e>>)
    /\ newDataEvents' = Append(newDataEvents, <<"qbeventsxml:", e>>)
    /\ arrived' = arrived \union {e}
    /\ slipped' = IF clearing = "clearNew" THEN slipped \union {e} ELSE slipped
    /\ UNCHANGED <<lostDataEvents, clearing, reported>>

(* Main thread: the shell forwards an event as WM_COPYDATA "qbeventsxml:". *)
PushEvent(e) ==
    /\ e \notin arrived
    /\ dataEvents' = Append(dataEvents, e)
    /\ newDataEvents' = Append(newDataEvents, e)
    /\ arrived' = arrived \union {e}
    /\ slipped' = IF clearing = "clearNew" THEN slipped \union {e} ELSE slipped
    /\ UNCHANGED <<lostDataEvents, clearing, reported>>

(* Fault: the wrong vector starts afresh. *)
GetEventsAndForget ==
    /\ clearing = "no"
    /\ dataEvents' = <<>>
    /\ reported' = reported \union ToSet(dataEvents)
    /\ UNCHANGED <<newDataEvents, lostDataEvents, clearing, arrived, slipped>>

(* Request thread, "get_events": the reply lists dataEvents. *)
GetEvents ==
    /\ clearing = "no"
    /\ newDataEvents' = <<>>
    /\ reported' = reported \union ToSet(dataEvents)
    /\ UNCHANGED <<dataEvents, lostDataEvents, clearing, arrived, slipped>>

(* Fault: nothing is put back after the clear. *)
ClearAllEvents ==
    /\ clearing = "no"
    /\ dataEvents' = <<>>
    /\ UNCHANGED <<newDataEvents, lostDataEvents, clearing, arrived, reported, slipped>>

(* Fault: the insert is not preceded by a clear. *)
ClearByInsert ==
    /\ clearing = "no"
    /\ dataEvents' = dataEvents \o newDataEvents
    /\ UNCHANGED <<newDataEvents, lostDataEvents, clearing, arrived, reported, slipped>>

(* Request thread, "clear_events". *)
ClearEvents ==
    /\ clearing = "no"
    /\ dataEvents' = newDataEvents
    /\ UNCHANGED <<newDataEvents, lostDataEvents, clearing, arrived, reported, slipped>>

(* Request thread, "query_lost_data_events": QuickBooks says whether it kept *)
(* events it could not deliver.                                              *)
QueryLost(found) ==
    /\ clearing = "no"
    /\ lostDataEvents' = found
    /\ UNCHANGED <<dataEvents, newDataEvents, clearing, arrived, reported, slipped>>

(* Request thread, "qb clear_lost_data_events": the flag, then the request *)
(* to QuickBooks, then each vector.                                        *)
BeginClearLost ==
    /\ clearing = "no"
    /\ clearing' = "deleting"
    /\ lostDataEvents' = FALSE
    /\ UNCHANGED <<dataEvents, newDataEvents, arrived, reported, slipped>>

DeleteLost ==
    /\ clearing = "deleting"
    /\ clearing' = "clearData"
    /\ UNCHANGED <<dataEvents, newDataEvents, lostDataEvents, arrived, reported, slipped>>

ClearDataVector ==
    /\ clearing = "clearData"
    /\ clearing' = "clearNew"
    /\ dataEvents' = <<>>
    /\ UNCHANGED <<newDataEvents, lostDataEvents, arrived, reported, slipped>>

ClearNewVector ==
    /\ clearing = "clearNew"
    /\ clearing' = "no"
    /\ newDataEvents' = <<>>
    /\ UNCHANGED <<dataEvents, lostDataEvents, arrived, reported, slipped>>

(* The core process ends, by a crash (a push that overlaps an unlocked     *)
(* clear may corrupt the vector and be one) or a shutdown, and a new one   *)
(* takes over: nothing of the buffer is on disk.                           *)
Restart ==
    /\ dataEvents' = <<>>
    /\ newDataEvents' = <<>>
    /\ lostDataEvents' = FALSE
    /\ clearing' = "no"
    /\ UNCHANGED <<arrived, reported, slipped>>

Next ==
    \/ \E e \in Events : PushEvent(e)
    \/ GetEvents
    \/ ClearEvents
    \/ \E found \in BOOLEAN : QueryLost(found)
    \/ BeginClearLost
    \/ DeleteLost
    \/ ClearDataVector
    \/ ClearNewVector
    \/ Restart

Spec == Init /\ [][Next]_bufferVars

-----------------------------------------------------------------------------
(* "Events to be sent to the app server for later" (newDataEvents) are the *)
(* tail of dataEvents whenever the request thread can serve a command, so  *)
(* that clear_events, which keeps exactly them, keeps a contiguous tail in *)
(* order.  Inside the unlocked clears it is the other way round.           *)
LaterEventsAreTail ==
    IF clearing = "clearNew"
    THEN IsSuffix(dataEvents, newDataEvents)
    ELSE IsSuffix(newDataEvents, dataEvents)

(* What precedes the tail was listed in a get_events reply, or slipped in  *)
(* between the two unlocked clears.  This is why clear_events may drop it. *)
HeadWasReported ==
    clearing # "clearNew" =>
        \A i \in 1 .. Len(dataEvents) - Len(newDataEvents) :
            dataEvents[i] \in reported \union slipped

(* An event that clear_events removes was listed in a reply before, unless *)
(* it arrived between the two unlocked clears of clear_lost_data_events.   *)
(* The server's two commands may come in any order and any number.         *)
ClearDropsOnlyReported ==
    [][ClearEvents =>
         ToSet(dataEvents) \ ToSet(dataEvents') \subseteq reported \union slipped]_bufferVars
=============================================================================
