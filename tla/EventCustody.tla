---------------------------- MODULE EventCustody ----------------------------
(***************************************************************************)
(* What the event path promises, without vectors, commands or replies: an  *)
(* event QuickBooks delivered is held until the server has it.  Only a     *)
(* wholesale loss (the core process ends, or the server orders the         *)
(* recovery of lost events) gives an event up, and an event that was       *)
(* missed because no core was running never enters custody.                *)
(***************************************************************************)
CONSTANTS
    Events      \* the data events

VARIABLES
    held,       \* events in the core's keeping
    received,   \* events the server has stored
    gone        \* events given up or never taken into custody

custodyVars == <<held, received, gone>>

Init ==
    /\ held = {}
    /\ received = {}
    /\ gone = {}

(* A new event is taken into custody. *)
Accept(e) ==
    /\ e \notin held \union received \union gone
    /\ held' = held \union {e}
    /\ UNCHANGED <<received, gone>>

(* An event finds no core to take it. *)
Miss(e) ==
    /\ e \notin held \union received \union gone
    /\ gone' = gone \union {e}
    /\ UNCHANGED <<held, received>>

(* The server stores events it was told of; the report may come late. *)
Store(S) ==
    /\ S \subseteq held \union gone \union received
    /\ received' = received \union S
    /\ UNCHANGED <<held, gone>>

(* The core lets go of events, all of which the server has. *)
Release(S) ==
    /\ S \subseteq held \intersect received
    /\ held' = held \ S
    /\ UNCHANGED <<received, gone>>

(* The core ends, or recovery makes it start afresh: it gives up all it    *)
(* holds.                                                                  *)
GiveUp ==
    /\ held' = {}
    /\ gone' = gone \union held
    /\ UNCHANGED received

Next ==
    \/ \E e \in Events : Accept(e) \/ Miss(e)
    \/ \E S \in SUBSET Events : Store(S) \/ Release(S)
    \/ GiveUp

Spec == Init /\ [][Next]_custodyVars
=============================================================================
