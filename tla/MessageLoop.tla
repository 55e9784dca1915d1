----------------------------- MODULE MessageLoop -----------------------------
(***************************************************************************)
(* A thread that runs CMessageLoop (WTL), with the filter and the idle     *)
(* handler that both loops of the core install: the filter resets the      *)
(* thread's `signal` for every message taken, the idle handler sets it     *)
(* when the loop finds its queue empty.  Threads that post first wait for  *)
(* the signal.  It is a manual-reset event: until the loop takes the first *)
(* message the signal stays set and anybody may post behind it.            *)
(*                                                                         *)
(* The wait and the post are one step.  That loses nothing: a thread that  *)
(* is delayed between the two posts to the queue as it would have before.  *)
(***************************************************************************)
EXTENDS Naturals, Sequences

CONSTANTS
    Loops,      \* the threads that run a message loop
    Messages,   \* what may be posted to them
    Quit        \* WM_QUIT, not one of them

VARIABLES
    queue,      \* the thread's message queue
    signal,     \* the thread's event: "send me something"
    loop,       \* where the loop stands
    hand        \* the message being handled, <<>> if there is none

loopVars == <<queue, signal, loop, hand>>

\* top: about to look whether the queue is empty;  blocked: in GetMessage
LoopStates == {"top", "blocked", "busy", "exit"}

LoopTypeOK ==
    /\ queue \in [Loops -> Seq(Messages \union {Quit})]
    /\ signal \in [Loops -> BOOLEAN]
    /\ loop \in [Loops -> LoopStates]
    /\ hand \in [Loops -> {<<>>} \union {<<m>> : m \in Messages}]
    /\ \A t \in Loops : loop[t] = "busy" <=> hand[t] # <<>>

\* As StartConcert leaves it: it waits until each loop has been idle once.
LoopInit ==
    /\ queue = [t \in Loops |-> <<>>]
    /\ signal = [t \in Loops |-> TRUE]
    /\ loop = [t \in Loops |-> "blocked"]
    /\ hand = [t \in Loops |-> <<>>]

(* WaitForSingleObject(signal, INFINITE), then PostThreadMessage. *)
WaitAndPost(t, m) ==
    /\ signal[t]
    /\ queue' = [queue EXCEPT ![t] = Append(@, m)]

(* WM_QUIT is posted without asking. *)
PostQuit(t) ==
    /\ queue' = [queue EXCEPT ![t] = Append(@, Quit)]
    /\ UNCHANGED <<signal, loop, hand>>

\* Fault: the idle handler does not set the event.
IdleQuietly(t) ==
    /\ loop[t] = "top"
    /\ queue[t] = <<>>
    /\ loop' = [loop EXCEPT ![t] = "blocked"]
    /\ UNCHANGED <<queue, signal, hand>>

(* The queue is empty: the idle handler runs, then GetMessage blocks. *)
Idle(t) ==
    /\ loop[t] = "top"
    /\ queue[t] = <<>>
    /\ signal' = [signal EXCEPT ![t] = TRUE]
    /\ loop' = [loop EXCEPT ![t] = "blocked"]
    /\ UNCHANGED <<queue, hand>>

(* GetMessage returns a message; the filter comes before its handler. *)
Take(t) ==
    /\ loop[t] \in {"top", "blocked"}
    /\ queue[t] # <<>>
    /\ Head(queue[t]) # Quit
    /\ queue' = [queue EXCEPT ![t] = Tail(@)]
    /\ hand' = [hand EXCEPT ![t] = <<Head(queue[t])>>]
    /\ signal' = [signal EXCEPT ![t] = FALSE]
    /\ loop' = [loop EXCEPT ![t] = "busy"]

(* GetMessage returns WM_QUIT: the loop ends before the filter is asked. *)
TakeQuit(t) ==
    /\ loop[t] \in {"top", "blocked"}
    /\ queue[t] # <<>>
    /\ Head(queue[t]) = Quit
    /\ queue' = [queue EXCEPT ![t] = Tail(@)]
    /\ loop' = [loop EXCEPT ![t] = "exit"]
    /\ UNCHANGED <<signal, hand>>

(* The handler of the message in hand is through (the caller conjoins what *)
(* it posts).                                                              *)
Finish(t) ==
    /\ loop[t] = "busy"
    /\ hand' = [hand EXCEPT ![t] = <<>>]
    /\ loop' = [loop EXCEPT ![t] = "top"]
    /\ UNCHANGED signal
=============================================================================
