--------------------------- MODULE CommandService ---------------------------
(***************************************************************************)
(* What the core promises the web server about its commands, without       *)
(* threads, queues or events: it takes commands until it is told to stop,  *)
(* answers each once and in the order of arrival, and ends only when it    *)
(* owes no answer.                                                         *)
(***************************************************************************)
EXTENDS Naturals, Sequences

VARIABLES
    accepted,   \* the number of commands taken; a command's key is its number
    answered,   \* the keys answered, in order
    phase       \* "open", "draining" or "stopped"

serviceVars == <<accepted, answered, phase>>

Init ==
    /\ accepted = 0
    /\ answered = <<>>
    /\ phase = "open"

(* A command is taken from the server. *)
Accept ==
    /\ phase = "open"
    /\ accepted' = accepted + 1
    /\ UNCHANGED <<answered, phase>>

(* The oldest command that was not answered is. *)
Answer ==
    /\ phase # "stopped"
    /\ Len(answered) < accepted
    /\ answered' = Append(answered, Len(answered) + 1)
    /\ UNCHANGED <<accepted, phase>>

(* No more commands are taken. *)
Drain ==
    /\ phase = "open"
    /\ phase' = "draining"
    /\ UNCHANGED <<accepted, answered>>

Stop ==
    /\ phase = "draining"
    /\ Len(answered) = accepted
    /\ phase' = "stopped"
    /\ UNCHANGED <<accepted, answered>>

Next == Accept \/ Answer \/ Drain \/ Stop

Spec == Init /\ [][Next]_serviceVars
=============================================================================
