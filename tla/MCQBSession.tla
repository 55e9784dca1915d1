----------------------------- MODULE MCQBSession -----------------------------
(* Checks QBSession; the configurations give tickets and bounds. *)
EXTENDS QBSession

(* Of the tickets that are free QuickBooks gives always the same one: with  *)
(* another in its place the core would do the same.                        *)
FirstFree ==
    \A given \in sessions' \ sessions :
        given = CHOOSE ticket \in Tickets \ (sessions \union {wrapper[n].ticket : n \in Names}) :
                    TRUE
=============================================================================
