--------------------------- MODULE MCCorePipeline ---------------------------
(* Checks CorePipeline; a configuration chooses the kinds of command. *)
EXTENDS CorePipeline

\* Commands on the QuickBooks session, one that may take the long poll off, and
\* one that closes the core.
SessionKinds == {"startsession", "qb", "endsession", "sync", "quit"}

\* Commands that make one thread depend on another.
BlockingKinds == {"versions", "browser", "sync", "quit"}
=============================================================================
