---------------------------- MODULE WatchdogProofs ----------------------------
(***************************************************************************)
(* Proofs about Watchdog, for any number of companies, crashes and         *)
(* commands.                                                               *)
(***************************************************************************)
EXTENDS Watchdog, TLAPS

(* Every variable keeps to its type.                                       *)
THEOREM TypeCorrect == Spec => []TypeOK
<1>1. Init => TypeOK
  <2>1. 0 \in 0 .. MaxOpens /\ 0 \in 0 .. MaxCrashes /\ 0 \in 0 .. MaxCommands
    BY WatchdogAssumption DEF WatchdogAssumption
  <2>2. QED
    BY <2>1, Zenon DEF Init, TypeOK, ShellStates, WatchStates, CoreStates, Handlers
<1>2. TypeOK /\ [Next]_vars => TypeOK'
  <2> SUFFICES ASSUME TypeOK, [Next]_vars PROVE TypeOK'
    OBVIOUS
  <2> USE DEF TypeOK, ShellStates, WatchStates, CoreStates, Handlers,
              shellVars, flags, watchVars, coreVars, history
  <2>1. CASE OpenStarts
    BY <2>1, WatchdogAssumption DEF WatchdogAssumption, OpenStarts
  <2>2. CASE OpenRefreshes
    BY <2>2, WatchdogAssumption DEF WatchdogAssumption, OpenRefreshes
  <2>3. CASE Close
    BY <2>3 DEF Close
  <2>4. CASE SendFails
    BY <2>4 DEF SendFails
  <2>5. CASE JoinWatchingThread
    BY <2>5 DEF JoinWatchingThread, PostClose
  <2>6. CASE CloseDialog
    <3>1. /\ closePosted' \in BOOLEAN
          /\ shellWindow' \in BOOLEAN
          /\ quitPosted' \in BOOLEAN
      BY <2>6, Zenon DEF CloseDialog
    <3>2. QED  BY <2>6, <3>1 DEF CloseDialog
  <2>7. CASE Leave
    BY <2>7 DEF Leave
  <2>8. CASE SettingsAccepted
    BY <2>8 DEF SettingsAccepted
  <2>9. CASE SettingsDisabled
    BY <2>9 DEF SettingsDisabled, PostClose
  <2>10. CASE SettingsMissing
    BY <2>10 DEF SettingsMissing
  <2>11. CASE Download
    BY <2>11 DEF Download
  <2>12. CASE StartBrainProcess
    <3>1. /\ spawned' \in BOOLEAN
          /\ told' \in BOOLEAN
          /\ coreClosing' \in BOOLEAN
          /\ abrupt' \in BOOLEAN
          /\ late' \in BOOLEAN
          /\ inJob' \in BOOLEAN
      BY <2>12, Zenon DEF StartBrainProcess
    <3>2. QED  BY <2>12, <3>1 DEF StartBrainProcess
  <2>13. CASE StartFails
    <3>1. /\ spawned' \in BOOLEAN
          /\ closePosted' \in BOOLEAN
      BY <2>13, Zenon DEF StartFails, PostClose
    <3>2. QED  BY <2>13, <3>1 DEF StartFails, PostClose
  <2>14. CASE CoreEnded
    BY <2>14 DEF CoreEnded
  <2>15. CASE StopWatching
    <3>1. /\ threadID' \in BOOLEAN
      BY <2>15, Zenon DEF StopWatching
    <3>2. QED  BY <2>15, <3>1 DEF StopWatching
  <2>16. CASE KeepWatching
    BY <2>16 DEF KeepWatching
  <2>17. CASE UpdateDone
    <3>1. /\ updateRequested' \in BOOLEAN
      BY <2>17, Zenon DEF UpdateDone
    <3>2. QED  BY <2>17, <3>1 DEF UpdateDone
  <2>18. CASE AnswerYes
    BY <2>18 DEF AnswerYes
  <2>19. CASE AnswerNo
    BY <2>19 DEF AnswerNo, PostClose
  <2>20. CASE CoreLoads
    BY <2>20 DEF CoreLoads
  <2>21. CASE CoreGreeted
    BY <2>21 DEF CoreGreeted
  <2>22. CASE CoreGetsRefresh
    BY <2>22 DEF CoreGetsRefresh
  <2>23. CASE CoreRefreshed
    BY <2>23 DEF CoreRefreshed
  <2>24. CASE CoreGetsRefreshTooEarly
    BY <2>24 DEF CoreGetsRefreshTooEarly
  <2>25. CASE CoreGetsShutdown
    BY <2>25 DEF CoreGetsShutdown
  <2>26. CASE CoreGetsShutdownTooEarly
    BY <2>26 DEF CoreGetsShutdownTooEarly
  <2>27. CASE CoreCloses
    BY <2>27 DEF CoreCloses
  <2>28. CASE CoreTells
    <3>1. /\ goOffline' \in BOOLEAN
          /\ closePosted' \in BOOLEAN
          /\ asked' \in BOOLEAN
      BY <2>28, Zenon DEF CoreTells, ShellGetsShutdown
    <3>2. QED  BY <2>28, <3>1 DEF CoreTells, ShellGetsShutdown
  <2>29. CASE CoreExits
    BY <2>29 DEF CoreExits
  <2>30. CASE CoreCrashes
    BY <2>30, WatchdogAssumption DEF WatchdogAssumption, CoreCrashes
  <2>31. CASE RequestBegins
    BY <2>31, WatchdogAssumption DEF WatchdogAssumption, RequestBegins
  <2>32. CASE RequestQuit
    <3>1. /\ goOffline' \in BOOLEAN
          /\ closePosted' \in BOOLEAN
          /\ asked' \in BOOLEAN
          /\ coreClosing' \in BOOLEAN
      BY <2>32, Zenon DEF RequestQuit, ShellGetsShutdown
    <3>2. QED  BY <2>32, <3>1 DEF RequestQuit, ShellGetsShutdown
  <2>33. CASE RequestUpdate
    BY <2>33 DEF RequestUpdate
  <2>34. CASE UNCHANGED vars
    BY <2>34 DEF vars
  <2>35. CASE CoreGivesUp
    BY <2>35, WatchdogAssumption DEF WatchdogAssumption, CoreGivesUp
  <2>36. CASE RequestBrowser
    BY <2>36 DEF RequestBrowser
  <2>37. CASE RequestInfo
    BY <2>37 DEF RequestInfo
  <2>38. QED
    BY <2>1, <2>2, <2>3, <2>4, <2>5, <2>6, <2>7, <2>8, <2>9, <2>10, <2>11, <2>12,
       <2>13, <2>14, <2>15, <2>16, <2>17, <2>18, <2>19, <2>20, <2>21, <2>22, <2>23,
       <2>24, <2>25, <2>26, <2>27, <2>28, <2>29, <2>30, <2>31, <2>32, <2>33, <2>34,
       <2>35, <2>36, <2>37
       DEF Next, WatchingThread, Core, Request
<1>3. QED  BY <1>1, <1>2, PTL DEF Spec

-----------------------------------------------------------------------------
(* A core runs only while the watching thread waits for its end, or if the *)
(* shell has ended without it, and that thread has its id until it ends.   *)
CoreIsWatched ==
    /\ core # "none" => watch = "wait" \/ shell = "gone"
    /\ watch # "none" => threadID

(* The shell's window goes, and the shell ends, only after WM_QUIT has been *)
(* posted, and with the shell everything ends but a core outside its job.  *)
ShellEnds ==
    /\ ~shellWindow => quitPosted
    /\ shell = "gone" => quitPosted /\ watch = "none" /\ (core = "none" \/ ~inJob)
    /\ killed => shell = "gone"

(* Whoever brings the core or the shell down has told the watching thread. *)
EndIsAnnounced ==
    /\ shell \in {"shutdown", "join"} => goOffline
    /\ asked \/ told => goOffline

(* While a core runs nobody closes the shell but this core.                *)
ShellCloseIsAsked ==
    core # "none" /\ (closePosted \/ quitPosted) => asked \/ late

(* A core that ends or has ended has a reason the watching thread will     *)
(* find, or it has crashed, or there is no watching thread anymore.        *)
CoreEndHasReason ==
    \/ goOffline \/ updateRequested \/ late \/ shell = "gone"
    \/ /\ core \notin {"ending", "hung"}
       /\ abrupt \/ ~(watch = "check" \/ (watch = "wait" /\ core = "none"))

(* When QuickBooks has closed, the watching thread has been told, and the   *)
(* shell will find WM_QUIT as soon as it is back in its loop.  What is      *)
(* posted to a window finds it there, and the shell waits for the core it   *)
(* has sent a refresh to.                                                   *)
CloseFits ==
    /\ closed => goOffline /\ (shell \in {"loop", "refresh"} => quitPosted)
    /\ closePosted => shellWindow
    /\ told => coreClosing
    /\ core = "refreshing" => shell = "refresh"

Parts ==
    /\ CloseFits
    /\ CoreIsWatched /\ ShellEnds /\ EndIsAnnounced /\ ShellCloseIsAsked /\ CoreEndHasReason
    /\ PromptOnlyAfterCrash /\ CloseKillsNoCore /\ ShellOutlivesWatchingThread

IInv == TypeOK /\ Parts

(* The inductive invariant holds in every behaviour.                       *)
THEOREM Inductive == Spec => []IInv
<1>1. Init => Parts
  BY DEF Init, Parts, CloseFits, CoreIsWatched, ShellEnds, EndIsAnnounced, ShellCloseIsAsked,
         CoreEndHasReason, PromptOnlyAfterCrash, CloseKillsNoCore, ShellOutlivesWatchingThread
<1>2. TypeOK /\ Parts /\ [Next]_vars => Parts'
  <2> SUFFICES ASSUME TypeOK, Parts, [Next]_vars PROVE Parts'
    OBVIOUS
  <2> USE DEF TypeOK, Parts, CloseFits, CoreIsWatched, ShellEnds, EndIsAnnounced, ShellCloseIsAsked,
              CoreEndHasReason, PromptOnlyAfterCrash, CloseKillsNoCore,
              ShellOutlivesWatchingThread,
              shellVars, flags, watchVars, coreVars, history
  <2>1. CASE OpenStarts
    BY <2>1 DEF OpenStarts
  <2>2. CASE OpenRefreshes
    BY <2>2 DEF OpenRefreshes
  <2>3. CASE Close
    BY <2>3 DEF Close
  <2>4. CASE SendFails
    BY <2>4 DEF SendFails, CoreWindow
  <2>5. CASE JoinWatchingThread
    BY <2>5 DEF JoinWatchingThread, PostClose
  <2>6. CASE CloseDialog
    BY <2>6 DEF CloseDialog
  <2>7. CASE Leave
    BY <2>7 DEF Leave
  <2>8. CASE SettingsAccepted
    BY <2>8 DEF SettingsAccepted
  <2>9. CASE SettingsDisabled
    BY <2>9 DEF SettingsDisabled, PostClose
  <2>10. CASE SettingsMissing
    BY <2>10 DEF SettingsMissing
  <2>11. CASE Download
    BY <2>11 DEF Download
  <2>12. CASE StartBrainProcess
    BY <2>12 DEF StartBrainProcess
  <2>13. CASE StartFails
    BY <2>13 DEF StartFails, PostClose
  <2>14. CASE CoreEnded
    BY <2>14 DEF CoreEnded
  <2>15. CASE StopWatching
    BY <2>15 DEF StopWatching
  <2>16. CASE KeepWatching
    BY <2>16 DEF KeepWatching
  <2>17. CASE UpdateDone
    BY <2>17 DEF UpdateDone
  <2>18. CASE AnswerYes
    BY <2>18 DEF AnswerYes
  <2>19. CASE AnswerNo
    BY <2>19 DEF AnswerNo, PostClose
  <2>20. CASE CoreLoads
    BY <2>20 DEF CoreLoads
  <2>21. CASE CoreGreeted
    BY <2>21 DEF CoreGreeted
  <2>22. CASE CoreGetsRefresh
    BY <2>22 DEF CoreGetsRefresh
  <2>23. CASE CoreRefreshed
    BY <2>23 DEF CoreRefreshed
  <2>24. CASE CoreGetsRefreshTooEarly
    BY <2>24 DEF CoreGetsRefreshTooEarly
  <2>25. CASE CoreGetsShutdown
    BY <2>25 DEF CoreGetsShutdown
  <2>26. CASE CoreGetsShutdownTooEarly
    BY <2>26 DEF CoreGetsShutdownTooEarly
  <2>27. CASE CoreCloses
    BY <2>27 DEF CoreCloses
  <2>28. CASE CoreTells
    BY <2>28 DEF CoreTells, ShellGetsShutdown
  <2>29. CASE CoreExits
    BY <2>29 DEF CoreExits
  <2>30. CASE CoreCrashes
    BY <2>30 DEF CoreCrashes
  <2>31. CASE RequestBegins
    BY <2>31 DEF RequestBegins
  <2>32. CASE RequestQuit
    BY <2>32 DEF RequestQuit, ShellGetsShutdown
  <2>33. CASE RequestUpdate
    BY <2>33 DEF RequestUpdate
  <2>34. CASE UNCHANGED vars
    BY <2>34 DEF vars
  <2>35. CASE CoreGivesUp
    BY <2>35 DEF CoreGivesUp
  <2>36. CASE RequestBrowser
    BY <2>36 DEF RequestBrowser
  <2>37. CASE RequestInfo
    BY <2>37 DEF RequestInfo
  <2>38. QED
    BY <2>1, <2>2, <2>3, <2>4, <2>5, <2>6, <2>7, <2>8, <2>9, <2>10, <2>11, <2>12,
       <2>13, <2>14, <2>15, <2>16, <2>17, <2>18, <2>19, <2>20, <2>21, <2>22, <2>23,
       <2>24, <2>25, <2>26, <2>27, <2>28, <2>29, <2>30, <2>31, <2>32, <2>33, <2>34,
       <2>35, <2>36, <2>37
       DEF Next, WatchingThread, Core, Request
<1>3. QED  BY <1>1, <1>2, TypeCorrect, PTL DEF Spec, IInv

-----------------------------------------------------------------------------
(* The shell asks about an incorrect shutdown only after a crash.          *)
THEOREM PromptCorrect == Spec => []PromptOnlyAfterCrash
<1>1. IInv => PromptOnlyAfterCrash
  BY DEF IInv, Parts
<1>2. QED  BY <1>1, Inductive, PTL

(* The end of the shell cuts no core short that has not asked for it.      *)
THEOREM CloseSpares == Spec => []CloseKillsNoCore
<1>1. IInv => CloseKillsNoCore
  BY DEF IInv, Parts
<1>2. QED  BY <1>1, Inductive, PTL

(* A shell whose watching thread has given up is about to end.             *)
THEOREM NoIdleShell == Spec => []ShellOutlivesWatchingThread
<1>1. IInv => ShellOutlivesWatchingThread
  BY DEF IInv, Parts
<1>2. QED  BY <1>1, Inductive, PTL

(* The shell never starts a second core.                                   *)
THEOREM SingleCore == Spec => OneCore
<1>1. IInv /\ [Next]_vars => [StartBrainProcess => core = "none"]_vars
  BY DEF IInv, Parts, CoreIsWatched, ShellEnds, StartBrainProcess
<1>2. QED  BY <1>1, Inductive, PTL DEF Spec, OneCore

-----------------------------------------------------------------------------
(* Once QuickBooks has closed the company somebody can get on until the    *)
(* shell has ended, but in the known hangs.                                *)
THEOREM NoOtherDeadlock == Spec => []OnlyKnownDeadlocks
<1>1. IInv => OnlyKnownDeadlocks
  <2> SUFFICES ASSUME IInv, closed, shell # "gone" PROVE
        ShellMoves \/ WatchingThreadMoves \/ CoreMoves \/ RequestMoves \/ KnownHang
    BY DEF OnlyKnownDeadlocks
  <2> USE DEF IInv, TypeOK, Parts, CloseFits, CoreIsWatched, ShellStates, WatchStates,
              CoreStates, Handlers, ShellMoves, WatchingThreadMoves, CoreMoves, RequestMoves,
              ShellAnswers, CoreWindow, KnownHang
  <2>1. CASE shell = "loop"
    BY <2>1
  <2>2. CASE shell \in {"refresh", "shutdown"}
    BY <2>2
  <2>3. CASE shell = "join" /\ core = "none"
    BY <2>3
  <2>4. CASE shell = "join" /\ core # "none"
    BY <2>4
  <2>5. QED  BY <2>1, <2>2, <2>3, <2>4
<1>2. QED  BY <1>1, Inductive, PTL

(* With every step of anybody, a crash or a command of the server included, *)
(* a shell that closes has less left to do.                                *)
THEOREM EachStepNearsTheEnd == Spec => ClosingUsesUpWork
<1>1. IInv /\ [Next]_vars => [closed => Work' < Work]_vars
  <2> SUFFICES ASSUME IInv, Next, closed PROVE Work' < Work
    OBVIOUS
  <2> USE DEF IInv, TypeOK, Parts, CloseFits, CoreIsWatched, ShellStates, WatchStates,
              CoreStates, Work, CoreWork, WatchWork, ShellWork,
              shellVars, flags, watchVars, coreVars, history
  <2> USE WatchdogAssumption DEF WatchdogAssumption
  <2>1. CASE OpenStarts
    BY <2>1 DEF OpenStarts
  <2>2. CASE OpenRefreshes
    BY <2>2 DEF OpenRefreshes
  <2>3. CASE Close
    BY <2>3 DEF Close
  <2>4. CASE SendFails
    BY <2>4 DEF SendFails
  <2>5. CASE JoinWatchingThread
    BY <2>5 DEF JoinWatchingThread, PostClose
  <2>6. CASE CloseDialog
    BY <2>6 DEF CloseDialog
  <2>7. CASE Leave
    BY <2>7 DEF Leave
  <2>8. CASE SettingsAccepted
    BY <2>8 DEF SettingsAccepted
  <2>9. CASE SettingsDisabled
    BY <2>9 DEF SettingsDisabled, PostClose
  <2>10. CASE SettingsMissing
    BY <2>10 DEF SettingsMissing
  <2>11. CASE Download
    BY <2>11 DEF Download, ShellAnswers
  <2>12. CASE StartBrainProcess
    BY <2>12 DEF StartBrainProcess
  <2>13. CASE StartFails
    BY <2>13 DEF StartFails, PostClose
  <2>14. CASE CoreEnded
    BY <2>14 DEF CoreEnded
  <2>15. CASE StopWatching
    BY <2>15 DEF StopWatching
  <2>16. CASE KeepWatching
    BY <2>16 DEF KeepWatching
  <2>17. CASE UpdateDone
    BY <2>17 DEF UpdateDone, ShellAnswers
  <2>18. CASE AnswerYes
    BY <2>18 DEF AnswerYes
  <2>19. CASE AnswerNo
    BY <2>19 DEF AnswerNo, PostClose
  <2>20. CASE CoreLoads
    BY <2>20 DEF CoreLoads
  <2>21. CASE CoreGreeted
    BY <2>21 DEF CoreGreeted
  <2>22. CASE CoreGetsRefresh
    BY <2>22 DEF CoreGetsRefresh
  <2>23. CASE CoreRefreshed
    BY <2>23 DEF CoreRefreshed
  <2>24. CASE CoreGetsRefreshTooEarly
    BY <2>24 DEF CoreGetsRefreshTooEarly
  <2>25. CASE CoreGetsShutdown
    BY <2>25 DEF CoreGetsShutdown
  <2>26. CASE CoreGetsShutdownTooEarly
    BY <2>26 DEF CoreGetsShutdownTooEarly
  <2>27. CASE CoreCloses
    BY <2>27 DEF CoreCloses
  <2>28. CASE CoreTells
    BY <2>28 DEF CoreTells, ShellGetsShutdown
  <2>29. CASE CoreExits
    BY <2>29 DEF CoreExits
  <2>30. CASE CoreCrashes
    BY <2>30 DEF CoreCrashes
  <2>31. CASE RequestBegins
    BY <2>31 DEF RequestBegins
  <2>32. CASE RequestQuit
    BY <2>32 DEF RequestQuit, ShellGetsShutdown
  <2>33. CASE RequestUpdate
    BY <2>33 DEF RequestUpdate
  <2>34. CASE CoreGivesUp
    BY <2>34 DEF CoreGivesUp
  <2>35. CASE RequestBrowser
    BY <2>35 DEF RequestBrowser
  <2>36. CASE RequestInfo
    BY <2>36 DEF RequestInfo
  <2>37. QED
    BY <2>1, <2>2, <2>3, <2>4, <2>5, <2>6, <2>7, <2>8, <2>9, <2>10, <2>11, <2>12,
       <2>13, <2>14, <2>15, <2>16, <2>17, <2>18, <2>19, <2>20, <2>21, <2>22, <2>23,
       <2>24, <2>25, <2>26, <2>27, <2>28, <2>29, <2>30, <2>31, <2>32, <2>33, <2>34,
       <2>35, <2>36
       DEF Next, WatchingThread, Core, Request
<1>2. QED  BY <1>1, Inductive, PTL DEF Spec, ClosingUsesUpWork

(* What is left is a natural number: a shell that closes takes at most so  *)
(* many steps more.                                                        *)
THEOREM WorkIsFinite == Spec => [](Work \in Nat)
<1>1. IInv => Work \in Nat
  <2> SUFFICES ASSUME IInv PROVE Work \in Nat
    OBVIOUS
  <2>1. shell \in ShellStates /\ watch \in WatchStates /\ core \in CoreStates
    BY DEF IInv, TypeOK
  <2>2. /\ \A pc \in ShellStates : ShellWork[pc] \in Nat
        /\ \A pc \in WatchStates : WatchWork[pc] \in Nat
        /\ \A pc \in CoreStates : CoreWork[pc] \in Nat
    BY DEF ShellStates, WatchStates, CoreStates, ShellWork, WatchWork, CoreWork
  <2>3. ShellWork[shell] \in Nat /\ WatchWork[watch] \in Nat /\ CoreWork[core] \in Nat
    BY <2>1, <2>2
  <2>4. 13 * (MaxOpens - opens) \in Nat /\ 2 * (MaxCommands - commands) \in Nat
    BY WatchdogAssumption DEF WatchdogAssumption, IInv, TypeOK
  <2> HIDE DEF ShellWork, WatchWork, CoreWork
  <2>5. QED  BY <2>3, <2>4 DEF Work
<1>2. QED  BY <1>1, Inductive, PTL
=============================================================================
