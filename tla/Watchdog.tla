------------------------------ MODULE Watchdog ------------------------------
(***************************************************************************)
(* The two processes and how they start and end each other.  The shell has *)
(* a main thread, which QuickBooks and the core call, and a watching       *)
(* thread, which updates the core's files, starts the core and waits for   *)
(* its end.  Of the core there is its main thread, and its request thread  *)
(* as far as it keeps others waiting: by a message to the shell or to the  *)
(* main thread, or by what it does to the long poll (CorePipeline has the  *)
(* core's threads one by one).                                             *)
(*                                                                         *)
(* SendMessage blocks until the thread that owns the window has handled    *)
(* the message, or the window is gone.  A thread handles such messages in  *)
(* its message loop and while it is in a SendMessage itself, and not while *)
(* it waits for a kernel object.  WM_CLOSE makes a dialog post itself a    *)
(* command, so a window closes only back in its thread's message loop.     *)
(***************************************************************************)
EXTENDS Naturals

CONSTANTS
    MaxOpens,       \* bound on the companies QuickBooks opens
    MaxCrashes,     \* bound on the crashes of the core
    MaxCommands     \* bound on the commands of the server that keep others waiting

ASSUME WatchdogAssumption ==
    MaxOpens \in Nat /\ MaxCrashes \in Nat /\ MaxCommands \in Nat

VARIABLES
    shell,          \* shell, main thread: in its loop, in a SendMessage, waiting
    shellWindow,    \* the shell's windows exist
    closePosted,    \* the command to close them is in the queue
    quitPosted,     \* so is WM_QUIT
    closed,         \* QuickBooks has said that it closes the company
    opens,          \* companies opened
    goOffline,      \* Orchestrator::goOfflineSignal (shell)
    updateRequested,\* Conductor::updateRequested
    watch,          \* shell, watching thread
    threadID,       \* SpawnCanary::threadID # NULL
    spawned,        \* brainProcessInfo.dwThreadId # 0
    core,           \* core, main thread
    told,           \* Orchestrator::brainRequestShutdown (core)
    coreClosing,    \* the command to close the core's windows is in the queue
    inJob,          \* the core belongs to the shell's job object
    request,        \* core, request thread: the handler that keeps others waiting
    commands,       \* such commands so far
    crashes,        \* crashes so far, failed starts of the core included
    abrupt,         \* history: the last core ended by a crash or failed to start
    asked,          \* history: a core has asked the shell to end
    killed,         \* history: a core was ended from outside
    late,           \* history: the last core was started by a shell about to end
    noSettings      \* history: the shell's settings were not to be had

shellVars == <<shell, shellWindow, closePosted, quitPosted, closed, opens>>
flags == <<goOffline, updateRequested>>
watchVars == <<watch, threadID, spawned>>
coreVars == <<core, told, coreClosing, inJob, request, commands, crashes>>
history == <<abrupt, asked, killed, late, noSettings>>
vars == <<shellVars, flags, watchVars, coreVars, history>>

ShellStates == {"loop", "refresh", "shutdown", "join", "gone"}
WatchStates == {"none", "settings", "download", "progress", "start", "wait", "check",
                "prompt", "update", "updateProgress"}
CoreStates == {"none", "loading", "greeting", "loop", "refreshing", "stuck", "telling",
               "ending", "hung"}

\* quit, update: to the shell;  browser: to the core's main window;  info: none
Handlers == {"quit", "update", "browser", "info"}

TypeOK ==
    /\ shell \in ShellStates
    /\ watch \in WatchStates
    /\ core \in CoreStates
    /\ request \in Handlers \union {"idle"}
    /\ opens \in 0 .. MaxOpens
    /\ commands \in 0 .. MaxCommands
    /\ crashes \in 0 .. MaxCrashes
    /\ shellWindow \in BOOLEAN /\ closePosted \in BOOLEAN /\ quitPosted \in BOOLEAN
    /\ closed \in BOOLEAN /\ goOffline \in BOOLEAN /\ updateRequested \in BOOLEAN
    /\ threadID \in BOOLEAN /\ spawned \in BOOLEAN
    /\ told \in BOOLEAN /\ coreClosing \in BOOLEAN /\ inJob \in BOOLEAN
    /\ abrupt \in BOOLEAN /\ asked \in BOOLEAN
    /\ killed \in BOOLEAN /\ late \in BOOLEAN /\ noSettings \in BOOLEAN

\* QuickBooks has started the shell.
Init ==
    /\ shell = "loop" /\ watch = "none" /\ core = "none" /\ request = "idle"
    /\ shellWindow = TRUE
    /\ closePosted = FALSE /\ quitPosted = FALSE /\ closed = FALSE
    /\ goOffline = FALSE /\ updateRequested = FALSE
    /\ threadID = FALSE /\ spawned = FALSE
    /\ told = FALSE /\ coreClosing = FALSE /\ inJob = FALSE
    /\ opens = 0 /\ commands = 0 /\ crashes = 0
    /\ abrupt = FALSE /\ asked = FALSE
    /\ killed = FALSE /\ late = FALSE /\ noSettings = FALSE

-----------------------------------------------------------------------------
(* A message to one of the shell's windows gets an answer. *)
ShellAnswers == ~shellWindow \/ shell \in {"loop", "refresh", "shutdown"}

(* FindWindow finds the core's window for the shell's messages. *)
CoreWindow == core \in {"greeting", "loop", "refreshing", "stuck"}

(* StopConcert of the shell. *)
PostClose == closePosted' = (closePosted \/ shellWindow)

\* Fault: the loop of the watching thread is not told.
ShellGetsShutdownQuietly ==
    IF shellWindow /\ ~updateRequested
    THEN closePosted' = TRUE /\ asked' = TRUE /\ UNCHANGED goOffline
    ELSE UNCHANGED <<goOffline, closePosted, asked>>

(* The shell's handler of "shutdown", which a core that will be updated    *)
(* sends as well.                                                          *)
ShellGetsShutdown ==
    IF shellWindow /\ ~updateRequested
    THEN goOffline' = TRUE /\ closePosted' = TRUE /\ asked' = TRUE
    ELSE UNCHANGED <<goOffline, closePosted, asked>>

-----------------------------------------------------------------------------
(* Shell, main thread.  QuickBooks opens a company other than the last.    *)
OpenAlwaysStarts ==     \* Fault: without a look at threadID.
    /\ shell = "loop"
    /\ opens < MaxOpens
    /\ opens' = opens + 1
    /\ threadID' = TRUE
    /\ watch' = "settings"
    /\ UNCHANGED <<shell, shellWindow, closePosted, quitPosted, closed, flags, spawned,
                   coreVars, history>>

OpenStarts ==
    /\ shell = "loop"
    /\ opens < MaxOpens
    /\ opens' = opens + 1
    /\ ~threadID
    /\ threadID' = TRUE
    /\ watch' = "settings"
    /\ UNCHANGED <<shell, shellWindow, closePosted, quitPosted, closed, flags, spawned,
                   coreVars, history>>

\* Fault: a company that is opened again counts as another one.
OpenAgainRefreshes ==
    /\ shell = "loop"
    /\ opens' = opens + 1
    /\ threadID
    /\ shell' = IF CoreWindow THEN "refresh" ELSE "loop"
    /\ UNCHANGED <<shellWindow, closePosted, quitPosted, closed, flags, watchVars, coreVars,
                   history>>

OpenRefreshes ==
    /\ shell = "loop"
    /\ opens < MaxOpens
    /\ opens' = opens + 1
    /\ threadID
    /\ shell' = IF CoreWindow THEN "refresh" ELSE "loop"
    /\ UNCHANGED <<shellWindow, closePosted, quitPosted, closed, flags, watchVars, coreVars,
                   history>>

(* QuickBooks closes the company: StopBrainProcess tells the core, if one  *)
(* has been started and has a window.                                      *)
Close ==
    /\ shell = "loop"
    /\ ~closed
    /\ closed' = TRUE
    /\ goOffline' = TRUE
    /\ shell' = IF spawned /\ CoreWindow THEN "shutdown" ELSE "join"
    /\ UNCHANGED <<shellWindow, closePosted, quitPosted, opens, updateRequested, watchVars,
                   coreVars, history>>

(* The window of the core has gone while a message was on its way to it. *)
SendFails ==
    /\ shell \in {"refresh", "shutdown"}
    /\ ~CoreWindow
    /\ shell' = IF shell = "shutdown" THEN "join" ELSE "loop"
    /\ UNCHANGED <<shellWindow, closePosted, quitPosted, closed, opens, flags, watchVars,
                   coreVars, history>>

\* Fault: the shell does not wait for the watching thread.
LeaveWatchingThread ==
    /\ shell = "join"
    /\ PostClose
    /\ quitPosted' = TRUE
    /\ shell' = "loop"
    /\ UNCHANGED <<shellWindow, closed, opens, flags, watchVars, coreVars, history>>

(* WaitForSingleObject(threadHandle, INFINITE), in StopBrainProcess and    *)
(* again in ProcessEvent, where it has no more to wait for.                *)
JoinWatchingThread ==
    /\ shell = "join"
    /\ watch = "none"
    /\ PostClose
    /\ quitPosted' = TRUE
    /\ shell' = "loop"
    /\ UNCHANGED <<shellWindow, closed, opens, flags, watchVars, coreVars, history>>

CloseDialog ==
    /\ shell = "loop"
    /\ closePosted
    /\ closePosted' = FALSE
    /\ shellWindow' = FALSE
    /\ quitPosted' = TRUE
    /\ UNCHANGED <<shell, closed, opens, flags, watchVars, coreVars, history>>

(* The loop ends at WM_QUIT, which comes after all that is posted.  With   *)
(* the process end its threads, and by the closed job a core that is left, *)
(* if it could be assigned to the job.                                     *)
Leave ==
    /\ shell = "loop"
    /\ quitPosted
    /\ ~closePosted
    /\ shell' = "gone"
    /\ watch' = "none"
    /\ IF inJob
       THEN core' = "none" /\ request' = "idle" /\ killed' = (core # "none")
       ELSE UNCHANGED <<core, request, killed>>
    /\ UNCHANGED <<shellWindow, closePosted, quitPosted, closed, opens, flags, threadID, spawned,
                   told, coreClosing, inJob, commands, crashes, abrupt, asked, late, noSettings>>

-----------------------------------------------------------------------------
(* Shell, watching thread: RunThread with SpawnIt.  GetClientSettings      *)
(* returns 1 and the version is good, ...                                  *)
SettingsAccepted ==
    /\ watch = "settings"
    /\ watch' = "download"
    /\ UNCHANGED <<shellVars, flags, threadID, spawned, coreVars, history>>

(* ... or it is disabled, ... *)
SettingsDisabled ==
    /\ watch = "settings"
    /\ goOffline' = TRUE
    /\ PostClose
    /\ watch' = "none"
    /\ UNCHANGED <<shell, shellWindow, quitPosted, closed, opens, updateRequested, threadID,
                   spawned, coreVars, history>>

(* ... or the server gives no settings and the function ends without a     *)
(* value: the caller may take it for 0 or not.                             *)
SettingsMissing ==
    /\ watch = "settings"
    /\ watch' \in {"download", "none"}
    /\ noSettings' = TRUE
    /\ UNCHANGED <<shellVars, flags, threadID, spawned, coreVars, abrupt, asked, killed,
                   late>>

(* DoDownload; to show its progress it sends messages to the main window.  *)
Download ==
    /\ \/ watch = "download" /\ watch' \in {"progress", "start"}
       \/ watch = "progress" /\ ShellAnswers /\ watch' = "start"
       \/ watch = "update" /\ watch' = "updateProgress"
    /\ UNCHANGED <<shellVars, flags, threadID, spawned, coreVars, history>>

(* The core is started; the assignment to the job may fail.                *)
StartBrainProcess ==
    /\ watch = "start"
    /\ watch' = "wait"
    /\ spawned' = TRUE
    /\ core' = "loading"
    /\ told' = FALSE
    /\ coreClosing' = FALSE
    /\ inJob' \in BOOLEAN
    /\ abrupt' = FALSE
    /\ late' = (closePosted \/ quitPosted)
    /\ UNCHANGED <<shellVars, flags, threadID, request, commands, crashes, asked, killed,
                   noSettings>>

\* Fault: the shell stays although it has no core.
StartFailsQuietly ==
    /\ watch = "start"
    /\ watch' = "none"
    /\ spawned' = FALSE
    /\ UNCHANGED <<shellVars, flags, threadID, coreVars, history>>

StartFails ==
    /\ watch = "start"
    /\ watch' = "none"
    /\ spawned' = FALSE
    /\ PostClose
    /\ UNCHANGED <<shell, shellWindow, quitPosted, closed, opens, flags, threadID, coreVars,
                   history>>

CoreEnded ==
    /\ watch = "wait"
    /\ core = "none"
    /\ watch' = "check"
    /\ UNCHANGED <<shellVars, flags, threadID, spawned, coreVars, history>>

(* Back in the loop of RunThread. *)
StopWatching ==
    /\ watch = "check"
    /\ goOffline
    /\ watch' = "none"
    /\ threadID' = FALSE
    /\ UNCHANGED <<shellVars, flags, spawned, coreVars, history>>

\* Fault: the loop does not look at goOffline.
KeepWatchingAnyway ==
    /\ watch = "check"
    /\ watch' = IF updateRequested THEN "update" ELSE "prompt"
    /\ UNCHANGED <<shellVars, flags, threadID, spawned, coreVars, history>>

KeepWatching ==
    /\ watch = "check"
    /\ ~goOffline
    /\ watch' = IF updateRequested THEN "update" ELSE "prompt"
    /\ UNCHANGED <<shellVars, flags, threadID, spawned, coreVars, history>>

UpdateDone ==
    /\ watch = "update" \/ (watch = "updateProgress" /\ ShellAnswers)
    /\ updateRequested' = FALSE
    /\ watch' = "settings"
    /\ UNCHANGED <<shellVars, goOffline, threadID, spawned, coreVars, history>>

AnswerYes ==
    /\ watch = "prompt"
    /\ watch' = "settings"
    /\ UNCHANGED <<shellVars, flags, threadID, spawned, coreVars, history>>

AnswerNo ==
    /\ watch = "prompt"
    /\ PostClose
    /\ watch' = "check"
    /\ UNCHANGED <<shell, shellWindow, quitPosted, closed, opens, flags, threadID, spawned,
                   coreVars, history>>

WatchingThread ==
    \/ SettingsAccepted \/ SettingsDisabled \/ SettingsMissing
    \/ Download \/ StartBrainProcess \/ StartFails
    \/ CoreEnded \/ StopWatching \/ KeepWatching \/ UpdateDone
    \/ AnswerYes \/ AnswerNo

-----------------------------------------------------------------------------
(* Core, main thread.  After GetInfoFromQB the dialog creates the window   *)
(* for the shell's messages and asks the shell for its version; then       *)
(* StartConcert starts the other threads.                                  *)
CoreLoads ==
    /\ core = "loading"
    /\ core' = "greeting"
    /\ UNCHANGED <<shellVars, flags, watchVars, told, coreClosing, inJob, request, commands, crashes,
                   history>>

CoreGreeted ==
    /\ core = "greeting"
    /\ ShellAnswers
    /\ core' = "loop"
    /\ UNCHANGED <<shellVars, flags, watchVars, told, coreClosing, inJob, request, commands, crashes,
                   history>>

(* "refresh": the main thread waits for the request thread's event. *)
CoreGetsRefresh ==
    /\ core = "loop"
    /\ shell = "refresh"
    /\ core' = "refreshing"
    /\ UNCHANGED <<shellVars, flags, watchVars, told, coreClosing, inJob, request, commands, crashes,
                   history>>

(* Then it posts to it, and GetInfoFromQB runs.                            *)
CoreRefreshed ==
    /\ core = "refreshing"
    /\ request = "idle"
    /\ request' = "info"
    /\ core' = "loop"
    /\ shell' = "loop"
    /\ UNCHANGED <<shellWindow, closePosted, quitPosted, closed, opens, flags, watchVars, told,
                   coreClosing, inJob, commands, crashes, history>>

(* While it asks for the version there is no request thread to wait for.  *)
CoreGetsRefreshTooEarly ==
    /\ core = "greeting"
    /\ shell = "refresh"
    /\ core' = "stuck"
    /\ UNCHANGED <<shellVars, flags, watchVars, told, coreClosing, inJob, request, commands, crashes,
                   history>>

\* Fault: the core keeps its windows.
CoreIgnoresShutdown ==
    /\ core = "loop"
    /\ shell = "shutdown"
    /\ told' = TRUE
    /\ shell' = "join"
    /\ UNCHANGED <<shellWindow, closePosted, quitPosted, closed, opens, flags, watchVars, core,
                   coreClosing, inJob, request, commands, crashes, history>>

CoreGetsShutdown ==
    /\ core = "loop"
    /\ shell = "shutdown"
    /\ told' = TRUE
    /\ coreClosing' = TRUE
    /\ shell' = "join"
    /\ UNCHANGED <<shellWindow, closePosted, quitPosted, closed, opens, flags, watchVars, core,
                   inJob, request, commands, crashes, history>>

(* While it asks for the version the pointer to its dialog is not set, and *)
(* the handler of "shutdown" uses it.                                      *)
CoreGetsShutdownTooEarly ==
    /\ core = "greeting"
    /\ shell = "shutdown"
    /\ core' = "none"
    /\ abrupt' = TRUE
    /\ shell' = "join"
    /\ UNCHANGED <<shellWindow, closePosted, quitPosted, closed, opens, flags, watchVars, told,
                   coreClosing, inJob, request, commands, crashes, asked, killed, late, noSettings>>

(* The user, a command or the shell closes the dialog, which tells the     *)
(* shell unless it was the shell.                                          *)
CoreCloses ==
    /\ core = "loop"
    /\ core' = IF told THEN "ending" ELSE "telling"
    /\ UNCHANGED <<shellVars, flags, watchVars, told, coreClosing, inJob, request, commands, crashes,
                   history>>

CoreTells ==
    /\ core = "telling"
    /\ ShellAnswers
    /\ ShellGetsShutdown
    /\ core' = "ending"
    /\ UNCHANGED <<shell, shellWindow, quitPosted, closed, opens, updateRequested, watchVars,
                   told, coreClosing, inJob, request, commands, crashes, abrupt, killed, late, noSettings>>

(* StopConcert waits for the long-poll thread (see RequestInfo), for the   *)
(* request thread, and for the response thread, which nobody keeps waiting. *)
CoreExits ==
    /\ core = "ending"
    /\ request = "idle"
    /\ core' = "none"
    /\ UNCHANGED <<shellVars, flags, watchVars, told, coreClosing, inJob, request, commands, crashes,
                   history>>

CoreCrashes ==
    /\ core # "none"
    /\ crashes < MaxCrashes
    /\ crashes' = crashes + 1
    /\ core' = "none"
    /\ request' = "idle"
    /\ abrupt' = TRUE
    /\ UNCHANGED <<shellVars, flags, watchVars, told, coreClosing, inJob, commands, asked, killed,
                   late, noSettings>>

(* The core gives up: it does not take the shell for its parent, or cannot *)
(* create its dialog.                                                      *)
CoreGivesUp ==
    /\ core = "loading"
    /\ crashes < MaxCrashes
    /\ crashes' = crashes + 1
    /\ core' = "none"
    /\ abrupt' = TRUE
    /\ UNCHANGED <<shellVars, flags, watchVars, told, coreClosing, inJob, request, commands, asked,
                   killed, late, noSettings>>

(* Core, request thread: a command of the server that keeps others waiting. *)
RequestBegins ==
    /\ core \in {"loop", "refreshing", "telling", "ending", "hung"}
    /\ request = "idle"
    /\ commands < MaxCommands
    /\ commands' = commands + 1
    /\ request' \in Handlers
    /\ UNCHANGED <<shellVars, flags, watchVars, core, told, coreClosing, inJob, crashes, history>>

(* GetInfoFromQB and RegisterConnector may reset the event the long-poll    *)
(* thread waits for.  In a core that has just set it to end that thread,   *)
(* StopConcert never returns.                                              *)
RequestInfo ==
    /\ request = "info"
    /\ request' = "idle"
    /\ core' \in {core} \union (IF core = "ending" THEN {"hung"} ELSE {})
    /\ UNCHANGED <<shellVars, flags, watchVars, told, coreClosing, inJob, commands, crashes, history>>

(* open_browser: SendMessage to the core's main window. *)
RequestBrowser ==
    /\ request = "browser"
    /\ core # "refreshing"
    /\ request' = "idle"
    /\ UNCHANGED <<shellVars, flags, watchVars, core, told, coreClosing, inJob, commands, crashes,
                   history>>

RequestQuit ==
    /\ request = "quit"
    /\ ShellAnswers
    /\ ShellGetsShutdown
    /\ coreClosing' = TRUE
    /\ request' = "idle"
    /\ UNCHANGED <<shell, shellWindow, quitPosted, closed, opens, updateRequested, watchVars,
                   core, told, inJob, commands, crashes, abrupt, killed, late, noSettings>>

RequestUpdate ==
    /\ request = "update"
    /\ ShellAnswers
    /\ updateRequested' = (updateRequested \/ shellWindow)
    /\ coreClosing' = TRUE
    /\ request' = "idle"
    /\ UNCHANGED <<shellVars, goOffline, watchVars, core, told, inJob, commands, crashes, history>>

Core ==
    \/ CoreLoads \/ CoreGreeted
    \/ CoreGetsRefresh \/ CoreRefreshed \/ CoreGetsRefreshTooEarly
    \/ CoreGetsShutdown \/ CoreGetsShutdownTooEarly
    \/ (CoreCloses /\ coreClosing) \/ CoreTells \/ CoreExits

Request == RequestQuit \/ RequestUpdate \/ RequestBrowser \/ RequestInfo

Next ==
    \/ OpenStarts \/ OpenRefreshes \/ Close
    \/ SendFails \/ JoinWatchingThread \/ CloseDialog \/ Leave
    \/ WatchingThread
    \/ Core \/ CoreCloses \/ CoreCrashes \/ CoreGivesUp
    \/ RequestBegins \/ Request

(* Every thread that can run does, the user answers what he is asked, and  *)
(* QuickBooks, downloads and the web server come to an end with a call.    *)
(* Nobody has to open or close anything.                                   *)
Spec ==
    /\ Init /\ [][Next]_vars
    /\ WF_vars(SendFails) /\ WF_vars(JoinWatchingThread)
    /\ WF_vars(CloseDialog) /\ WF_vars(Leave)
    /\ WF_vars(WatchingThread)
    /\ WF_vars(Core)
    /\ WF_vars(Request)

-----------------------------------------------------------------------------
(* "Quicksling seems to have shut down incorrectly": the shell says so     *)
(* only after a crash of the core or a start that failed, in whatever way   *)
(* the core, the server, the user or QuickBooks ended it.  A core that is  *)
(* started although the shell is ending finds no window of the shell and   *)
(* cannot say farewell.                                                    *)
PromptOnlyAfterCrash == watch = "prompt" => abrupt \/ late

(* There is never a second core: the shell starts one when the last has    *)
(* ended.                                                                  *)
OneCore == [][StartBrainProcess => core = "none"]_vars

(* The end of the shell cuts a core short only if a core has asked for it: *)
(* one that QuickBooks' Close brings down has all the time it needs.  The  *)
(* exception is a core that is started although the shell is ending.       *)
CloseKillsNoCore == killed => asked \/ late

(* A shell whose watching thread has ended without taking its id back      *)
(* starts no core anymore.  It ends as well, unless it had no settings.    *)
ShellOutlivesWatchingThread ==
    watch = "none" /\ threadID /\ ~noSettings =>
        closePosted \/ quitPosted \/ ~shellWindow

(* The ways in which the two processes hang.  A core that got "refresh"    *)
(* too early waits for a thread that does not exist.  One that ends may     *)
(* wait for a long-poll thread that nobody wakes up.  One that got         *)
(* "refresh" may wait for a request thread that waits for it.              *)
(* The other four need a shell that waits for its watching thread and      *)
(* answers nobody: that thread wants to show its progress, the core wants  *)
(* to say hello or farewell, the core's request thread wants to say         *)
(* farewell and the core waits for it, or the core runs and was never told *)
(* to stop.                                                                *)
KnownHang ==
    \/ core \in {"stuck", "hung"}
    \/ core = "refreshing" /\ request = "browser"
    \/ /\ shell = "join"
       /\ \/ core = "loop" /\ ~told
          \/ /\ shellWindow
             /\ \/ watch \in {"progress", "updateProgress"}
                \/ core \in {"greeting", "telling"}
                \/ request \in {"quit", "update"}

(* Otherwise the shell ends when QuickBooks closes, and an update that the *)
(* server has requested is made or overtaken by the end of the shell.      *)
OnlyKnownHangs ==
    \/ <>[]KnownHang
    \/ /\ closed ~> shell = "gone"
       /\ updateRequested ~> (~updateRequested \/ shell = "gone")

(* Who can get on with what it does. *)
ShellMoves ==
    \/ shell = "loop" /\ (closePosted \/ quitPosted)
    \/ shell \in {"refresh", "shutdown"} /\ ~CoreWindow
    \/ shell = "join" /\ watch = "none"
WatchingThreadMoves ==
    \/ watch \in {"settings", "download", "start", "check", "prompt", "update"}
    \/ watch \in {"progress", "updateProgress"} /\ ShellAnswers
    \/ watch = "wait" /\ core = "none"
CoreMoves ==
    \/ core = "loading"
    \/ core = "greeting" /\ (ShellAnswers \/ shell \in {"refresh", "shutdown"})
    \/ core = "loop" /\ (coreClosing \/ shell \in {"refresh", "shutdown"})
    \/ core \in {"refreshing", "ending"} /\ request = "idle"
    \/ core = "telling" /\ ShellAnswers
RequestMoves ==
    \/ request \in {"quit", "update"} /\ ShellAnswers
    \/ request = "browser" /\ core # "refreshing"
    \/ request = "info"

(* Once QuickBooks has closed the company, somebody gets on until the      *)
(* shell has ended, or the two processes hang in one of the known ways.    *)
OnlyKnownDeadlocks ==
    closed =>
        \/ shell = "gone"
        \/ ShellMoves \/ WatchingThreadMoves \/ CoreMoves \/ RequestMoves
        \/ KnownHang

(* The steps that are left to all of them then, at most: a company that    *)
(* opens may make the shell start one more core, and a command of the      *)
(* server gives the request thread one more thing to do.                  *)
CoreWork ==
    [none |-> 0, hung |-> 1, ending |-> 1, telling |-> 2, refreshing |-> 3, stuck |-> 3,
     loop |-> 4, greeting |-> 5, loading |-> 6]
WatchWork ==
    [none |-> 0, check |-> 1, wait |-> 2, start |-> 9, progress |-> 10, download |-> 11,
     settings |-> 12, prompt |-> 13, updateProgress |-> 13, update |-> 14]
ShellWork ==
    [gone |-> 0, loop |-> 1, join |-> 2, refresh |-> 4, shutdown |-> 4]

Work ==
    CoreWork[core] + WatchWork[watch] + ShellWork[shell]
      + (IF shellWindow THEN 1 ELSE 0)
      + (IF request = "idle" THEN 0 ELSE 1)
      + 13 * (MaxOpens - opens) + 2 * (MaxCommands - commands)

(* A shell that closes cannot run on: whatever QuickBooks, the server, the *)
(* user and the core do, each step brings the end nearer.                  *)
ClosingUsesUpWork == [][closed => Work' < Work]_vars

(* "Allow brain to shutdown cleanly" (StopBrainProcess): before the shell  *)
(* waits for the end of a core it tells the core, unless that is about to  *)
(* end anyway.                                                             *)
CoreIsTold ==
    [][Close /\ spawned => shell' = "shutdown" \/ core \in {"none", "telling", "ending"}]_vars
=============================================================================
