------------------------------- MODULE AuthKey -------------------------------
(***************************************************************************)
(* The authentication key of the core: QBInfo::authToken, by which the web *)
(* server knows it, and config.ini, which keeps one for each company.      *)
(*                                                                         *)
(* Three threads change the key and rewrite the file, without a lock: the  *)
(* request thread when it finds another company open ("qb versions"), the  *)
(* long-poll thread when the server answers OLD_SESSION_KEY, and the main  *)
(* thread at the core's start and when it goes offline for good.           *)
(*                                                                         *)
(* A company stands for its unique id, the ids of two templates, which are *)
(* taken to be set together; NoCompany is the id "," of the core that has  *)
(* not been told them.  GUIDs are numbered as they are made; 0 is the      *)
(* empty key, None no entry in the file.                                   *)
(***************************************************************************)
EXTENDS Integers

CONSTANTS
    Companies,    \* the company files of the user
    NoCompany,    \* the id of an unknown company
    MaxSessions,  \* bound on the starts of the core
    MaxRenewals,  \* bound on the answers OLD_SESSION_KEY
    MaxPending,   \* bound on the "qb versions" waiting
    MaxCrashes    \* bound on the crashes of the core

ASSUME AuthKeyAssumption ==
    /\ NoCompany \notin Companies
    /\ Companies # {}
    /\ MaxSessions \in Nat /\ MaxRenewals \in Nat /\ MaxPending \in Nat /\ MaxCrashes \in Nat

VARIABLES
    open,       \* QuickBooks: the company file that is open
    file,       \* disk: the entries of config.ini
    key,        \* authToken
    company,    \* GetUniqueID()
    was,        \* originalUniqueId of the GetInfoFromQB that runs
    hasRun,     \* the key in memory is the one to save
    ready,      \* readyForLongPollSignal
    offline,    \* goOfflineSignal
    pending,    \* "qb versions" in the request thread's queue
    pc,         \* what each thread does
    copy, id,   \* LoadConfigYaml of each thread: the file it loaded, its entry
    made,       \* the number of GUIDs made
    told,       \* history: the key each company was last polled with
    raced,      \* history: two threads were changing keys at once
    adopted,    \* history: the key of NoCompany was given to a company
    torn,       \* history: a crash has cut off the saving of the file
    sessions, renewals, crashes   \* counters for the bounds

memory == <<key, company, was, hasRun, ready, offline, pending, copy, id>>
counters == <<sessions, renewals, crashes>>
vars == <<open, file, memory, pc, made, told, raced, adopted, torn, counters>>

Threads == {"main", "poll", "request"}
Ids == Companies \union {NoCompany}
None == -1
Empty == 0
Keys == Nat
Entries == Keys \union {None}
Section == {"check", "compare", "dead", "blank", "forget", "load", "choose", "save",
            "saving", "ran", "signal", "offer"}
Labels == Section \union {"off", "idle", "ask", "learn", "wait", "parting", "joinPoll",
                          "joinRequest"}

TypeOK ==
    /\ open \in Companies
    /\ file \in [Ids -> Entries]
    /\ key \in Keys
    /\ company \in Ids
    /\ was \in Ids
    /\ hasRun \in BOOLEAN /\ ready \in BOOLEAN /\ offline \in BOOLEAN
    /\ pending \in 0 .. MaxPending
    /\ pc \in [Threads -> Labels]
    /\ copy \in [Threads -> [Ids -> Entries]]
    /\ id \in [Threads -> Ids]
    /\ made \in Nat
    /\ told \in [Ids -> Entries]
    /\ raced \in BOOLEAN /\ adopted \in BOOLEAN /\ torn \in BOOLEAN
    /\ sessions \in 0 .. MaxSessions
    /\ renewals \in 0 .. MaxRenewals
    /\ crashes \in 0 .. MaxCrashes

NoEntries == [c \in Ids |-> None]

Init ==
    /\ open \in Companies
    /\ file = NoEntries
    /\ key = Empty
    /\ company = NoCompany
    /\ was = NoCompany
    /\ hasRun = FALSE
    /\ ready = FALSE
    /\ offline = FALSE
    /\ pending = 0
    /\ copy = [t \in Threads |-> NoEntries]
    /\ id = [t \in Threads |-> NoCompany]
    /\ pc = [t \in Threads |-> "off"]
    /\ made = 0
    /\ told = NoEntries
    /\ raced = FALSE
    /\ adopted = FALSE
    /\ torn = FALSE
    /\ sessions = 0
    /\ renewals = 0
    /\ crashes = 0

-----------------------------------------------------------------------------
At(t, label) == pc[t] = label
Goto(t, label) == pc' = [pc EXCEPT ![t] = label]

\* Two threads between the first and the last of their changes.
Overlap == \E t, u \in Threads : t # u /\ pc[t] \in Section /\ pc[u] \in Section

NewKey == made + 1

-----------------------------------------------------------------------------
(* QBInfo::GetInfoFromQB, on the main thread when the core starts and on   *)
(* the request thread for "qb versions".  It looks at goOfflineSignal      *)
(* before each question to QuickBooks.                                     *)
Informed == {"main", "request"}

GiveUp(t) ==
    /\ At(t, "ask") \/ At(t, "check")
    /\ offline
    /\ Goto(t, "idle")
    /\ UNCHANGED <<open, file, memory, made, told, adopted, torn, counters>>

Ask(t) ==
    /\ At(t, "ask")
    /\ ~offline
    /\ Goto(t, "learn")
    /\ UNCHANGED <<open, file, memory, made, told, adopted, torn, counters>>

(* The templates of the company file that is open, or QuickBooks fails and *)
(* the id stays as it is.                                                  *)
Learn(t) ==
    /\ At(t, "learn")
    /\ was' = company
    /\ company' \in {company, open}
    /\ Goto(t, "check")
    /\ UNCHANGED <<open, file, key, hasRun, ready, offline, pending, copy, id, made, told,
                   adopted, torn, counters>>

Check(t) ==
    /\ At(t, "check")
    /\ ~offline
    /\ Goto(t, "compare")
    /\ UNCHANGED <<open, file, memory, made, told, adopted, torn, counters>>

Compared ==
    /\ was' = NoCompany
    /\ adopted' = (adopted \/ (company # was /\ was = NoCompany /\ hasRun))

\* Fault: another company is not noticed.
CompareNothing(t) ==
    /\ At(t, "compare")
    /\ Goto(t, "load")
    /\ Compared
    /\ UNCHANGED <<open, file, key, company, hasRun, ready, offline, pending, copy, id, made, told,
                   torn, counters>>

(* Another company: polls are to wait, and its own key is to be loaded.    *)
(* The first company after NoCompany is not counted as another one, yet    *)
(* hasRun is set: it will get the key of NoCompany.                        *)
Compare(t) ==
    /\ At(t, "compare")
    /\ IF company # was /\ was # NoCompany
       THEN ready' = FALSE /\ Goto(t, "dead")
       ELSE UNCHANGED ready /\ Goto(t, "load")
    /\ Compared
    /\ UNCHANGED <<open, file, key, company, hasRun, offline, pending, copy, id, made, told,
                   torn, counters>>

(* Reset lets the polls go on and tells the server the link is dead.       *)
Reset(t) ==
    /\ At(t, "dead")
    /\ ready' = TRUE
    /\ Goto(t, "blank")
    /\ UNCHANGED <<open, file, key, company, was, hasRun, offline, pending, copy, id, made, told,
                   adopted, torn, counters>>

Blank(t) ==
    /\ At(t, "blank")
    /\ key' = Empty
    /\ Goto(t, "forget")
    /\ UNCHANGED <<open, file, company, was, hasRun, ready, offline, pending, copy, id, made, told,
                   adopted, torn, counters>>

Forget(t) ==
    /\ At(t, "forget")
    /\ hasRun' = FALSE
    /\ Goto(t, "load")
    /\ UNCHANGED <<open, file, key, company, was, ready, offline, pending, copy, id, made, told,
                   adopted, torn, counters>>

(* The end of GetInfoFromQB.  The main thread then starts the others.      *)
Signal(t) ==
    /\ At(t, "signal")
    /\ ready' = (company # NoCompany)
    /\ IF t = "main" THEN pc' = [u \in Threads |-> "idle"] ELSE Goto(t, "idle")
    /\ UNCHANGED <<open, file, key, company, was, hasRun, offline, pending, copy, id, made, told,
                   adopted, torn, counters>>

-----------------------------------------------------------------------------
(* QBInfo::LoadConfigYaml, of any of the threads.  LongPoll::RunThread     *)
(* calls DoLongPoll again when it returns, unless timeToQuit is set.       *)
PollReturns == Goto("poll", "idle") \/ (offline /\ Goto("poll", "off"))

\* Fault: the company is taken to have an entry.
LoadExisting(t) ==
    /\ At(t, "load")
    /\ id' = [id EXCEPT ![t] = company]
    /\ copy' = [copy EXCEPT ![t] = file]
    /\ Goto(t, "choose")
    /\ UNCHANGED <<open, file, key, company, was, hasRun, ready, offline, pending, made, told,
                   adopted, torn, counters>>

\* Fault: only the entry of the company is written.
LoadNothing(t) ==
    /\ At(t, "load")
    /\ id' = [id EXCEPT ![t] = company]
    /\ LET entry == IF file[company] = None THEN NewKey ELSE file[company] IN
         copy' = [copy EXCEPT ![t] = [NoEntries EXCEPT ![company] = entry]]
    /\ made' = NewKey
    /\ Goto(t, "choose")
    /\ UNCHANGED <<open, file, key, company, was, hasRun, ready, offline, pending, told,
                   adopted, torn, counters>>

\* The file, and a key for a company that has none.
Load(t) ==
    /\ At(t, "load")
    /\ id' = [id EXCEPT ![t] = company]
    /\ IF file[company] = None
       THEN copy' = [copy EXCEPT ![t] = [file EXCEPT ![company] = NewKey]] /\ made' = NewKey
       ELSE copy' = [copy EXCEPT ![t] = file] /\ UNCHANGED made
    /\ Goto(t, "choose")
    /\ UNCHANGED <<open, file, key, company, was, hasRun, ready, offline, pending, told,
                   adopted, torn, counters>>

Choose(t) ==
    /\ At(t, "choose")
    /\ IF hasRun
       THEN copy' = [copy EXCEPT ![t][id[t]] = key] /\ UNCHANGED key
       ELSE key' = copy[t][id[t]] /\ UNCHANGED copy
    /\ Goto(t, "save")
    /\ UNCHANGED <<open, file, company, was, hasRun, ready, offline, pending, id, made, told,
                   adopted, torn, counters>>

\* CIniFile::Save empties the file when it opens it ...
SaveBegin(t) ==
    /\ At(t, "save")
    /\ file' = NoEntries
    /\ Goto(t, "saving")
    /\ UNCHANGED <<open, memory, made, told, adopted, torn, counters>>

\* ... and has written it when it closes it.
SaveEnd(t) ==
    /\ At(t, "saving")
    /\ file' = copy[t]
    /\ copy' = [copy EXCEPT ![t] = NoEntries]
    /\ id' = [id EXCEPT ![t] = NoCompany]
    /\ Goto(t, "ran")
    /\ UNCHANGED <<open, key, company, was, hasRun, ready, offline, pending, made, told,
                   adopted, torn, counters>>

Ran(t) ==
    /\ At(t, "ran")
    /\ hasRun' = TRUE
    /\ \/ t = "poll" /\ PollReturns
       \/ t \in Informed /\ Goto(t, IF t = "main" /\ offline THEN "joinRequest" ELSE "signal")
    /\ UNCHANGED <<open, file, key, company, was, ready, offline, pending, copy, id, made, told,
                   adopted, torn, counters>>

-----------------------------------------------------------------------------
(* LongPoll::DoLongPoll: the server is told the key and the company.  A    *)
(* poll the request thread is overtaking may tell it the key of one company *)
(* and the id of another (Reset has let it go on), and is not recorded.    *)
Poll ==
    /\ At("poll", "idle")
    /\ ready
    /\ ~offline
    /\ Goto("poll", "wait")
    /\ told' = IF pc["request"] \in Section THEN told ELSE [told EXCEPT ![company] = key]
    /\ UNCHANGED <<open, file, memory, made, adopted, torn, counters>>

PollLeaves ==
    /\ At("poll", "idle")
    /\ ready
    /\ offline
    /\ Goto("poll", "off")
    /\ UNCHANGED <<open, file, memory, made, told, adopted, torn, counters>>

\* An answer that changes nothing here, or none.
PollEnds ==
    /\ At("poll", "wait")
    /\ PollReturns
    /\ UNCHANGED <<open, file, memory, made, told, adopted, torn, counters>>

(* OLD_SESSION_KEY: a new key, which is saved.                             *)
OldSessionKey ==
    /\ At("poll", "wait")
    /\ renewals < MaxRenewals
    /\ renewals' = renewals + 1
    /\ key' = NewKey
    /\ made' = NewKey
    /\ Goto("poll", "load")
    /\ UNCHANGED <<open, file, company, was, hasRun, ready, offline, pending, copy, id, told,
                   adopted, torn, sessions, crashes>>

(* The server asks for "qb versions".                                      *)
VersionsAsked ==
    /\ At("poll", "wait")
    /\ pending < MaxPending
    /\ pending' = pending + 1
    /\ PollReturns
    /\ UNCHANGED <<open, file, key, company, was, hasRun, ready, offline, copy, id, made, told,
                   adopted, torn, counters>>

(* RequestProcessor::cmd_qb: a core that goes offline answers "SHUTDOWN".  *)
TakeVersions ==
    /\ At("request", "idle")
    /\ pending > 0
    /\ pending' = pending - 1
    /\ IF offline THEN UNCHANGED pc ELSE Goto("request", "ask")
    /\ UNCHANGED <<open, file, key, company, was, hasRun, ready, offline, copy, id, made, told,
                   adopted, torn, counters>>

-----------------------------------------------------------------------------
(* The user opens a company file: the shell sends "refresh" to a core that *)
(* has a window, and the core asks itself for "qb versions".               *)
OpenCompany(c) ==
    /\ c # open
    /\ At("main", "idle") => pending < MaxPending
    /\ open' = c
    /\ pending' = IF At("main", "idle") THEN pending + 1 ELSE pending
    /\ UNCHANGED <<file, key, company, was, hasRun, ready, offline, copy, id, pc, made, told,
                   adopted, torn, counters>>

StartCore ==
    /\ At("main", "off")
    /\ sessions < MaxSessions
    /\ sessions' = sessions + 1
    /\ Goto("main", "ask")
    /\ UNCHANGED <<open, file, memory, made, told, adopted, torn, renewals, crashes>>

(* Orchestrator::StopConcert: the first GoOffline wakes the long poll up,  *)
(* for it to end ...                                                       *)
GoOffline ==
    /\ At("main", "idle")
    /\ ready' = FALSE
    /\ offline' = TRUE
    /\ Goto("main", "parting")
    /\ UNCHANGED <<open, file, key, company, was, hasRun, pending, copy, id, made, told,
                   adopted, torn, counters>>

GoOfflineEnds ==
    /\ At("main", "parting")
    /\ ready' = TRUE
    /\ Goto("main", "joinPoll")
    /\ UNCHANGED <<open, file, key, company, was, hasRun, offline, pending, copy, id, made, told,
                   adopted, torn, counters>>

(* ... and the second one makes a new key and offers it to the server.     *)
OfferKey ==
    /\ At("main", "joinPoll")
    /\ At("poll", "off")
    /\ key' = NewKey
    /\ made' = NewKey
    /\ Goto("main", "offer")
    /\ UNCHANGED <<open, file, company, was, hasRun, ready, offline, pending, copy, id, told,
                   adopted, torn, counters>>

\* It is saved only when the call was answered.
OfferEnds ==
    /\ At("main", "offer")
    /\ Goto("main", "load") \/ Goto("main", "joinRequest")
    /\ UNCHANGED <<open, file, memory, made, told, adopted, torn, counters>>

\* WM_QUIT is behind what waits in the queue.
RequestLeaves ==
    /\ At("main", "joinRequest")
    /\ At("request", "idle")
    /\ pending = 0
    /\ Goto("request", "off")
    /\ UNCHANGED <<open, file, memory, made, told, adopted, torn, counters>>

\* The next process starts with a memory of its own.
ProcessEnds ==
    /\ key' = Empty
    /\ company' = NoCompany
    /\ was' = NoCompany
    /\ hasRun' = FALSE
    /\ ready' = FALSE
    /\ offline' = FALSE
    /\ pending' = 0
    /\ copy' = [t \in Threads |-> NoEntries]
    /\ id' = [t \in Threads |-> NoCompany]
    /\ pc' = [t \in Threads |-> "off"]
    /\ UNCHANGED <<open, file, made, told, adopted, sessions, renewals>>

CoreEnds ==
    /\ At("main", "joinRequest")
    /\ At("request", "off")
    /\ ProcessEnds
    /\ UNCHANGED <<torn, crashes>>

Crash ==
    /\ ~At("main", "off")
    /\ crashes < MaxCrashes
    /\ crashes' = crashes + 1
    /\ torn' = (torn \/ \E t \in Threads : At(t, "saving"))
    /\ ProcessEnds

-----------------------------------------------------------------------------
Info(t) ==
    \/ GiveUp(t) \/ Ask(t) \/ Learn(t) \/ Check(t) \/ Compare(t)
    \/ Reset(t) \/ Blank(t) \/ Forget(t) \/ Signal(t)

LoadConfigYaml(t) ==
    Load(t) \/ Choose(t) \/ SaveBegin(t) \/ SaveEnd(t) \/ Ran(t)

Step ==
    \/ \E t \in Informed : Info(t)
    \/ \E t \in Threads : LoadConfigYaml(t)
    \/ Poll \/ PollLeaves \/ PollEnds \/ OldSessionKey \/ VersionsAsked
    \/ TakeVersions
    \/ \E c \in Companies : OpenCompany(c)
    \/ StartCore \/ GoOffline \/ GoOfflineEnds \/ OfferKey \/ OfferEnds
    \/ RequestLeaves \/ CoreEnds \/ Crash

Next == Step /\ raced' = (raced \/ Overlap')

Spec == Init /\ [][Next]_vars

-----------------------------------------------------------------------------
\* The entry of c in the file, also while the file is being written.
Kept(c) ==
    IF \E t \in Threads : At(t, "saving")
    THEN copy[CHOOSE t \in Threads : At(t, "saving")][c]
    ELSE file[c]

(* The key the server was last polled with for a company is in config.ini, *)
(* or one made later in its place: no thread and no later session loses    *)
(* it.  Not so when two threads change keys at once, when a crash cuts off *)
(* the saving, or when a core that did not know its company learns it.     *)
(* Polls that a change of the company overtakes do not count.              *)
ToldKeysAreKept ==
    (raced \/ torn \/ adopted) \/ \A c \in Ids : told[c] <= Kept(c)

(* No two companies have the same key, and none has the empty one, with    *)
(* the exceptions of two threads and of the core that learns its company.  *)
OneCompanyPerKey ==
    (raced \/ adopted) \/
    \A c \in Ids : Kept(c) # Empty /\ \A d \in Ids \ {c} : Kept(c) = Kept(d) => Kept(c) = None
=============================================================================
