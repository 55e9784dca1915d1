------------------------------ MODULE Downloader ------------------------------
(***************************************************************************)
(* Downloader::DoDownload brings the core's files up to the release the    *)
(* server's manifest names: it checks every file of every section against  *)
(* its checksum, and when one differs it gets the section's archive,       *)
(* unless the one on disk still has the right checksum, and unzips it.     *)
(*                                                                         *)
(* Two processes do this to the same directory: the shell, before each     *)
(* start of the core, and the installer, which runs                        *)
(* `QuickslingShell.exe /Download` after it has registered the shell with  *)
(* QuickBooks.  download_mutex is a member and keeps only the threads of   *)
(* one process apart, of which a single one calls DoDownload.              *)
(*                                                                         *)
(* Releases are numbered; the content of a file or an archive is the       *)
(* release it comes from, or 0 when it is absent or torn.  A release       *)
(* changes every file.  Files with equal checksums are taken to be equal.  *)
(*                                                                         *)
(* The manifest lists the files of every section with their checksums,     *)
(* then the archives ([downloads]) and then the archives' checksums        *)
(* ([checksums]).  One that is cut short does not name every archive, or   *)
(* lacks checksums, or ends in the middle of one.  The order of the file   *)
(* is not that of the loop: any section may be the one that suffers, and    *)
(* more than one checksum may be garbled.                                  *)
(***************************************************************************)
EXTENDS Integers

CONSTANTS
    NSections,   \* sections of the manifest, in its order
    NItems,      \* the number of files of each section
    MaxRelease,  \* bound on the releases published
    MaxFaults    \* bound on failures of network, disk or process, and cancels

ASSUME DownloaderAssumption ==
    /\ NSections \in Nat \ {0}
    /\ NItems \in [1 .. NSections -> Nat \ {0}]
    /\ MaxRelease \in Nat \ {0}
    /\ MaxFaults \in Nat

VARIABLES
    published,  \* server: the release of download.ini
    rewriting,  \* server: download.ini is being replaced
    offered,    \* server: the release of each section's archive
    files,      \* disk: content of each file of each section
    archive,    \* disk: content of each section's archive
    disabled,   \* config.ini: disable_download
    pc,         \* what each process does
    ini,        \* the release of the manifest it has loaded
    cut,        \* the section of that manifest in which it is cut short
    sec, item,  \* the section and the file it is at
    garbled,    \* the checksum of the archive it fetches is cut
    hidden,     \* sections it left alone because its manifest is cut
    leaked,     \* archives it left open when it could not unzip one
    result,     \* what DoDownload returned
    abort,      \* currentDownloadAbort
    upset,      \* history: what could have disturbed the download
    faults      \* counter for the bound

serverVars == <<published, rewriting, offered>>
diskVars == <<files, archive>>
readVars == <<ini, cut>>
placeVars == <<sec, item>>
runVars == <<readVars, placeVars, garbled, hidden, leaked, result>>
vars == <<serverVars, diskVars, disabled, pc, runVars, abort, upset, faults>>

Procs == {"shell", "setup"}
Sections == 1 .. NSections
Items(s) == 1 .. NItems[s]
Releases == 1 .. MaxRelease
Contents == 0 .. MaxRelease
Labels == {"off", "idle", "check", "get", "fetch", "fetching", "verify",
           "open", "unzip", "writing", "done", "core"}
Cuts == {"no", "downloads", "checksums"}
Causes == {"other", "trouble"}

ServerTypeOK ==
    /\ published \in Releases
    /\ rewriting \in BOOLEAN
    /\ rewriting => published < MaxRelease
    /\ offered \in [Sections -> Contents]

FilesTypeOK ==
    /\ files \in [Sections -> UNION {[Items(s) -> Contents] : s \in Sections}]
    /\ \A s \in Sections : files[s] \in [Items(s) -> Contents]

\* Where a download stands.
PlaceTypeOK ==
    /\ pc \in [Procs -> Labels]
    /\ sec \in [Procs -> Sections]
    /\ item \in [Procs -> Nat]
    /\ \A p \in Procs : item[p] \in Items(sec[p])
    /\ result \in [Procs -> -6 .. 1]

TypeOK ==
    /\ ServerTypeOK
    /\ FilesTypeOK
    /\ archive \in [Sections -> Contents]
    /\ disabled \in BOOLEAN
    /\ PlaceTypeOK
    /\ ini \in [Procs -> Contents]
    /\ cut \in [Procs -> Cuts]
    /\ garbled \in [Procs -> BOOLEAN]
    /\ hidden \in [Procs -> SUBSET Sections]
    /\ leaked \in [Procs -> SUBSET Sections]
    /\ abort \in 0 .. 1
    /\ upset \in [Procs -> SUBSET Causes]
    /\ faults \in 0 .. MaxFaults

(* The installer has just registered the shell; there are no files yet.    *)
Init ==
    /\ published = 1
    /\ rewriting = FALSE
    /\ offered = [s \in Sections |-> 1]
    /\ files = [s \in Sections |-> [i \in Items(s) |-> 0]]
    /\ archive = [s \in Sections |-> 0]
    /\ disabled \in BOOLEAN
    /\ pc = [p \in Procs |-> IF p = "setup" THEN "idle" ELSE "off"]
    /\ ini = [p \in Procs |-> 0]
    /\ cut = [p \in Procs |-> "no"]
    /\ garbled = [p \in Procs |-> FALSE]
    /\ hidden = [p \in Procs |-> {}]
    /\ sec = [p \in Procs |-> 1]
    /\ item = [p \in Procs |-> 1]
    /\ leaked = [p \in Procs |-> {}]
    /\ result = [p \in Procs |-> 0]
    /\ abort = 0
    /\ upset = [p \in Procs |-> {}]
    /\ faults = 0

-----------------------------------------------------------------------------
Other(p) == CHOOSE q \in Procs : q # p
Downloading(p) == pc[p] \notin {"off", "idle", "core"}

\* Archives a process holds open: the one it unzips and the ones it forgot.
HeldBy(p) == leaked[p] \union (IF pc[p] \in {"unzip", "writing"} THEN {sec[p]} ELSE {})
Held(s) == \E p \in Procs : s \in HeldBy(p)

CompleteBut(H, r) == \A s \in Sections \ H : \A i \in Items(s) : files[s][i] = r
Complete(r) == CompleteBut({}, r)

\* The outcomes of comparing the archive of p's section with its checksum.
\* What is left of a cut checksum may be 0, which is also what the checksum
\* of a file that cannot be opened comes to.
Valid(p, isGarbled) ==
    IF isGarbled
    THEN IF archive[sec[p]] = 0 THEN BOOLEAN ELSE {FALSE}
    ELSE {archive[sec[p]] = ini[p]}

Fault ==
    /\ faults < MaxFaults
    /\ faults' = faults + 1

\* The download of p is disturbed, or that of the other process is.
Upsets(p, causes) == upset' = [upset EXCEPT ![p] = @ \union causes]
UpsetsOther(p) ==
    IF Downloading(Other(p)) THEN Upsets(Other(p), {"other"}) ELSE UNCHANGED upset

Goto(p, label) == pc' = [pc EXCEPT ![p] = label]
At(p, s, i) == sec' = [sec EXCEPT ![p] = s] /\ item' = [item EXCEPT ![p] = i]

\* The end of DoDownload.
Return(p, code) ==
    /\ Goto(p, "done")
    /\ result' = [result EXCEPT ![p] = code]
    /\ At(p, 1, 1)

\* On to the next section, or to the end.
NextSection(p) ==
    IF sec[p] < NSections
    THEN Goto(p, "check") /\ At(p, sec[p] + 1, 1) /\ UNCHANGED result
    ELSE Return(p, 0)

\* A section of p is not looked after, for all that the manifest says.
Hides(p) == hidden' = [hidden EXCEPT ![p] = @ \union {sec[p]}]

\* What a process leaves behind of a download that is over.
Clear(p) ==
    /\ ini' = [ini EXCEPT ![p] = 0]
    /\ cut' = [cut EXCEPT ![p] = "no"]
    /\ hidden' = [hidden EXCEPT ![p] = {}]
    /\ garbled' = [garbled EXCEPT ![p] = FALSE]
    /\ At(p, 1, 1)
    /\ result' = [result EXCEPT ![p] = 0]
    /\ upset' = [upset EXCEPT ![p] = {}]

-----------------------------------------------------------------------------
(* packager.rb replaces the archives one by one and then the manifest.  An *)
(* archive is removed before zip has made the new one.                     *)
UpsetsAll ==
    upset' = [p \in Procs |->
                IF Downloading(p) THEN upset[p] \union {"trouble"} ELSE upset[p]]

RemoveArchive(s) ==
    /\ published < MaxRelease
    /\ offered[s] = published
    /\ \A r \in 1 .. s - 1 : offered[r] = published + 1
    /\ offered' = [offered EXCEPT ![s] = 0]
    /\ UpsetsAll
    /\ UNCHANGED <<published, rewriting, diskVars, disabled, pc, runVars, abort, faults>>

PublishArchive(s) ==
    /\ published < MaxRelease
    /\ offered[s] = 0
    /\ offered' = [offered EXCEPT ![s] = published + 1]
    /\ UpsetsAll
    /\ UNCHANGED <<published, rewriting, diskVars, disabled, pc, runVars, abort, faults>>

(* File.write empties the manifest before it writes it.                    *)
EmptyManifest ==
    /\ published < MaxRelease
    /\ ~ rewriting
    /\ \A s \in Sections : offered[s] = published + 1
    /\ rewriting' = TRUE
    /\ UpsetsAll
    /\ UNCHANGED <<published, offered, diskVars, disabled, pc, runVars, abort, faults>>

PublishManifest ==
    /\ rewriting
    /\ rewriting' = FALSE
    /\ published' = published + 1
    /\ UpsetsAll
    /\ UNCHANGED <<offered, diskVars, disabled, pc, runVars, abort, faults>>

-----------------------------------------------------------------------------
(* config.ini may forbid the download.                                     *)
DownloadDisabled(p) ==
    /\ pc[p] = "idle"
    /\ disabled
    /\ Return(p, 1)
    /\ UNCHANGED <<serverVars, diskVars, disabled, readVars, garbled, hidden, leaked, abort, upset, faults>>

(* The manifest arrives, when the archives may already be of a newer       *)
(* release.  While it is being replaced only a part of the new one does.   *)
(* That a connection broke and cut it short is decided when it shows.      *)
LoadManifest(p) ==
    /\ pc[p] = "idle"
    /\ ~ disabled
    /\ Goto(p, "check")
    /\ IF rewriting
       THEN /\ Fault
            /\ ini' = [ini EXCEPT ![p] = published + 1]
            /\ \E where \in Cuts \ {"no"} : cut' = [cut EXCEPT ![p] = where]
       ELSE /\ UNCHANGED <<cut, faults>>
            /\ ini' = [ini EXCEPT ![p] = published]
    /\ upset' = [upset EXCEPT ![p] =
                   IF rewriting \/ \E s \in Sections : offered[s] # published
                   THEN {"trouble"} ELSE {}]
    /\ UNCHANGED <<serverVars, diskVars, disabled, placeVars, garbled, hidden, leaked, result, abort>>

\* What p sees now shows that its manifest was cut short there.
ShowsCut(p, where) ==
    \/ cut[p] = where /\ UNCHANGED <<cut, upset, faults>>
    \/ /\ cut[p] = "no"
       /\ cut' = [cut EXCEPT ![p] = where]
       /\ Upsets(p, {"trouble"})
       /\ Fault

(* No manifest, one without downloads (it is cut before them, or an error  *)
(* page of the server), or no directory to put the files in.               *)
LoadManifestFails(p) ==
    /\ pc[p] = "idle"
    /\ ~ disabled
    /\ \E code \in {-1, -2, -6} : Return(p, code)
    /\ Fault
    /\ Upsets(p, {"trouble"})
    /\ UNCHANGED <<serverVars, diskVars, disabled, readVars, garbled, hidden, leaked, abort>>

(* The loop passes over a section [downloads] does not name.               *)
PassOver(p) ==
    /\ pc[p] = "check"
    /\ item[p] = 1
    /\ ShowsCut(p, "downloads")
    /\ Hides(p)
    /\ NextSection(p)
    /\ UNCHANGED <<serverVars, diskVars, disabled, ini, garbled, leaked, abort>>

\* Fault: the first section that is right ends the loop over them.
CheckFirstSection(p) ==
    /\ pc[p] = "check"
    /\ IF files[sec[p]][item[p]] # ini[p]
       THEN Goto(p, "get") /\ At(p, sec[p], 1) /\ UNCHANGED result
       ELSE Return(p, 0)
    /\ UNCHANGED <<serverVars, diskVars, disabled, readVars, garbled, hidden, leaked, abort, upset,
                   faults>>

(* The files of the section, one by one, up to the first that differs.     *)
CheckFile(p) ==
    /\ pc[p] = "check"
    /\ IF files[sec[p]][item[p]] # ini[p]
       THEN Goto(p, "get") /\ At(p, sec[p], 1) /\ UNCHANGED result
       ELSE IF item[p] < NItems[sec[p]]
            THEN At(p, sec[p], item[p] + 1) /\ UNCHANGED <<pc, result>>
            ELSE NextSection(p)
    /\ UNCHANGED <<serverVars, diskVars, disabled, readVars, garbled, hidden, leaked, abort, upset, faults>>

\* Fault: any archive on the disk will do.
CheckArchivePresent(p) ==
    /\ pc[p] = "get"
    /\ Goto(p, IF archive[sec[p]] # 0 THEN "open" ELSE "fetch")
    /\ UNCHANGED <<serverVars, diskVars, disabled, runVars, abort, upset, faults>>

\* The archive on the disk will do.  A missing one that seems valid hides
\* its section.
Accept(p) ==
    /\ Goto(p, "open")
    /\ IF archive[sec[p]] = ini[p] THEN UNCHANGED hidden ELSE Hides(p)

\* The checksum of p's archive is whole, or what a cut has left of it.
ChecksumIs(p, isGarbled) ==
    IF isGarbled
    THEN ShowsCut(p, "checksums")
    ELSE cut[p] # "downloads" /\ UNCHANGED <<cut, upset, faults>>

(* GetSectionDownload: the archive on disk may be the right one.           *)
CheckArchive(p) ==
    /\ pc[p] = "get"
    /\ \E isGarbled \in BOOLEAN :
         /\ ChecksumIs(p, isGarbled)
         /\ \E valid \in Valid(p, isGarbled) :
              IF valid
              THEN Accept(p) /\ UNCHANGED garbled
              ELSE /\ Goto(p, "fetch")
                   /\ garbled' = [garbled EXCEPT ![p] = isGarbled]
                   /\ UNCHANGED hidden
    /\ UNCHANGED <<serverVars, diskVars, disabled, ini, placeVars, leaked, result, abort>>

\* GetFile deletes the archive first; it can neither delete nor replace one
\* that is open somewhere.
DeleteArchive(p) ==
    /\ pc[p] = "fetch"
    /\ IF Held(sec[p])
       THEN Goto(p, "verify") /\ Upsets(p, {"trouble"}) /\ UNCHANGED archive
       ELSE /\ Goto(p, "fetching")
            /\ archive' = [archive EXCEPT ![sec[p]] = 0]
            /\ UpsetsOther(p)
    /\ UNCHANGED <<serverVars, files, disabled, runVars, faults>>

\* Fault: the flag of an earlier cancel stays.
FetchBeginAborted(p) == DeleteArchive(p) /\ UNCHANGED abort

(* GetFile resets the shell's flag.                                        *)
FetchBegin(p) == DeleteArchive(p) /\ abort' = IF p = "shell" THEN 0 ELSE abort

(* URLDownloadToFile ends.  Only the shell has a dialog to cancel it.      *)
Fetch(p, content) ==
    /\ pc[p] = "fetching"
    /\ Goto(p, "verify")
    /\ archive' = [archive EXCEPT ![sec[p]] = content]
    /\ UNCHANGED <<serverVars, files, disabled, runVars, abort>>

FetchEnd(p) ==
    /\ ~ Held(sec[p])
    /\ Fetch(p, IF p = "shell" /\ abort = 1 THEN 0 ELSE offered[sec[p]])
    /\ UpsetsOther(p)
    /\ UNCHANGED faults

(* The connection breaks, or the other process has fetched and opened the  *)
(* archive meanwhile.                                                      *)
FetchFails(p) ==
    /\ Fetch(p, archive[sec[p]])
    /\ \/ Fault /\ Upsets(p, {"trouble"})
       \/ Held(sec[p]) /\ Upsets(p, {"trouble"}) /\ UNCHANGED faults

\* Fault: what was downloaded is not validated.
VerifyNothing(p) ==
    /\ pc[p] = "verify"
    /\ Goto(p, "open")
    /\ UNCHANGED <<serverVars, diskVars, disabled, runVars, abort, upset, faults>>

(* The checksum of what GetFile got, whose own result is ignored.          *)
VerifyArchive(p) ==
    /\ pc[p] = "verify"
    /\ \E valid \in Valid(p, garbled[p]) :
         IF valid
         THEN Accept(p) /\ UNCHANGED <<placeVars, result>>
         ELSE Return(p, -4) /\ UNCHANGED hidden
    /\ garbled' = [garbled EXCEPT ![p] = FALSE]
    /\ UNCHANGED <<serverVars, diskVars, disabled, readVars, leaked, abort, upset, faults>>

-----------------------------------------------------------------------------
OpenZip(p) ==
    /\ pc[p] = "open"
    /\ archive[sec[p]] # 0
    /\ Goto(p, "unzip")
    /\ UNCHANGED <<serverVars, diskVars, disabled, runVars, abort, upset, faults>>

(* There is no archive: it is gone since it was validated, or it was taken *)
(* for valid without being there.  GetZipItem leaves the number of items   *)
(* as it finds it: no item is unzipped, or the first fails.                *)
OpenZipFails(p) ==
    /\ pc[p] = "open"
    /\ archive[sec[p]] = 0
    /\ NextSection(p) \/ Return(p, -5)
    /\ UNCHANGED <<serverVars, diskVars, disabled, readVars, garbled, hidden, leaked, abort, upset, faults>>

SetFile(p, content) == files' = [files EXCEPT ![sec[p]][item[p]] = content]

(* UnzipItem truncates the file when it opens it ...                       *)
UnzipBegin(p) ==
    /\ pc[p] = "unzip"
    /\ LET q == Other(p) IN
         ~ (pc[q] = "writing" /\ sec[q] = sec[p] /\ item[q] = item[p])
    /\ Goto(p, "writing")
    /\ SetFile(p, 0)
    /\ UpsetsOther(p)
    /\ UNCHANGED <<serverVars, archive, disabled, runVars, abort, faults>>

\* Fault: one item too many is unzipped.
UnzipPastTheEnd(p) ==
    /\ pc[p] = "writing"
    /\ SetFile(p, archive[sec[p]])
    /\ IF item[p] <= NItems[sec[p]]
       THEN Goto(p, "unzip") /\ At(p, sec[p], item[p] + 1) /\ UNCHANGED result
       ELSE NextSection(p)
    /\ UpsetsOther(p)
    /\ UNCHANGED <<serverVars, archive, disabled, readVars, garbled, hidden, leaked, abort, faults>>

(* ... and completes it.  After the last item the archive is closed and    *)
(* the section is left without another look at its files.                  *)
UnzipEnd(p) ==
    /\ pc[p] = "writing"
    /\ SetFile(p, archive[sec[p]])
    /\ IF item[p] < NItems[sec[p]]
       THEN Goto(p, "unzip") /\ At(p, sec[p], item[p] + 1) /\ UNCHANGED result
       ELSE NextSection(p)
    /\ UpsetsOther(p)
    /\ UNCHANGED <<serverVars, archive, disabled, readVars, garbled, hidden, leaked, abort, faults>>

(* The disk refuses to open or to write the file, the core runs from it,   *)
(* or the other process reads or writes it.  The archive stays open.       *)
UnzipFails(p) ==
    /\ \/ pc[p] \in {"unzip", "writing"} /\ Fault /\ Upsets(p, {"trouble"})
       \/ /\ pc[p] = "unzip"
          /\ pc[Other(p)] \notin {"off", "idle", "done"}
          /\ Upsets(p, {"other"})
          /\ UNCHANGED faults
    /\ Return(p, -5)
    /\ leaked' = [leaked EXCEPT ![p] = @ \union {sec[p]}]
    /\ UNCHANGED <<serverVars, diskVars, disabled, readVars, garbled, hidden, abort>>

-----------------------------------------------------------------------------
(* The user cancels in the progress dialog, perhaps after the download it  *)
(* was shown for.                                                          *)
Cancel ==
    /\ pc["shell"] # "off"
    /\ Fault
    /\ abort' = 1
    /\ IF pc["shell"] = "fetching" THEN Upsets("shell", {"trouble"}) ELSE UNCHANGED upset
    /\ UNCHANGED <<serverVars, diskVars, disabled, pc, runVars>>

(* SpawnIt starts the core whatever DoDownload returned.                   *)
StartCore ==
    /\ pc["shell"] = "done"
    /\ Goto("shell", "core")
    /\ Clear("shell")
    /\ UNCHANGED <<serverVars, diskVars, disabled, leaked, abort, faults>>

(* The core ends to be updated, or to be started again after a crash.  For  *)
(* an update RunThread calls DoDownload and then SpawnIt, which calls it    *)
(* again: as if there had been a core in between that ended at once.        *)
CoreEnds ==
    /\ pc["shell"] = "core"
    /\ Goto("shell", "idle")
    /\ UNCHANGED <<serverVars, diskVars, disabled, runVars, abort, upset, faults>>

(* What a process has in memory goes with it, and so do its open files.    *)
ProcessEnds(p) ==
    /\ Goto(p, "off")
    /\ Clear(p)
    /\ leaked' = [leaked EXCEPT ![p] = {}]
    /\ abort' = IF p = "shell" THEN 0 ELSE abort
    /\ UNCHANGED <<serverVars, diskVars, disabled>>

\* QuickBooks closes, or the core did not start; the installer is done.
ShellEnds == pc["shell"] = "core" /\ ProcessEnds("shell") /\ UNCHANGED faults
SetupEnds == pc["setup"] = "done" /\ ProcessEnds("setup") /\ UNCHANGED faults

\* A process ends at any point: killed, or by an exception Read throws.
Crash(p) == pc[p] # "off" /\ Fault /\ ProcessEnds(p)

(* The checksum is looked up in a section that is not there or lacks it.   *)
NullDereference(p) ==
    /\ pc[p] = "get"
    /\ IF cut[p] = "no" THEN Fault ELSE UNCHANGED faults
    /\ ProcessEnds(p)

\* QuickBooks opens a company file and starts the shell.
ShellStarts ==
    /\ pc["shell"] = "off"
    /\ Goto("shell", "idle")
    /\ UNCHANGED <<serverVars, diskVars, disabled, runVars, abort, upset, faults>>

-----------------------------------------------------------------------------
Publish ==
    \/ \E s \in Sections : RemoveArchive(s) \/ PublishArchive(s)
    \/ EmptyManifest \/ PublishManifest

Work(p) ==
    \/ DownloadDisabled(p) \/ LoadManifest(p) \/ LoadManifestFails(p)
    \/ PassOver(p) \/ CheckFile(p) \/ CheckArchive(p) \/ NullDereference(p)
    \/ FetchBegin(p) \/ FetchEnd(p) \/ FetchFails(p) \/ VerifyArchive(p)
    \/ OpenZip(p) \/ OpenZipFails(p)
    \/ UnzipBegin(p) \/ UnzipEnd(p) \/ UnzipFails(p)

Next ==
    \/ Publish
    \/ \E p \in Procs : Work(p) \/ Crash(p)
    \/ Cancel
    \/ StartCore \/ ShellStarts
    \/ CoreEnds \/ ShellEnds \/ SetupEnds

Spec == Init /\ [][Next]_vars

(* The processes run, and of the user this: he closes QuickBooks now and   *)
(* then, and opens it again.                                               *)
LiveSpec ==
    /\ Spec
    /\ WF_vars(Work("shell") \/ StartCore \/ ShellStarts)
    /\ WF_vars(Work("setup") \/ SetupEnds)
    /\ SF_vars(ShellEnds)

-----------------------------------------------------------------------------
(* When DoDownload returns 0 every file of every section is of the release *)
(* its manifest names, although it looks at no file it has unzipped, and   *)
(* stays so, unless another process wrote to the directory meanwhile.      *)
(* Only a manifest that is cut short can hide a section from it: [downloads] *)
(* does not name it, or what is left of its checksum is 0, which a missing *)
(* archive matches.                                                        *)
SuccessMeansComplete ==
    \A p \in Procs :
        (pc[p] = "done" /\ result[p] = 0 /\ "other" \notin upset[p]) =>
            CompleteBut(hidden[p], ini[p])

(* A download that fails has been disturbed since it began: by the network, *)
(* the disk, a cancel while it was fetching, a publication in progress, a   *)
(* file in use, the other process, or an archive left open by itself.  No   *)
(* leftover of an earlier download on the disk or in memory suffices.       *)
NoFailureWithoutCause ==
    \A p \in Procs : (pc[p] = "done" /\ result[p] < 0) => upset[p] # {}

(* A file gets only the content the manifest of the process that writes it *)
(* vouches for, unless another process replaced the archive meanwhile.     *)
FilesAreVouchedFor ==
    [][\A s \in Sections : \A i \in Items(s) :
         (files'[s][i] # files[s][i] /\ files'[s][i] # 0)
           => \E p \in Procs :
                /\ pc[p] = "writing" /\ sec[p] = s /\ item[p] = i
                /\ "other" \in upset[p] \/ files'[s][i] = ini[p]]_vars

(* Torn files, stale archives, cancels, crashes and open archives are got  *)
(* over: the core's files become those of the last release, and stay so,   *)
(* unless the download is forbidden or the next release stays half done.   *)
HalfDone == \E s \in Sections : offered[s] # published

RepairedInTheEnd == <>[](disabled \/ HalfDone \/ Complete(published))

(* Downloader.cpp:369 returns -3 when there is no checksum, after a        *)
(* message that says so.  The process ends instead.                        *)
MissingChecksumReported ==
    [][\A p \in Procs :
         (pc[p] = "get" /\ cut[p] = "downloads" /\ pc'[p] # "get") => result'[p] = -3]_vars
=============================================================================
