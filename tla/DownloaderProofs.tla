--------------------------- MODULE DownloaderProofs ---------------------------
(***************************************************************************)
(* Proofs about Downloader, for any number of sections, files, releases    *)
(* and faults: type correctness, and from the inductive invariant that no  *)
(* success is reported of an incomplete directory, that no download fails  *)
(* without a cause, and that files get only what a manifest vouches for.   *)
(***************************************************************************)
EXTENDS Downloader, TLAPS

InSections == {"check", "get", "fetch", "fetching", "verify", "open", "unzip", "writing"}

SectionIs(s, r) == \A i \in Items(s) : files[s][i] = r

\* The manifest of p has not shown that it was cut short.
Whole(p) == cut[p] = "no" /\ garbled[p] = FALSE /\ hidden[p] = {}

\* What p has established so far, if no other process has written since.
Established(p) ==
    /\ pc[p] \in InSections =>
         \A s \in Sections : s < sec[p] => s \in hidden[p] \/ SectionIs(s, ini[p])
    /\ pc[p] \in {"check", "unzip", "writing"} =>
         \A i \in Items(sec[p]) : i < item[p] => files[sec[p]][i] = ini[p]
    /\ pc[p] = "open" =>
         archive[sec[p]] = ini[p] \/ (archive[sec[p]] = 0 /\ sec[p] \in hidden[p])
    /\ pc[p] \in {"unzip", "writing"} => archive[sec[p]] = ini[p]
    /\ (pc[p] = "done" /\ result[p] = 0) => CompleteBut(hidden[p], ini[p])

\* What holds for p while nothing at all disturbs it.
Undisturbed(p) ==
    /\ pc[p] \in InSections => Whole(p) /\ \A s \in Sections : offered[s] = ini[p]
    /\ pc[p] = "fetching" /\ p = "shell" => abort = 0
    /\ pc[p] = "verify" => archive[sec[p]] = ini[p]
    /\ pc[p] = "done" => result[p] >= 0

Safe(p) ==
    /\ pc[p] \in InSections => ini[p] # 0
    /\ pc[p] \in {"get", "fetch", "fetching", "verify", "open"} => item[p] = 1
    /\ pc[p] \in {"off", "idle", "core"} => sec[p] = 1 /\ item[p] = 1 /\ Whole(p)
    /\ "other" \notin upset[p] => Established(p)
    /\ upset[p] = {} => Undisturbed(p)

IInv == TypeOK /\ \A p \in Procs : Safe(p)

-----------------------------------------------------------------------------
(* The other one of the two processes.                                     *)
LEMMA OtherProc ==
    \A p \in Procs : Other(p) \in Procs /\ Other(p) # p
                    /\ \A q \in Procs : q # p => q = Other(p)
<1>1. ASSUME NEW p \in Procs PROVE \E q \in Procs : q # p
  BY DEF Procs
<1>2. ASSUME NEW p \in Procs PROVE Other(p) \in Procs /\ Other(p) # p
  BY <1>1 DEF Other
<1> QED
  BY <1>2 DEF Procs

(* What the actions share keeps the types.                                 *)
LEMMA GotoType ==
    ASSUME PlaceTypeOK, NEW p \in Procs, NEW l \in Labels, Goto(p, l)
    PROVE  pc' \in [Procs -> Labels]
BY DEF PlaceTypeOK, Goto

LEMMA AtType ==
    ASSUME PlaceTypeOK, NEW p \in Procs, NEW s \in Sections, NEW i \in Items(s), At(p, s, i)
    PROVE  /\ sec' \in [Procs -> Sections]
           /\ item' \in [Procs -> Nat]
           /\ \A q \in Procs : item'[q] \in Items(sec'[q])
<1>1. i \in Nat
  BY DownloaderAssumption DEF Items, Sections
<1> QED
  BY <1>1 DEF PlaceTypeOK, At

LEMMA FirstPlace == 1 \in Sections /\ \A s \in Sections : 1 \in Items(s)
BY DownloaderAssumption DEF Sections, Items

LEMMA GotoPlace ==
    ASSUME PlaceTypeOK, NEW p \in Procs, NEW l \in Labels, Goto(p, l),
           UNCHANGED <<sec, item, result>>
    PROVE  PlaceTypeOK'
BY GotoType DEF PlaceTypeOK

LEMMA ReturnPlace ==
    ASSUME PlaceTypeOK, NEW p \in Procs, NEW code \in -6 .. 1, Return(p, code)
    PROVE  PlaceTypeOK'
<1>1. pc' \in [Procs -> Labels]
  BY GotoType DEF Return, Labels
<1>2. result' \in [Procs -> -6 .. 1]
  BY DEF Return, PlaceTypeOK
<1> QED
  BY <1>1, <1>2, AtType, FirstPlace DEF Return, PlaceTypeOK

LEMMA MovePlace ==
    ASSUME PlaceTypeOK, NEW p \in Procs, NEW l \in Labels, Goto(p, l),
           NEW s \in Sections, NEW i \in Items(s), At(p, s, i),
           UNCHANGED result
    PROVE  PlaceTypeOK'
BY GotoType, AtType DEF PlaceTypeOK

LEMMA NextSectionPlace ==
    ASSUME PlaceTypeOK, NEW p \in Procs, NextSection(p)
    PROVE  PlaceTypeOK'
<1>1. CASE sec[p] < NSections
  <2>1. sec[p] + 1 \in Sections
    BY <1>1, DownloaderAssumption DEF PlaceTypeOK, Sections
  <2> QED
    BY <1>1, <2>1, FirstPlace, MovePlace DEF NextSection, Labels
<1>2. CASE ~ (sec[p] < NSections)
  BY <1>2, ReturnPlace DEF NextSection
<1> QED
  BY <1>1, <1>2

LEMMA NextItem ==
    ASSUME PlaceTypeOK, NEW p \in Procs, item[p] < NItems[sec[p]]
    PROVE  sec[p] \in Sections /\ item[p] + 1 \in Items(sec[p])
BY DownloaderAssumption DEF PlaceTypeOK, Items, Sections

LEMMA ClearPlace ==
    ASSUME TypeOK, NEW p \in Procs, Clear(p), NEW l \in Labels, Goto(p, l)
    PROVE  /\ PlaceTypeOK' /\ ini' \in [Procs -> Contents]
           /\ cut' \in [Procs -> Cuts] /\ garbled' \in [Procs -> BOOLEAN]
           /\ hidden' \in [Procs -> SUBSET Sections] /\ upset' \in [Procs -> SUBSET Causes]
<1> USE DEF TypeOK
<1>1. /\ cut' \in [Procs -> Cuts]
      /\ hidden' \in [Procs -> SUBSET Sections]
  BY DEF Clear, Cuts
<1>5. garbled' \in [Procs -> BOOLEAN]
  BY Zenon DEF Clear
<1>2. result' \in [Procs -> -6 .. 1]
  BY DEF Clear, PlaceTypeOK
<1>3. ini' \in [Procs -> Contents]
  BY DownloaderAssumption DEF Clear, Contents
<1>4. upset' \in [Procs -> SUBSET Causes]
  BY DEF Clear
<1> QED
  BY <1>1, <1>2, <1>3, <1>4, <1>5, GotoType, AtType, FirstPlace DEF Clear, PlaceTypeOK

LEMMA UpsetsType ==
    ASSUME TypeOK, NEW p \in Procs, NEW c \in SUBSET Causes
    PROVE  /\ Upsets(p, c) => upset' \in [Procs -> SUBSET Causes]
           /\ UpsetsOther(p) => upset' \in [Procs -> SUBSET Causes]
           /\ UpsetsAll => upset' \in [Procs -> SUBSET Causes]
<1>1. "other" \in Causes /\ "trouble" \in Causes
  BY DEF Causes
<1> QED
  BY <1>1, OtherProc DEF TypeOK, Upsets, UpsetsOther, UpsetsAll

LEMMA SetFileType ==
    ASSUME TypeOK, NEW p \in Procs, NEW c \in Contents, SetFile(p, c)
    PROVE  FilesTypeOK'
<1>1. sec[p] \in Sections /\ files[sec[p]] \in [Items(sec[p]) -> Contents]
  BY DEF TypeOK, PlaceTypeOK, FilesTypeOK
<1> DEFINE new == [files[sec[p]] EXCEPT ![item[p]] = c]
<1>2. new \in [Items(sec[p]) -> Contents]
  BY <1>1
<1>3. files' = [files EXCEPT ![sec[p]] = new]
  BY DEF SetFile
<1> HIDE DEF new
<1> QED
  BY <1>1, <1>2, <1>3 DEF TypeOK, FilesTypeOK

LEMMA FaultType == TypeOK /\ Fault => faults' \in 0 .. MaxFaults
BY DownloaderAssumption DEF TypeOK, Fault

(* What a manifest that is cut short changes keeps the types.              *)
LEMMA CutType ==
    ASSUME TypeOK, NEW p \in Procs
    PROVE  /\ Hides(p) => hidden' \in [Procs -> SUBSET Sections]
           /\ \A b \in BOOLEAN :
                garbled' = [garbled EXCEPT ![p] = b] => garbled' \in [Procs -> BOOLEAN]
           /\ \A where \in Cuts : ShowsCut(p, where) =>
                /\ cut' \in [Procs -> Cuts]
                /\ upset' \in [Procs -> SUBSET Causes]
                /\ faults' \in 0 .. MaxFaults
           /\ \A b \in BOOLEAN : ChecksumIs(p, b) =>
                /\ cut' \in [Procs -> Cuts]
                /\ upset' \in [Procs -> SUBSET Causes]
                /\ faults' \in 0 .. MaxFaults
<1>1. Hides(p) => hidden' \in [Procs -> SUBSET Sections]
  BY DEF TypeOK, PlaceTypeOK, Hides
<1>2. ASSUME NEW b \in BOOLEAN, garbled' = [garbled EXCEPT ![p] = b]
      PROVE  garbled' \in [Procs -> BOOLEAN]
  BY <1>2, Zenon DEF TypeOK
<1>3. ASSUME NEW where \in Cuts, ShowsCut(p, where)
      PROVE  /\ cut' \in [Procs -> Cuts]
             /\ upset' \in [Procs -> SUBSET Causes]
             /\ faults' \in 0 .. MaxFaults
  <2>1. {"trouble"} \in SUBSET Causes
    BY DEF Causes
  <2> QED
    BY <1>3, <2>1, UpsetsType, FaultType DEF ShowsCut, TypeOK
<1>4. ASSUME NEW b \in BOOLEAN, ChecksumIs(p, b)
      PROVE  /\ cut' \in [Procs -> Cuts]
             /\ upset' \in [Procs -> SUBSET Causes]
             /\ faults' \in 0 .. MaxFaults
  <2>1. "checksums" \in Cuts
    BY DEF Cuts
  <2> QED
    BY <1>3, <1>4, <2>1 DEF ChecksumIs, TypeOK
<1> QED
  BY <1>1, <1>2, <1>3, <1>4

(* An archive is compared with a whole checksum or with what is left of it. *)
LEMMA ValidIs ==
    ASSUME NEW p \in Procs, NEW b \in BOOLEAN, NEW valid \in Valid(p, b)
    PROVE  /\ valid \in BOOLEAN
           /\ valid => archive[sec[p]] = ini[p] \/ (b /\ archive[sec[p]] = 0)
           /\ ~ valid => archive[sec[p]] # ini[p] \/ b
<1>1. CASE b
  BY <1>1 DEF Valid
<1>2. CASE ~ b
  BY <1>2 DEF Valid
<1> QED
  BY <1>1, <1>2

(* Every step keeps the types.                                             *)
LEMMA TypeStep == TypeOK /\ [Next]_vars => TypeOK'
<1> SUFFICES ASSUME TypeOK, [Next]_vars PROVE TypeOK'
  OBVIOUS
<1> USE DEF TypeOK, serverVars, diskVars, readVars, placeVars, runVars
<1>p. PlaceTypeOK /\ FilesTypeOK
  OBVIOUS
<1>u. /\ UNCHANGED <<published, rewriting, offered>> => ServerTypeOK'
      /\ UNCHANGED files => FilesTypeOK'
      /\ UNCHANGED <<pc, sec, item, result>> => PlaceTypeOK'
  BY <1>p DEF ServerTypeOK, FilesTypeOK, PlaceTypeOK
<1>k. {"other", "trouble"} = Causes /\ {} \in SUBSET Causes
  BY DEF Causes
<1>l. \A p \in Procs : sec[p] \in Sections /\ item[p] \in Items(sec[p])
  BY <1>p DEF PlaceTypeOK
<1>r. /\ published \in Contents
      /\ published < MaxRelease => published + 1 \in Releases /\ published + 1 \in Contents
  BY DownloaderAssumption DEF ServerTypeOK, Releases, Contents
<1>1. CASE Publish
  <2>2. ServerTypeOK'
    <3>1. CASE \E s \in Sections : RemoveArchive(s)
      <4>1. 0 \in Contents
        BY DownloaderAssumption DEF Contents
      <4> QED
        BY <3>1, <4>1 DEF RemoveArchive, ServerTypeOK
    <3>2. CASE \E s \in Sections : PublishArchive(s)
      BY <1>r, <3>2 DEF PublishArchive, ServerTypeOK
    <3>3. CASE EmptyManifest
      BY <3>3 DEF EmptyManifest, ServerTypeOK
    <3>4. CASE PublishManifest
      BY <1>r, <3>4 DEF PublishManifest, ServerTypeOK
    <3> QED
      BY <1>1, <3>1, <3>2, <3>3, <3>4 DEF Publish
  <2>3. upset' \in [Procs -> SUBSET Causes]
    <3>1. UpsetsAll
      BY <1>1 DEF Publish, RemoveArchive, PublishArchive, EmptyManifest, PublishManifest
    <3> QED
      BY <1>k, <3>1 DEF UpsetsAll
  <2> QED
    BY <1>1, <1>u, <2>2, <2>3
    DEF Publish, RemoveArchive, PublishArchive, EmptyManifest, PublishManifest
<1>3. ASSUME NEW p \in Procs, DownloadDisabled(p) PROVE TypeOK'
  <2>1. PlaceTypeOK'
    BY <1>3, <1>p, ReturnPlace DEF DownloadDisabled
  <2> QED
    BY <1>3, <1>u, <2>1 DEF DownloadDisabled
<1>4. ASSUME NEW p \in Procs, LoadManifest(p) PROVE TypeOK'
  <2>1. PlaceTypeOK'
    BY <1>4, <1>p, GotoPlace DEF LoadManifest, Labels
  <2>2. ini' \in [Procs -> Contents]
    BY <1>4, <1>r DEF LoadManifest, ServerTypeOK
  <2>3. cut' \in [Procs -> Cuts]
    BY <1>4 DEF LoadManifest
  <2>4. upset' \in [Procs -> SUBSET Causes]
    BY <1>4, <1>k DEF LoadManifest
  <2>5. faults' \in 0 .. MaxFaults
    BY <1>4, FaultType DEF LoadManifest
  <2> QED
    BY <1>4, <1>u, <2>1, <2>2, <2>3, <2>4, <2>5 DEF LoadManifest
<1>2. ASSUME NEW p \in Procs, PassOver(p) PROVE TypeOK'
  <2>1. PlaceTypeOK'
    BY <1>2, <1>p, NextSectionPlace DEF PassOver
  <2>2. /\ cut' \in [Procs -> Cuts] /\ upset' \in [Procs -> SUBSET Causes]
        /\ faults' \in 0 .. MaxFaults /\ hidden' \in [Procs -> SUBSET Sections]
    BY <1>2, CutType DEF PassOver, Cuts
  <2> QED
    BY <1>2, <1>u, <2>1, <2>2 DEF PassOver
<1>5. ASSUME NEW p \in Procs, LoadManifestFails(p) PROVE TypeOK'
  <2>1. PlaceTypeOK'
    BY <1>5, <1>p, ReturnPlace DEF LoadManifestFails
  <2>2. upset' \in [Procs -> SUBSET Causes]
    BY <1>5, <1>k, UpsetsType DEF LoadManifestFails
  <2>3. faults' \in 0 .. MaxFaults
    BY <1>5, FaultType DEF LoadManifestFails
  <2> QED
    BY <1>5, <1>u, <2>1, <2>2, <2>3 DEF LoadManifestFails
<1>6. ASSUME NEW p \in Procs, CheckFile(p) PROVE TypeOK'
  <2>1. PlaceTypeOK'
    <3>1. CASE files[sec[p]][item[p]] # ini[p]
      BY <1>6, <1>p, <1>l, <3>1, MovePlace, FirstPlace DEF CheckFile, Labels
    <3>2. CASE files[sec[p]][item[p]] = ini[p] /\ item[p] < NItems[sec[p]]
      <4>1. At(p, sec[p], item[p] + 1) /\ UNCHANGED <<pc, result>>
        BY <1>6, <3>2 DEF CheckFile
      <4> QED
        BY <1>p, <3>2, <4>1, NextItem, AtType DEF PlaceTypeOK
    <3>3. CASE files[sec[p]][item[p]] = ini[p] /\ ~ (item[p] < NItems[sec[p]])
      BY <1>6, <1>p, <3>3, NextSectionPlace DEF CheckFile
    <3> QED
      BY <3>1, <3>2, <3>3
  <2> QED
    BY <1>6, <1>u, <2>1 DEF CheckFile
<1>7. ASSUME NEW p \in Procs, CheckArchive(p) PROVE TypeOK'
  <2>1. PlaceTypeOK'
    BY <1>7, <1>p, GotoPlace DEF CheckArchive, Accept, Labels
  <2>2. cut' \in [Procs -> Cuts] /\ upset' \in [Procs -> SUBSET Causes] /\ faults' \in 0 .. MaxFaults
    BY <1>7, CutType DEF CheckArchive
  <2>3. hidden' \in [Procs -> SUBSET Sections]
    BY <1>7, CutType DEF CheckArchive, Accept
  <2>4. garbled' \in [Procs -> BOOLEAN]
    BY <1>7, CutType DEF CheckArchive
  <2> QED
    BY <1>7, <1>u, <2>1, <2>2, <2>3, <2>4 DEF CheckArchive
<1>8. ASSUME NEW p \in Procs, ProcessEnds(p), faults' \in 0 .. MaxFaults PROVE TypeOK'
  <2>1. /\ PlaceTypeOK' /\ ini' \in [Procs -> Contents]
        /\ cut' \in [Procs -> Cuts] /\ garbled' \in [Procs -> BOOLEAN]
        /\ hidden' \in [Procs -> SUBSET Sections] /\ upset' \in [Procs -> SUBSET Causes]
    BY <1>8, ClearPlace DEF ProcessEnds, Labels
  <2>2. leaked' \in [Procs -> SUBSET Sections] /\ abort' \in 0 .. 1
    BY <1>8 DEF ProcessEnds
  <2> QED
    BY <1>8, <1>u, <2>1, <2>2 DEF ProcessEnds
<1>9. ASSUME NEW p \in Procs, FetchBegin(p) PROVE TypeOK'
  <2>1. PlaceTypeOK'
    BY <1>9, <1>p, GotoPlace DEF FetchBegin, DeleteArchive, Labels
  <2>2. upset' \in [Procs -> SUBSET Causes]
    BY <1>9, <1>k, UpsetsType DEF FetchBegin, DeleteArchive
  <2>3. archive' \in [Sections -> Contents]
    BY <1>9, DownloaderAssumption DEF FetchBegin, DeleteArchive, Contents
  <2>4. abort' \in 0 .. 1
    BY <1>9 DEF FetchBegin
  <2> QED
    BY <1>9, <1>u, <2>1, <2>2, <2>3, <2>4 DEF FetchBegin, DeleteArchive
<1>10. ASSUME NEW p \in Procs, NEW c \in Contents, Fetch(p, c),
              upset' \in [Procs -> SUBSET Causes], faults' \in 0 .. MaxFaults
       PROVE  TypeOK'
  <2>1. PlaceTypeOK'
    BY <1>10, <1>p, GotoPlace DEF Fetch, Labels
  <2>2. archive' \in [Sections -> Contents]
    BY <1>10, <1>l DEF Fetch
  <2> QED
    BY <1>10, <1>u, <2>1, <2>2 DEF Fetch
<1>11. ASSUME NEW p \in Procs, FetchEnd(p) PROVE TypeOK'
  <2>1. offered[sec[p]] \in Contents /\ 0 \in Contents
    BY <1>l, DownloaderAssumption DEF ServerTypeOK, Releases, Contents
  <2>2. upset' \in [Procs -> SUBSET Causes]
    BY <1>11, <1>k, UpsetsType DEF FetchEnd
  <2> QED
    BY <1>10, <1>11, <2>1, <2>2 DEF FetchEnd
<1>12. ASSUME NEW p \in Procs, FetchFails(p) PROVE TypeOK'
  <2>1. archive[sec[p]] \in Contents
    BY <1>l
  <2>2. upset' \in [Procs -> SUBSET Causes]
    BY <1>12, <1>k, UpsetsType DEF FetchFails
  <2>3. faults' \in 0 .. MaxFaults
    BY <1>12, FaultType DEF FetchFails
  <2> QED
    BY <1>10, <1>12, <2>1, <2>2, <2>3 DEF FetchFails
<1>13. ASSUME NEW p \in Procs, VerifyArchive(p) PROVE TypeOK'
  <2>1. PlaceTypeOK'
    BY <1>13, <1>p, GotoPlace, ReturnPlace DEF VerifyArchive, Accept, Labels
  <2>2. hidden' \in [Procs -> SUBSET Sections]
    BY <1>13, CutType DEF VerifyArchive, Accept
  <2>3. garbled' \in [Procs -> BOOLEAN]
    BY <1>13, CutType DEF VerifyArchive
  <2> QED
    BY <1>13, <1>u, <2>1, <2>2, <2>3 DEF VerifyArchive
<1>14. ASSUME NEW p \in Procs, OpenZip(p) PROVE TypeOK'
  <2>1. PlaceTypeOK'
    BY <1>14, <1>p, GotoPlace DEF OpenZip, Labels
  <2> QED
    BY <1>14, <1>u, <2>1 DEF OpenZip
<1>15. ASSUME NEW p \in Procs, OpenZipFails(p) PROVE TypeOK'
  <2>1. PlaceTypeOK'
    BY <1>15, <1>p, NextSectionPlace, ReturnPlace DEF OpenZipFails
  <2> QED
    BY <1>15, <1>u, <2>1 DEF OpenZipFails
<1>16. ASSUME NEW p \in Procs, UnzipBegin(p) PROVE TypeOK'
  <2>1. PlaceTypeOK'
    BY <1>16, <1>p, GotoPlace DEF UnzipBegin, Labels
  <2>2. FilesTypeOK'
    BY <1>16, SetFileType, DownloaderAssumption DEF UnzipBegin, Contents
  <2>3. upset' \in [Procs -> SUBSET Causes]
    BY <1>16, <1>k, UpsetsType DEF UnzipBegin
  <2> QED
    BY <1>16, <1>u, <2>1, <2>2, <2>3 DEF UnzipBegin
<1>17. ASSUME NEW p \in Procs, UnzipEnd(p) PROVE TypeOK'
  <2>1. PlaceTypeOK'
    <3>1. CASE item[p] < NItems[sec[p]]
      BY <1>17, <1>p, <3>1, MovePlace, NextItem DEF UnzipEnd, Labels
    <3>2. CASE ~ (item[p] < NItems[sec[p]])
      BY <1>17, <1>p, <3>2, NextSectionPlace DEF UnzipEnd
    <3> QED
      BY <3>1, <3>2
  <2>2. FilesTypeOK'
    BY <1>17, <1>l, SetFileType DEF UnzipEnd
  <2>3. upset' \in [Procs -> SUBSET Causes]
    BY <1>17, <1>k, UpsetsType DEF UnzipEnd
  <2> QED
    BY <1>17, <1>u, <2>1, <2>2, <2>3 DEF UnzipEnd
<1>18. ASSUME NEW p \in Procs, UnzipFails(p) PROVE TypeOK'
  <2>1. PlaceTypeOK'
    BY <1>18, <1>p, ReturnPlace DEF UnzipFails
  <2>2. upset' \in [Procs -> SUBSET Causes]
    BY <1>18, <1>k, UpsetsType DEF UnzipFails
  <2>3. faults' \in 0 .. MaxFaults
    BY <1>18, FaultType DEF UnzipFails
  <2>4. leaked' \in [Procs -> SUBSET Sections]
    BY <1>18, <1>l DEF UnzipFails
  <2> QED
    BY <1>18, <1>u, <2>1, <2>2, <2>3, <2>4 DEF UnzipFails
<1>19. CASE Cancel
  <2>1. upset' \in [Procs -> SUBSET Causes]
    BY <1>19, <1>k, UpsetsType DEF Cancel, Procs
  <2>2. faults' \in 0 .. MaxFaults
    BY <1>19, FaultType DEF Cancel
  <2> QED
    BY <1>19, <1>u, <2>1, <2>2 DEF Cancel
<1>20. CASE StartCore
  <2>1. /\ PlaceTypeOK' /\ ini' \in [Procs -> Contents]
        /\ cut' \in [Procs -> Cuts] /\ garbled' \in [Procs -> BOOLEAN]
        /\ hidden' \in [Procs -> SUBSET Sections] /\ upset' \in [Procs -> SUBSET Causes]
    BY <1>20, ClearPlace DEF StartCore, Labels, Procs
  <2> QED
    BY <1>20, <1>u, <2>1 DEF StartCore
<1>21. CASE ShellStarts \/ CoreEnds
  <2>1. PlaceTypeOK'
    BY <1>21, <1>p, GotoPlace DEF ShellStarts, CoreEnds, Labels, Procs
  <2> QED
    BY <1>21, <1>u, <2>1 DEF ShellStarts, CoreEnds
<1>22. CASE ShellEnds \/ SetupEnds
  BY <1>8, <1>22 DEF ShellEnds, SetupEnds, Procs
<1>23. ASSUME NEW p \in Procs, Crash(p) \/ NullDereference(p) PROVE TypeOK'
  BY <1>8, <1>23, FaultType DEF Crash, NullDereference
<1>24. CASE UNCHANGED vars
  BY <1>24, <1>u DEF vars
<1> QED
  BY <1>1, <1>2, <1>3, <1>4, <1>5, <1>6, <1>7, <1>9, <1>11, <1>12, <1>13, <1>14, <1>15,
     <1>16, <1>17, <1>18, <1>19, <1>20, <1>21, <1>22, <1>23, <1>24
  DEF Next, Publish, Work

LEMMA TypeInit == Init => TypeOK
<1> SUFFICES ASSUME Init PROVE TypeOK
  OBVIOUS
<1>1. FilesTypeOK /\ archive \in [Sections -> Contents]
  BY DownloaderAssumption DEF Init, FilesTypeOK, Contents
<1>2. ServerTypeOK
  <2>1. published \in Releases /\ offered \in [Sections -> Contents]
    BY DownloaderAssumption DEF Init, Releases, Contents
  <2>2. rewriting \in BOOLEAN /\ ~ rewriting
    BY Zenon DEF Init
  <2> QED
    BY <2>1, <2>2 DEF ServerTypeOK
<1>3. PlaceTypeOK
  BY FirstPlace DEF Init, PlaceTypeOK, Labels
<1>4. garbled \in [Procs -> BOOLEAN]
  BY Zenon DEF Init
<1>5. disabled \in BOOLEAN /\ cut \in [Procs -> Cuts] /\ hidden \in [Procs -> SUBSET Sections]
  BY DEF Init, Cuts
<1>6. /\ ini \in [Procs -> Contents] /\ leaked \in [Procs -> SUBSET Sections]
      /\ abort \in 0 .. 1 /\ upset \in [Procs -> SUBSET Causes] /\ faults \in 0 .. MaxFaults
  BY DownloaderAssumption DEF Init, Contents
<1> QED
  BY <1>1, <1>2, <1>3, <1>4, <1>5, <1>6, Zenon DEF TypeOK

(* Downloader's type invariant, for every value of the constants.          *)
THEOREM TypeCorrect == Spec => []TypeOK
BY TypeInit, TypeStep, PTL DEF Spec

-----------------------------------------------------------------------------
(* A process whose own variables stay as they are stays safe, if it hears  *)
(* of what changes under it.                                               *)
LEMMA StaysSafe ==
    ASSUME NEW q \in Procs, Safe(q),
           pc'[q] = pc[q], sec'[q] = sec[q], item'[q] = item[q],
           ini'[q] = ini[q], result'[q] = result[q],
           cut'[q] = cut[q], garbled'[q] = garbled[q], hidden'[q] = hidden[q],
           "other" \notin upset'[q] =>
             "other" \notin upset[q] /\ (UNCHANGED <<files, archive>> \/ ~ Downloading(q)),
           upset'[q] = {} =>
             /\ upset[q] = {}
             /\ UNCHANGED <<archive, offered>> \/ ~ Downloading(q)
             /\ q = "shell" => abort' = abort
    PROVE  Safe(q)'
<1>1. /\ pc'[q] \in InSections => ini'[q] # 0
      /\ pc'[q] \in {"get", "fetch", "fetching", "verify", "open"} => item'[q] = 1
      /\ pc'[q] \in {"off", "idle", "core"} => sec'[q] = 1 /\ item'[q] = 1 /\ Whole(q)'
  BY DEF Safe, Whole
<1>2. ASSUME "other" \notin upset'[q] PROVE Established(q)'
  <2>1. CASE Downloading(q)
    BY <1>2, <2>1 DEF Safe, Established, SectionIs, CompleteBut
  <2>2. CASE ~ Downloading(q)
    BY <2>2 DEF Downloading, InSections, Established
  <2> QED
    BY <2>1, <2>2
<1>3. ASSUME upset'[q] = {} PROVE Undisturbed(q)'
  <2>1. CASE Downloading(q)
    BY <1>3, <2>1 DEF Safe, Undisturbed, Whole
  <2>2. CASE ~ Downloading(q)
    BY <2>2 DEF Downloading, InSections, Undisturbed
  <2> QED
    BY <2>1, <2>2
<1> QED
  BY <1>1, <1>2, <1>3 DEF Safe

(* A download may fail, if it has a reason to.                             *)
LEMMA ReturnSafe ==
    ASSUME PlaceTypeOK, NEW p \in Procs, NEW code \in -6 .. 1, Return(p, code), code # 0,
           upset'[p] = {} => code >= 0
    PROVE  Safe(p)'
<1>1. pc'[p] = "done" /\ result'[p] = code
  BY DEF Return, Goto, PlaceTypeOK
<1> QED
  BY <1>1 DEF Safe, Established, Undisturbed, InSections

(* A process that does not download is safe.                               *)
LEMMA RestSafe ==
    ASSUME PlaceTypeOK, NEW p \in Procs, NEW l \in {"off", "idle", "core"}, Goto(p, l),
           sec'[p] = 1, item'[p] = 1, Whole(p)'
    PROVE  Safe(p)'
<1>1. pc'[p] = l
  BY DEF Goto, PlaceTypeOK
<1> QED
  BY <1>1 DEF Safe, Established, Undisturbed, InSections

(* After a section that is right comes the next, or success.               *)
LEMMA NextSectionSafe ==
    ASSUME PlaceTypeOK, NEW p \in Procs, NextSection(p),
           ini'[p] = ini[p], ini[p] # 0,
           "other" \notin upset'[p] =>
             \A s \in Sections : s <= sec[p] => s \in hidden'[p] \/ SectionIs(s, ini[p])',
           upset'[p] = {} => Whole(p)' /\ \A s \in Sections : offered'[s] = ini[p]
    PROVE  Safe(p)'
<1>1. CASE sec[p] < NSections
  <2>1. pc'[p] = "check" /\ sec'[p] = sec[p] + 1 /\ item'[p] = 1
    BY <1>1 DEF NextSection, Goto, At, PlaceTypeOK
  <2>2. \A s \in Sections : s < sec[p] + 1 => s <= sec[p]
    BY DownloaderAssumption DEF PlaceTypeOK, Sections
  <2>3. sec'[p] \in Sections
    BY <1>1, <2>1, DownloaderAssumption DEF PlaceTypeOK, Sections
  <2>4. \A i \in Items(sec'[p]) : ~ (i < 1)
    BY <2>3, DownloaderAssumption DEF Items, Sections
  <2> QED
    BY <2>1, <2>2, <2>4 DEF Safe, Established, Undisturbed, InSections, SectionIs
<1>2. CASE ~ (sec[p] < NSections)
  <2>1. pc'[p] = "done" /\ result'[p] = 0
    BY <1>2 DEF NextSection, Return, Goto, PlaceTypeOK
  <2>2. \A s \in Sections : s <= sec[p]
    BY <1>2, DownloaderAssumption DEF PlaceTypeOK, Sections
  <2> QED
    BY <2>1, <2>2 DEF Safe, Established, Undisturbed, InSections, SectionIs, CompleteBut
<1> QED
  BY <1>1, <1>2

LEMMA InitSafe == Init => \A p \in Procs : Safe(p)
BY DEF Init, Procs, Safe, Established, Undisturbed, InSections, Whole

(* What a write to the disk does to the other process.                     *)
LEMMA OthersSafe ==
    ASSUME TypeOK, NEW p \in Procs, \A q \in Procs : Safe(q),
           \A q \in Procs : q # p =>
             /\ pc'[q] = pc[q] /\ sec'[q] = sec[q] /\ item'[q] = item[q]
             /\ ini'[q] = ini[q] /\ result'[q] = result[q]
             /\ cut'[q] = cut[q] /\ garbled'[q] = garbled[q] /\ hidden'[q] = hidden[q],
           UpsetsOther(p) \/ (UNCHANGED <<files, archive>>
                               /\ \A q \in Procs : q # p => upset'[q] = upset[q]),
           UNCHANGED offered,
           p = "shell" \/ abort' = abort
    PROVE  \A q \in Procs : q # p => Safe(q)'
<1> SUFFICES ASSUME NEW q \in Procs, q # p PROVE Safe(q)'
  OBVIOUS
<1>1. q = Other(p)
  BY OtherProc
<1>2. q = "shell" => abort' = abort
  OBVIOUS
<1>3. CASE UpsetsOther(p)
  <2>1. CASE Downloading(q)
    <3>1. upset'[q] = upset[q] \union {"other"}
      BY <1>1, <1>3, <2>1 DEF UpsetsOther, Upsets, TypeOK
    <3> QED
      BY <1>2, <3>1, StaysSafe
  <2>2. CASE ~ Downloading(q)
    <3>1. upset'[q] = upset[q]
      BY <1>1, <1>3, <2>2 DEF UpsetsOther
    <3> QED
      BY <1>2, <2>2, <3>1, StaysSafe
  <2> QED
    BY <2>1, <2>2
<1>4. CASE UNCHANGED <<files, archive>> /\ upset'[q] = upset[q]
  BY <1>2, <1>4, StaysSafe
<1> QED
  BY <1>3, <1>4

(* Each step of a process leaves the place of the other alone.             *)
LEMMA OtherPlace ==
    ASSUME PlaceTypeOK, NEW p \in Procs, NEW q \in Procs, q # p
    PROVE  /\ \A l : Goto(p, l) => pc'[q] = pc[q]
           /\ \A s, i : At(p, s, i) => sec'[q] = sec[q] /\ item'[q] = item[q]
           /\ \A code : Return(p, code) =>
                /\ pc'[q] = pc[q] /\ sec'[q] = sec[q] /\ item'[q] = item[q]
                /\ result'[q] = result[q]
           /\ NextSection(p) =>
                /\ pc'[q] = pc[q] /\ sec'[q] = sec[q] /\ item'[q] = item[q]
                /\ result'[q] = result[q]
BY DEF PlaceTypeOK, Goto, At, Return, NextSection

(* ... and so does what it learns of its manifest.                         *)
LEMMA OtherManifest ==
    ASSUME TypeOK, NEW p \in Procs, NEW q \in Procs, q # p
    PROVE  /\ Hides(p) => hidden'[q] = hidden[q]
           /\ \A b : garbled' = [garbled EXCEPT ![p] = b] => garbled'[q] = garbled[q]
           /\ \A where : ShowsCut(p, where) => cut'[q] = cut[q] /\ upset'[q] = upset[q]
           /\ \A b : ChecksumIs(p, b) => cut'[q] = cut[q] /\ upset'[q] = upset[q]
           /\ Clear(p) => /\ ini'[q] = ini[q] /\ result'[q] = result[q] /\ upset'[q] = upset[q]
                          /\ cut'[q] = cut[q] /\ garbled'[q] = garbled[q] /\ hidden'[q] = hidden[q]
                          /\ sec'[q] = sec[q] /\ item'[q] = item[q]
BY DEF TypeOK, PlaceTypeOK, Hides, ShowsCut, ChecksumIs, Upsets, Clear, At

(* A process that sees that its manifest was cut short is upset.           *)
LEMMA CutUpsets ==
    ASSUME TypeOK, NEW p \in Procs, Safe(p), pc[p] \in InSections
    PROVE  /\ \A where \in Cuts \ {"no"} : ShowsCut(p, where) =>
                upset'[p] # {} /\ ("other" \in upset[p] => "other" \in upset'[p])
           /\ ChecksumIs(p, TRUE) =>
                upset'[p] # {} /\ ("other" \in upset[p] => "other" \in upset'[p])
           /\ ChecksumIs(p, FALSE) => UNCHANGED <<cut, upset>>
<1>1. ASSUME NEW where \in Cuts \ {"no"}, ShowsCut(p, where)
      PROVE  upset'[p] # {} /\ ("other" \in upset[p] => "other" \in upset'[p])
  <2>1. CASE cut[p] = where /\ UNCHANGED upset
    BY <2>1 DEF Safe, Undisturbed, Whole
  <2>2. CASE Upsets(p, {"trouble"})
    BY <2>2 DEF Upsets, TypeOK
  <2> QED
    BY <1>1, <2>1, <2>2 DEF ShowsCut
<1> QED
  BY <1>1 DEF ChecksumIs, Cuts

(* What has begun anew has not been disturbed yet.                         *)
LEMMA ClearFresh ==
    ASSUME TypeOK, NEW p \in Procs, Clear(p)
    PROVE  sec'[p] = 1 /\ item'[p] = 1 /\ Whole(p)'
BY DEF TypeOK, PlaceTypeOK, Clear, At, Whole

(* What is disturbed: the process itself, or only the other one.           *)
LEMMA UpsetsWhom ==
    ASSUME TypeOK, NEW p \in Procs
    PROVE  /\ \A c : Upsets(p, c) => /\ upset'[p] = upset[p] \union c
                                     /\ \A q \in Procs : q # p => upset'[q] = upset[q]
           /\ UpsetsOther(p) => upset'[p] = upset[p]
BY OtherProc DEF TypeOK, Upsets, UpsetsOther

(* Every step keeps every process safe.                                    *)
LEMMA SafeStep == IInv /\ [Next]_vars => \A p \in Procs : Safe(p)'
<1> SUFFICES ASSUME IInv, [Next]_vars PROVE \A p \in Procs : Safe(p)'
  OBVIOUS
<1> USE DEF serverVars, diskVars, readVars, placeVars, runVars
<1>t. TypeOK /\ PlaceTypeOK /\ \A p \in Procs : Safe(p)
  BY DEF IInv, TypeOK
<1>l. \A p \in Procs : sec[p] \in Sections /\ item[p] \in Items(sec[p])
  BY <1>t DEF PlaceTypeOK
<1>1. CASE Publish
  <2> SUFFICES ASSUME NEW q \in Procs PROVE Safe(q)'
    OBVIOUS
  <2>1. /\ UpsetsAll
        /\ UNCHANGED <<files, archive, pc, sec, item, ini, result, cut, garbled, hidden, abort>>
    BY <1>1 DEF Publish, RemoveArchive, PublishArchive, EmptyManifest, PublishManifest
  <2>2. upset'[q] = IF Downloading(q) THEN upset[q] \union {"trouble"} ELSE upset[q]
    BY <2>1 DEF UpsetsAll
  <2> QED
    BY <1>t, <2>1, <2>2, StaysSafe
<1>2. CASE Cancel
  <2> SUFFICES ASSUME NEW q \in Procs PROVE Safe(q)'
    OBVIOUS
  <2>1. UNCHANGED <<files, archive, offered, pc, sec, item, ini, result, cut, garbled, hidden>>
    BY <1>2 DEF Cancel
  <2>2. CASE q = "shell" /\ pc[q] = "fetching"
    <3>1. upset'[q] = upset[q] \union {"trouble"}
      BY <1>2, <1>t, <2>2, UpsetsWhom DEF Cancel
    <3> QED
      BY <1>t, <2>1, <3>1, StaysSafe
  <2>3. CASE q = "shell" /\ pc[q] # "fetching"
    <3>1. upset'[q] = upset[q]
      BY <1>2, <2>3 DEF Cancel
    <3> QED
      BY <1>t, <2>1, <2>3, <3>1 DEF Safe, Established, Undisturbed, Whole, SectionIs, CompleteBut
  <2>4. CASE q # "shell"
    <3>1. upset'[q] = upset[q]
      BY <1>2, <1>t, <2>4, UpsetsWhom DEF Cancel, Procs
    <3>2. q = "shell" => abort' = abort
      BY <2>4
    <3> QED
      BY <1>t, <2>1, <3>1, <3>2, StaysSafe
  <2> QED
    BY <2>2, <2>3, <2>4
<1>3. ASSUME NEW p \in Procs, Work(p) \/ Crash(p) PROVE Safe(p)'
  <2>t. Safe(p) /\ sec[p] \in Sections /\ item[p] \in Items(sec[p])
    BY <1>t, <1>l
  <2>1. CASE DownloadDisabled(p)
    BY <1>t, <2>1, ReturnSafe DEF DownloadDisabled
  <2>2. CASE LoadManifest(p)
    <3>1. pc'[p] = "check" /\ sec'[p] = 1 /\ item'[p] = 1
      BY <1>t, <2>2, <2>t DEF LoadManifest, Goto, PlaceTypeOK, Safe
    <3>2. ini'[p] # 0
      BY <1>t, <2>2, DownloaderAssumption DEF LoadManifest, TypeOK, ServerTypeOK, Releases
    <3>3. upset'[p] = {} => Whole(p)' /\ \A s \in Sections : offered'[s] = ini'[p]
      <4>1. CASE rewriting
        BY <1>t, <2>2, <4>1 DEF LoadManifest, TypeOK
      <4>2. CASE ~ rewriting
        BY <1>t, <2>2, <2>t, <4>2 DEF LoadManifest, TypeOK, Safe, Whole
      <4> QED
        BY <4>1, <4>2
    <3>4. ~ \E s \in Sections : s < 1
      BY DownloaderAssumption DEF Sections
    <3>5. ~ \E i \in Items(1) : i < 1
      BY DownloaderAssumption DEF Items, Sections
    <3> QED
      BY <3>1, <3>2, <3>3, <3>4, <3>5 DEF Safe, Established, Undisturbed, InSections
  <2>3. CASE LoadManifestFails(p)
    <3>1. upset'[p] # {}
      BY <1>t, <2>3, UpsetsWhom DEF LoadManifestFails
    <3> QED
      BY <1>t, <2>3, <3>1, ReturnSafe DEF LoadManifestFails
  <2>16. CASE PassOver(p)
    <3>1. UNCHANGED <<files, archive, offered, ini>> /\ pc[p] = "check" /\ NextSection(p)
      BY <2>16 DEF PassOver
    <3>2. upset'[p] # {} /\ ("other" \in upset[p] => "other" \in upset'[p])
      BY <1>t, <2>t, <2>16, <3>1, CutUpsets DEF PassOver, InSections, Cuts
    <3>3. hidden'[p] = hidden[p] \union {sec[p]}
      BY <1>t, <2>16 DEF PassOver, Hides, TypeOK
    <3>4. \A s \in Sections : s <= sec[p] => s < sec[p] \/ s = sec[p]
      BY <2>t, DownloaderAssumption DEF Sections
    <3>5. "other" \notin upset'[p] =>
            \A s \in Sections : s <= sec[p] => s \in hidden'[p] \/ SectionIs(s, ini[p])'
      BY <2>t, <3>1, <3>2, <3>3, <3>4 DEF Safe, Established, InSections, SectionIs
    <3>6. ini[p] # 0 /\ ini'[p] = ini[p]
      BY <2>t, <3>1 DEF Safe, InSections
    <3> QED
      BY <1>t, <3>1, <3>2, <3>5, <3>6, NextSectionSafe
  <2>4. CASE CheckFile(p)
    <3>1. /\ UNCHANGED <<files, archive, offered, ini, cut, garbled, hidden, upset, abort>>
          /\ pc[p] = "check"
      BY <2>4 DEF CheckFile
    <3>2. CASE files[sec[p]][item[p]] # ini[p]
      <4>1. pc'[p] = "get" /\ sec'[p] = sec[p] /\ item'[p] = 1
        BY <1>t, <2>4, <3>2 DEF CheckFile, Goto, At, PlaceTypeOK
      <4> QED
        BY <2>t, <3>1, <4>1 DEF Safe, Established, Undisturbed, Whole, InSections, SectionIs
    <3>3. CASE files[sec[p]][item[p]] = ini[p] /\ item[p] < NItems[sec[p]]
      <4>1. pc'[p] = "check" /\ sec'[p] = sec[p] /\ item'[p] = item[p] + 1
        BY <1>t, <2>4, <3>1, <3>3 DEF CheckFile, At, PlaceTypeOK
      <4>2. \A i \in Items(sec[p]) : i < item[p] + 1 => i < item[p] \/ i = item[p]
        BY <2>t, DownloaderAssumption DEF Items, Sections
      <4> QED
        BY <2>t, <3>1, <3>3, <4>1, <4>2
        DEF Safe, Established, Undisturbed, Whole, InSections, SectionIs
    <3>4. CASE files[sec[p]][item[p]] = ini[p] /\ ~ (item[p] < NItems[sec[p]])
      <4>1. NextSection(p)
        BY <2>4, <3>4 DEF CheckFile
      <4>2. \A i \in Items(sec[p]) : i < item[p] \/ i = item[p]
        BY <2>t, <3>4, DownloaderAssumption DEF Items, Sections
      <4>3. \A s \in Sections : s <= sec[p] => s < sec[p] \/ s = sec[p]
        BY <2>t, DownloaderAssumption DEF Sections
      <4>4. "other" \notin upset[p] =>
              \A s \in Sections : s <= sec[p] => s \in hidden[p] \/ SectionIs(s, ini[p])'
        BY <2>t, <3>1, <3>4, <4>2, <4>3 DEF Safe, Established, InSections, SectionIs
      <4>5. ini[p] # 0 /\ (upset[p] = {} => Whole(p)' /\ \A s \in Sections : offered[s] = ini[p])
        BY <2>t, <3>1 DEF Safe, Undisturbed, Whole, InSections
      <4> QED
        BY <1>t, <3>1, <4>1, <4>4, <4>5, NextSectionSafe
    <3> QED
      BY <3>2, <3>3, <3>4
  <2>5. CASE CheckArchive(p)
    <3>1. UNCHANGED <<files, archive, offered, ini, sec, item, abort>> /\ pc[p] = "get"
      BY <2>5 DEF CheckArchive
    <3>6. PICK b \in BOOLEAN :
            /\ ChecksumIs(p, b)
            /\ \E valid \in Valid(p, b) :
                 IF valid
                 THEN Accept(p) /\ UNCHANGED garbled
                 ELSE /\ Goto(p, "fetch") /\ UNCHANGED hidden
                      /\ garbled' = [garbled EXCEPT ![p] = b]
      BY <2>5 DEF CheckArchive
    <3>2. PICK valid \in Valid(p, b) :
            /\ valid => Accept(p) /\ UNCHANGED garbled
            /\ ~ valid => /\ Goto(p, "fetch") /\ UNCHANGED hidden
                          /\ garbled' = [garbled EXCEPT ![p] = b]
      BY <3>6
    <3>3. /\ upset'[p] = {} => ~ b /\ UNCHANGED <<cut, upset>>
          /\ "other" \in upset[p] => "other" \in upset'[p]
      <4>1. CASE b
        BY <1>t, <2>t, <3>1, <3>6, <4>1, CutUpsets DEF InSections
      <4>2. CASE ~ b
        BY <1>t, <2>t, <3>1, <3>6, <4>2, CutUpsets DEF InSections
      <4> QED
        BY <4>1, <4>2
    <3>4. CASE valid
      <4>1. pc'[p] = "open" /\ UNCHANGED garbled
        BY <1>t, <3>2, <3>4 DEF Accept, Goto, PlaceTypeOK
      <4>2. CASE archive[sec[p]] = ini[p]
        <5>1. UNCHANGED hidden
          BY <3>2, <3>4, <4>2 DEF Accept
        <5> QED
          BY <2>t, <3>1, <3>3, <4>1, <4>2, <5>1
          DEF Safe, Established, Undisturbed, Whole, InSections, SectionIs
      <4>3. CASE archive[sec[p]] # ini[p]
        <5>1. b /\ archive[sec[p]] = 0
          BY <3>2, <3>4, <4>3, ValidIs
        <5>2. hidden'[p] = hidden[p] \union {sec[p]}
          BY <1>t, <3>2, <3>4, <4>3 DEF Accept, Hides, TypeOK
        <5> QED
          BY <2>t, <3>1, <3>3, <4>1, <5>1, <5>2 DEF Safe, Established, InSections, SectionIs
      <4> QED
        BY <4>2, <4>3
    <3>5. CASE ~ valid
      <4>1. pc'[p] = "fetch" /\ UNCHANGED hidden
        BY <1>t, <3>2, <3>5 DEF Goto, PlaceTypeOK
      <4>2. garbled'[p] = b
        BY <1>t, <3>2, <3>5 DEF TypeOK
      <4> QED
        BY <2>t, <3>1, <3>3, <4>1, <4>2
        DEF Safe, Established, Undisturbed, Whole, InSections, SectionIs
    <3> QED
      BY <3>4, <3>5
  <2>6. CASE FetchBegin(p)
    <3>1. UNCHANGED <<files, offered, ini, sec, item, cut, garbled, hidden>> /\ pc[p] = "fetch"
      BY <2>6 DEF FetchBegin, DeleteArchive
    <3>2. CASE Held(sec[p])
      <4>1. pc'[p] = "verify" /\ upset'[p] = upset[p] \union {"trouble"}
        BY <1>t, <2>6, <3>2, UpsetsWhom DEF FetchBegin, DeleteArchive, Goto, PlaceTypeOK
      <4> QED
        BY <2>t, <3>1, <4>1 DEF Safe, Established, InSections, SectionIs
    <3>3. CASE ~ Held(sec[p])
      <4>1. pc'[p] = "fetching" /\ upset'[p] = upset[p] /\ (p = "shell" => abort' = 0)
        BY <1>t, <2>6, <3>3, UpsetsWhom DEF FetchBegin, DeleteArchive, Goto, PlaceTypeOK
      <4> QED
        BY <2>t, <3>1, <4>1 DEF Safe, Established, Undisturbed, Whole, InSections, SectionIs
    <3> QED
      BY <3>2, <3>3
  <2>7. CASE FetchEnd(p)
    <3>1. /\ UNCHANGED <<files, offered, ini, sec, item, cut, garbled, hidden>>
          /\ pc[p] = "fetching" /\ pc'[p] = "verify"
      BY <1>t, <2>7 DEF FetchEnd, Fetch, Goto, PlaceTypeOK
    <3>2. upset'[p] = upset[p]
      BY <1>t, <2>7, UpsetsWhom DEF FetchEnd
    <3>3. archive'[sec[p]] = IF p = "shell" /\ abort = 1 THEN 0 ELSE offered[sec[p]]
      BY <1>t, <2>7, <2>t DEF FetchEnd, Fetch, TypeOK
    <3> QED
      BY <2>t, <3>1, <3>2, <3>3 DEF Safe, Established, Undisturbed, Whole, InSections, SectionIs
  <2>8. CASE FetchFails(p)
    <3>1. /\ UNCHANGED <<files, offered, ini, sec, item, cut, garbled, hidden>>
          /\ pc[p] = "fetching" /\ pc'[p] = "verify"
      BY <1>t, <2>8 DEF FetchFails, Fetch, Goto, PlaceTypeOK
    <3>2. upset'[p] # {} /\ ("other" \notin upset'[p] => "other" \notin upset[p])
      BY <1>t, <2>8, UpsetsWhom DEF FetchFails
    <3> QED
      BY <2>t, <3>1, <3>2 DEF Safe, Established, InSections, SectionIs
  <2>9. CASE VerifyArchive(p)
    <3>1. UNCHANGED <<files, archive, offered, ini, cut, upset, abort>> /\ pc[p] = "verify"
      BY <2>9 DEF VerifyArchive
    <3>2. garbled[p] \in BOOLEAN /\ garbled'[p] = FALSE
      BY <1>t, <2>9, Zenon DEF VerifyArchive, TypeOK
    <3>3. PICK valid \in Valid(p, garbled[p]) :
            /\ valid => Accept(p) /\ UNCHANGED <<sec, item>>
            /\ ~ valid => Return(p, -4) /\ UNCHANGED hidden
      BY <2>9 DEF VerifyArchive
    <3>4. CASE valid
      <4>1. pc'[p] = "open" /\ UNCHANGED <<sec, item>>
        BY <1>t, <3>3, <3>4 DEF Accept, Goto, PlaceTypeOK
      <4>2. CASE archive[sec[p]] = ini[p]
        <5>1. UNCHANGED hidden
          BY <3>3, <3>4, <4>2 DEF Accept
        <5> QED
          BY <2>t, <3>1, <3>2, <4>1, <4>2, <5>1
          DEF Safe, Established, Undisturbed, Whole, InSections, SectionIs
      <4>3. CASE archive[sec[p]] # ini[p]
        <5>1. garbled[p] /\ archive[sec[p]] = 0
          BY <3>2, <3>3, <3>4, <4>3, ValidIs
        <5>2. hidden'[p] = hidden[p] \union {sec[p]}
          BY <1>t, <3>3, <3>4, <4>3 DEF Accept, Hides, TypeOK
        <5>3. upset[p] # {}
          BY <2>t, <3>1, <5>1 DEF Safe, Undisturbed, Whole, InSections
        <5> QED
          BY <2>t, <3>1, <4>1, <5>1, <5>2, <5>3 DEF Safe, Established, InSections, SectionIs
      <4> QED
        BY <4>2, <4>3
    <3>5. CASE ~ valid
      <4>1. upset'[p] # {}
        <5>1. archive[sec[p]] # ini[p] \/ garbled[p]
          BY <3>2, <3>3, <3>5, ValidIs
        <5> QED
          BY <2>t, <3>1, <5>1 DEF Safe, Undisturbed, Whole, InSections
      <4> QED
        BY <1>t, <3>3, <3>5, <4>1, ReturnSafe
    <3> QED
      BY <3>4, <3>5
  <2>10. CASE OpenZip(p)
    <3>1. /\ UNCHANGED <<files, archive, offered, ini, sec, item, cut, garbled, hidden, upset, abort>>
          /\ pc[p] = "open" /\ archive[sec[p]] # 0
      BY <2>10 DEF OpenZip
    <3>2. pc'[p] = "unzip"
      BY <1>t, <2>10 DEF OpenZip, Goto, PlaceTypeOK
    <3>3. item[p] = 1 /\ \A i \in Items(sec[p]) : ~ (i < 1)
      BY <2>t, <3>1, DownloaderAssumption DEF Safe, Items, Sections
    <3> QED
      BY <2>t, <3>1, <3>2, <3>3 DEF Safe, Established, Undisturbed, Whole, InSections, SectionIs
  <2>11. CASE OpenZipFails(p)
    <3>1. /\ UNCHANGED <<files, archive, offered, ini, cut, garbled, hidden, upset>>
          /\ pc[p] = "open" /\ archive[sec[p]] = 0
      BY <2>11 DEF OpenZipFails
    <3>2. ini[p] # 0 /\ ("other" \in upset[p] \/ sec[p] \in hidden[p])
      BY <2>t, <3>1 DEF Safe, Established, InSections
    <3>3. upset[p] # {}
      BY <2>t, <3>1, <3>2 DEF Safe, Undisturbed, Whole, InSections
    <3>4. CASE NextSection(p)
      <4>1. \A s \in Sections : s <= sec[p] => s < sec[p] \/ s = sec[p]
        BY <2>t, DownloaderAssumption DEF Sections
      <4>2. "other" \notin upset[p] =>
              \A s \in Sections : s <= sec[p] => s \in hidden[p] \/ SectionIs(s, ini[p])'
        BY <2>t, <3>1, <3>2, <4>1 DEF Safe, Established, InSections, SectionIs
      <4> QED
        BY <1>t, <3>1, <3>2, <3>3, <3>4, <4>2, NextSectionSafe
    <3>5. CASE Return(p, -5)
      BY <1>t, <3>1, <3>3, <3>5, ReturnSafe
    <3> QED
      BY <2>11, <3>4, <3>5 DEF OpenZipFails
  <2>12. CASE UnzipBegin(p)
    <3>1. /\ UNCHANGED <<archive, offered, ini, sec, item, cut, garbled, hidden>>
          /\ pc[p] = "unzip" /\ pc'[p] = "writing" /\ upset'[p] = upset[p]
      BY <1>t, <2>12, UpsetsWhom DEF UnzipBegin, Goto, PlaceTypeOK
    <3>2. /\ \A s \in Sections : s # sec[p] => files'[s] = files[s]
          /\ \A i \in Items(sec[p]) : i # item[p] => files'[sec[p]][i] = files[sec[p]][i]
      BY <1>t, <2>t, <2>12 DEF UnzipBegin, SetFile, TypeOK, FilesTypeOK
    <3>3. /\ \A s \in Sections : s < sec[p] => s # sec[p]
          /\ \A i \in Items(sec[p]) : i < item[p] => i # item[p]
      BY <2>t, DownloaderAssumption DEF Sections, Items
    <3> QED
      BY <2>t, <3>1, <3>2, <3>3 DEF Safe, Established, Undisturbed, Whole, InSections, SectionIs
  <2>13. CASE UnzipEnd(p)
    <3>1. /\ UNCHANGED <<archive, offered, ini, cut, garbled, hidden>>
          /\ pc[p] = "writing" /\ upset'[p] = upset[p]
      BY <1>t, <2>13, UpsetsWhom DEF UnzipEnd
    <3>2. /\ \A s \in Sections : s # sec[p] => files'[s] = files[s]
          /\ \A i \in Items(sec[p]) :
               files'[sec[p]][i] = IF i = item[p] THEN archive[sec[p]] ELSE files[sec[p]][i]
      BY <1>t, <2>t, <2>13 DEF UnzipEnd, SetFile, TypeOK, FilesTypeOK
    <3>3. \A s \in Sections : s < sec[p] => s # sec[p]
      BY <2>t, DownloaderAssumption DEF Sections
    <3>4. CASE item[p] < NItems[sec[p]]
      <4>1. pc'[p] = "unzip" /\ sec'[p] = sec[p] /\ item'[p] = item[p] + 1
        BY <1>t, <2>13, <3>4 DEF UnzipEnd, Goto, At, PlaceTypeOK
      <4>2. \A i \in Items(sec[p]) : i < item[p] + 1 => i < item[p] \/ i = item[p]
        BY <2>t, DownloaderAssumption DEF Items, Sections
      <4> QED
        BY <2>t, <3>1, <3>2, <3>3, <4>1, <4>2
        DEF Safe, Established, Undisturbed, Whole, InSections, SectionIs
    <3>5. CASE ~ (item[p] < NItems[sec[p]])
      <4>1. NextSection(p)
        BY <2>13, <3>5 DEF UnzipEnd
      <4>2. \A i \in Items(sec[p]) : i < item[p] \/ i = item[p]
        BY <2>t, <3>5, DownloaderAssumption DEF Items, Sections
      <4>3. \A s \in Sections : s <= sec[p] => s < sec[p] \/ s = sec[p]
        BY <2>t, DownloaderAssumption DEF Sections
      <4>4. "other" \notin upset[p] =>
              \A s \in Sections : s <= sec[p] => s \in hidden[p] \/ SectionIs(s, ini[p])'
        BY <2>t, <3>1, <3>2, <3>3, <4>2, <4>3 DEF Safe, Established, InSections, SectionIs
      <4>5. ini[p] # 0 /\ (upset[p] = {} => Whole(p)' /\ \A s \in Sections : offered[s] = ini[p])
        BY <2>t, <3>1 DEF Safe, Undisturbed, Whole, InSections
      <4> QED
        BY <1>t, <3>1, <4>1, <4>4, <4>5, NextSectionSafe
    <3> QED
      BY <3>4, <3>5
  <2>14. CASE UnzipFails(p)
    <3>1. upset'[p] # {}
      BY <1>t, <2>14, UpsetsWhom DEF UnzipFails
    <3> QED
      BY <1>t, <2>14, <3>1, ReturnSafe DEF UnzipFails
  <2>15. CASE Crash(p) \/ NullDereference(p)
    BY <1>t, <2>15, RestSafe, ClearFresh DEF Crash, NullDereference, ProcessEnds
  <2> QED
    BY <1>3, <2>1, <2>2, <2>3, <2>4, <2>5, <2>6, <2>7, <2>8, <2>9, <2>10, <2>11, <2>12,
       <2>13, <2>14, <2>15, <2>16 DEF Work
<1>4. ASSUME NEW p \in Procs, Work(p) \/ Crash(p), NEW q \in Procs, q # p PROVE Safe(q)'
  <2>1. UNCHANGED offered /\ (p = "shell" \/ abort' = abort)
    BY <1>4 DEF Work, Crash, NullDereference, ProcessEnds, DownloadDisabled, LoadManifest,
                LoadManifestFails, PassOver, CheckFile, CheckArchive, FetchBegin, DeleteArchive,
                FetchEnd, FetchFails, Fetch, VerifyArchive, OpenZip, OpenZipFails,
                UnzipBegin, UnzipEnd, UnzipFails
  <2>2. /\ pc'[q] = pc[q] /\ sec'[q] = sec[q] /\ item'[q] = item[q]
        /\ ini'[q] = ini[q] /\ result'[q] = result[q]
        /\ cut'[q] = cut[q] /\ garbled'[q] = garbled[q] /\ hidden'[q] = hidden[q]
    <3>1. CASE DownloadDisabled(p) \/ LoadManifestFails(p) \/ UnzipFails(p)
      BY <1>t, <1>4, <3>1, OtherPlace DEF DownloadDisabled, LoadManifestFails, UnzipFails
    <3>2. CASE LoadManifest(p)
      BY <1>t, <1>4, <3>2, OtherPlace DEF LoadManifest, TypeOK
    <3>3. CASE PassOver(p) \/ CheckFile(p) \/ CheckArchive(p) \/ VerifyArchive(p)
      BY <1>t, <1>4, <3>3, OtherPlace, OtherManifest
      DEF PassOver, CheckFile, CheckArchive, VerifyArchive, Accept
    <3>4. CASE FetchBegin(p) \/ FetchEnd(p) \/ FetchFails(p)
      BY <1>t, <1>4, <3>4, OtherPlace DEF FetchBegin, DeleteArchive, FetchEnd, FetchFails, Fetch
    <3>5. CASE OpenZip(p) \/ OpenZipFails(p) \/ UnzipBegin(p) \/ UnzipEnd(p)
      BY <1>t, <1>4, <3>5, OtherPlace DEF OpenZip, OpenZipFails, UnzipBegin, UnzipEnd
    <3>6. CASE Crash(p) \/ NullDereference(p)
      BY <1>t, <1>4, <3>6, OtherPlace, OtherManifest DEF Crash, NullDereference, ProcessEnds
    <3> QED
      BY <1>4, <3>1, <3>2, <3>3, <3>4, <3>5, <3>6 DEF Work
  <2>3. \/ UpsetsOther(p)
        \/ UNCHANGED <<files, archive>> /\ upset'[q] = upset[q]
    <3>1. CASE FetchEnd(p) \/ UnzipBegin(p) \/ UnzipEnd(p)
      BY <3>1 DEF FetchEnd, UnzipBegin, UnzipEnd
    <3>2. CASE FetchBegin(p)
      BY <1>t, <1>4, <3>2, UpsetsWhom DEF FetchBegin, DeleteArchive
    <3>3. CASE FetchFails(p)
      <4>1. UNCHANGED files /\ archive' = archive
        BY <1>t, <1>l, <3>3 DEF FetchFails, Fetch, TypeOK
      <4> QED
        BY <1>t, <1>4, <3>3, <4>1, UpsetsWhom DEF FetchFails
    <3>4. CASE LoadManifest(p) \/ LoadManifestFails(p) \/ UnzipFails(p)
      BY <1>t, <1>4, <3>4, UpsetsWhom DEF LoadManifest, LoadManifestFails, UnzipFails, TypeOK
    <3>5. CASE \/ DownloadDisabled(p) \/ CheckFile(p) \/ VerifyArchive(p)
               \/ OpenZip(p) \/ OpenZipFails(p)
      BY <3>5 DEF DownloadDisabled, CheckFile, VerifyArchive, OpenZip, OpenZipFails
    <3>6. CASE Crash(p) \/ NullDereference(p)
      BY <1>t, <1>4, <3>6, OtherManifest DEF Crash, NullDereference, ProcessEnds
    <3>7. CASE PassOver(p) \/ CheckArchive(p)
      BY <1>t, <1>4, <3>7, OtherManifest DEF PassOver, CheckArchive
    <3> QED
      BY <1>4, <3>1, <3>2, <3>3, <3>4, <3>5, <3>6, <3>7 DEF Work
  <2>4. \A r \in Procs : r # p => r = q
    BY <1>4 DEF Procs
  <2> QED
    BY <1>t, <1>4, <2>1, <2>2, <2>3, <2>4, OthersSafe
<1>5. ASSUME NEW p \in Procs, NEW l \in {"off", "idle", "core"}, Goto(p, l),
             UNCHANGED <<files, archive, offered>>,
             sec'[p] = 1, item'[p] = 1, Whole(p)',
             \A q \in Procs : q # p =>
               /\ sec'[q] = sec[q] /\ item'[q] = item[q] /\ ini'[q] = ini[q]
               /\ result'[q] = result[q] /\ upset'[q] = upset[q]
               /\ cut'[q] = cut[q] /\ garbled'[q] = garbled[q] /\ hidden'[q] = hidden[q],
             p = "shell" \/ abort' = abort
      PROVE  \A q \in Procs : Safe(q)'
  <2>1. Safe(p)'
    BY <1>t, <1>5, RestSafe
  <2>2. \A q \in Procs : q # p => pc'[q] = pc[q]
    BY <1>t, <1>5, OtherPlace
  <2> QED
    BY <1>t, <1>5, <2>1, <2>2, OthersSafe
<1>6. CASE StartCore
  BY <1>t, <1>5, <1>6, OtherManifest, ClearFresh DEF StartCore, Procs
<1>7. CASE ShellStarts \/ CoreEnds
  BY <1>t, <1>5, <1>7 DEF ShellStarts, CoreEnds, Procs, Safe, Whole
<1>8. ASSUME NEW p \in Procs, ProcessEnds(p) PROVE \A q \in Procs : Safe(q)'
  BY <1>t, <1>5, <1>8, OtherManifest, ClearFresh DEF ProcessEnds
<1>9. CASE ShellEnds \/ SetupEnds
  BY <1>8, <1>9 DEF ShellEnds, SetupEnds, Procs
<1>10. CASE UNCHANGED vars
  BY <1>t, <1>10 DEF vars, Safe, Established, Undisturbed, Whole, SectionIs, CompleteBut
<1> QED
  BY <1>1, <1>2, <1>3, <1>4, <1>6, <1>7, <1>9, <1>10 DEF Next

(* The invariant behind the properties below.                              *)
THEOREM Inductive == Spec => []IInv
<1>1. Init => IInv
  BY InitSafe, TypeInit DEF IInv
<1>2. IInv /\ [Next]_vars => IInv'
  BY TypeStep, SafeStep DEF IInv
<1> QED
  BY <1>1, <1>2, PTL DEF Spec

(* DoDownload returns 0 only when every file is of the release the         *)
(* manifest names, if no other process wrote to the directory meanwhile.   *)
THEOREM SuccessComplete == Spec => []SuccessMeansComplete
<1>1. IInv => SuccessMeansComplete
  BY DEF IInv, SuccessMeansComplete, Safe, Established
<1> QED
  BY <1>1, Inductive, PTL

(* DoDownload fails only when something has disturbed this download.       *)
THEOREM FailureHasCause == Spec => []NoFailureWithoutCause
<1>1. IInv => NoFailureWithoutCause
  <2> SUFFICES ASSUME IInv, NEW p \in Procs, pc[p] = "done", result[p] < 0, upset[p] = {}
               PROVE  FALSE
    BY DEF NoFailureWithoutCause
  <2>1. result[p] >= 0 /\ result[p] \in -6 .. 1
    BY DEF IInv, TypeOK, PlaceTypeOK, Safe, Undisturbed
  <2> QED
    BY <2>1
<1> QED
  BY <1>1, Inductive, PTL

(* The unzipping writes a file from the archive that the manifest's        *)
(* checksum has been compared with, if no other process replaced it.       *)
THEOREM VouchedFor == Spec => FilesAreVouchedFor
<1> DEFINE Write == \A s \in Sections : \A i \in Items(s) :
             (files'[s][i] # files[s][i] /\ files'[s][i] # 0)
               => \E p \in Procs :
                    /\ pc[p] = "writing" /\ sec[p] = s /\ item[p] = i
                    /\ "other" \in upset[p] \/ files'[s][i] = ini[p]
<1>1. IInv /\ [Next]_vars => Write
  <2> SUFFICES ASSUME IInv, [Next]_vars, NEW s \in Sections, NEW i \in Items(s),
                      files'[s][i] # files[s][i], files'[s][i] # 0
               PROVE  \E p \in Procs :
                        /\ pc[p] = "writing" /\ sec[p] = s /\ item[p] = i
                        /\ "other" \in upset[p] \/ files'[s][i] = ini[p]
    OBVIOUS
  <2>t. TypeOK /\ PlaceTypeOK /\ FilesTypeOK
    BY DEF IInv, TypeOK
  <2>1. PICK p \in Procs : UnzipBegin(p) \/ UnzipEnd(p)
    BY DEF Next, Publish, RemoveArchive, PublishArchive, EmptyManifest, PublishManifest, Work, PassOver, Crash, NullDereference,
           ProcessEnds, DownloadDisabled, LoadManifest, LoadManifestFails, CheckFile,
           CheckArchive, FetchBegin, DeleteArchive, FetchEnd, FetchFails, Fetch,
           VerifyArchive, OpenZip, OpenZipFails, UnzipFails, Cancel, StartCore, ShellStarts,
           CoreEnds, ShellEnds, SetupEnds, vars, diskVars
  <2>2. sec[p] \in Sections /\ item[p] \in Items(sec[p])
    BY <2>t DEF PlaceTypeOK
  <2>3. ASSUME NEW c, SetFile(p, c)
        PROVE  s = sec[p] /\ i = item[p] /\ files'[s][i] = c
    BY <2>t, <2>2, <2>3 DEF SetFile, FilesTypeOK
  <2>4. UnzipEnd(p)
    BY <2>1, <2>3 DEF UnzipBegin
  <2>5. pc[p] = "writing" /\ s = sec[p] /\ i = item[p] /\ files'[s][i] = archive[sec[p]]
    BY <2>3, <2>4 DEF UnzipEnd
  <2>6. "other" \in upset[p] \/ archive[sec[p]] = ini[p]
    BY <2>5 DEF IInv, Safe, Established
  <2> QED
    BY <2>5, <2>6
<1> HIDE DEF Write
<1>3. Spec => [][Write]_vars
  BY <1>1, Inductive, PTL DEF Spec
<1> QED
  BY <1>3 DEF FilesAreVouchedFor, Write
=============================================================================
