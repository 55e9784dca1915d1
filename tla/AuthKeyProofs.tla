---------------------------- MODULE AuthKeyProofs ----------------------------
(***************************************************************************)
(* Proofs about AuthKey, for any set of companies and any bounds: type     *)
(* correctness, and from the inductive invariant that keys the server has  *)
(* been told are kept and that no two companies share one.                 *)
(***************************************************************************)
EXTENDS AuthKey, TLAPS

Quiet == \A t \in Threads : pc[t] \notin Section
Saving == \E t \in Threads : pc[t] = "saving"

\* The entries of a file are keys that were made, no two of them the same.
Distinct(f) ==
    \A c \in Ids :
        /\ f[c] # Empty
        /\ f[c] <= made
        /\ \A d \in Ids \ {c} : f[c] = f[d] => f[c] = None

ToldIn(f) == torn \/ \A c \in Ids : told[c] <= f[c]

GoodKey == key \in 1 .. made

\* The key may become the entry of c.
KeyFor(c, f) ==
    /\ GoodKey
    /\ \A d \in Ids \ {c} : f[d] # key
    /\ torn \/ told[c] <= key

\* What a thread that changes keys alone has achieved so far.
Fine(t) ==
    /\ pc[t] = "check" /\ hasRun /\ ~offline => GoodKey /\ file[was] = key
    /\ pc[t] = "compare" /\ hasRun => GoodKey /\ file[was] = key
    /\ pc[t] = "offer" => KeyFor(company, file)
    /\ pc[t] = "load" /\ hasRun => KeyFor(company, file)
    /\ pc[t] = "choose" =>
         /\ id[t] = company
         /\ copy[t][company] # None
         /\ Distinct(copy[t])
         /\ ToldIn(copy[t])
         /\ hasRun => KeyFor(company, copy[t])
    /\ pc[t] \in {"save", "saving"} =>
         /\ GoodKey
         /\ copy[t][company] = key
         /\ Distinct(copy[t])
         /\ ToldIn(copy[t])
    /\ pc[t] = "saving" => file = NoEntries
    /\ pc[t] \in {"ran", "signal"} => GoodKey /\ file[company] = key
    /\ pc[t] = "signal" => hasRun

Calm ==
    /\ ~Overlap
    /\ \A t \in Threads : Fine(t)
    /\ ~Saving => Distinct(file) /\ ToldIn(file)
    /\ Quiet /\ ~offline /\ hasRun => GoodKey /\ file[company] = key
    /\ pc["poll"] # "off" =>
         hasRun \/ pc["request"] \in {"load", "choose", "save", "saving", "ran"}

\* LoadConfigYaml finds the entry it looks for.
EntryFound == \A t \in Threads : pc[t] = "choose" => copy[t][id[t]] # None

\* The main thread starts the long poll and sees it end.
MainInCharge ==
    /\ pc["poll"] # "off" => pc["main"] \in {"idle", "parting", "joinPoll"}
    /\ pc["main"] \in {"parting", "joinPoll", "offer", "joinRequest"} => offline

IInv ==
    /\ TypeOK
    /\ EntryFound
    /\ MainInCharge
    /\ (raced \/ adopted) \/ Calm
-----------------------------------------------------------------------------
LEMMA GotoType ==
    ASSUME TypeOK, NEW t \in Threads, NEW l \in Labels, Goto(t, l)
    PROVE  /\ pc' \in [Threads -> Labels]
           /\ pc'[t] = l
           /\ \A u \in Threads : u # t => pc'[u] = pc[u]
BY DEF TypeOK, Goto

LEMMA Constants ==
    /\ NoCompany \in Ids
    /\ Companies \subseteq Ids
    /\ NoEntries \in [Ids -> Entries]
    /\ {"main", "poll", "request"} = Threads
    /\ Informed \subseteq Threads
    /\ 0 \in Keys
    /\ Keys \subseteq Entries
BY DEF Ids, NoEntries, Entries, Threads, Informed, Keys, None

(* Another process has a memory of its own.                                *)
LEMMA EndsType ==
    ASSUME TypeOK, ProcessEnds, torn' \in BOOLEAN, raced' \in BOOLEAN,
           crashes' \in 0 .. MaxCrashes
    PROVE  TypeOK' /\ EntryFound'
<1>1. /\ key' \in Keys /\ company' \in Ids /\ was' \in Ids
      /\ pending' \in 0 .. MaxPending
      /\ copy' \in [Threads -> [Ids -> Entries]]
      /\ id' \in [Threads -> Ids]
      /\ pc' \in [Threads -> Labels]
  BY Constants, AuthKeyAssumption DEF ProcessEnds, Keys, Empty, Labels
<1>2. hasRun' \in BOOLEAN /\ ready' \in BOOLEAN /\ offline' \in BOOLEAN
  BY Zenon DEF ProcessEnds
<1>3. EntryFound'
  BY DEF EntryFound, ProcessEnds
<1> QED
  BY <1>1, <1>2, <1>3 DEF TypeOK, ProcessEnds

(* Every step keeps the types, also when threads race.                     *)
LEMMA TypeStep == TypeOK /\ EntryFound /\ [Next]_vars => TypeOK' /\ EntryFound'
<1> SUFFICES ASSUME TypeOK, EntryFound, [Next]_vars PROVE TypeOK' /\ EntryFound'
  OBVIOUS
<1> USE DEF memory, counters
<1>r. raced' \in BOOLEAN
  BY Zenon DEF Next, TypeOK, vars
<1>k. key \in Keys /\ NewKey \in Keys /\ NewKey \in Nat
  BY DEF TypeOK, NewKey, Keys
<1>1. ASSUME NEW t \in Threads, NEW l \in Labels \ {"choose"}, Goto(t, l),
             UNCHANGED <<open, file, copy, id, made, told, torn, counters>>,
             key' \in Keys, company' \in Ids, was' \in Ids, hasRun' \in BOOLEAN,
             ready' \in BOOLEAN, offline' \in BOOLEAN, adopted' \in BOOLEAN,
             pending' \in 0 .. MaxPending
      PROVE  TypeOK' /\ EntryFound'
  <2>1. pc' \in [Threads -> Labels]
    BY <1>1, GotoType
  <2>2. EntryFound'
    BY <1>1, GotoType DEF EntryFound
  <2> QED
    BY <1>r, <1>1, <2>1, <2>2 DEF TypeOK
<1>2. ASSUME NEW t \in Informed, Info(t) PROVE TypeOK' /\ EntryFound'
  <2>t. t \in Threads
    BY Constants
  <2>1. CASE GiveUp(t) \/ Ask(t) \/ Check(t)
    BY <1>1, <2>t, <2>1 DEF GiveUp, Ask, Check, TypeOK, Labels, Section
  <2>2. CASE Learn(t)
    <3>1. was' \in Ids /\ company' \in Ids
      BY <2>2, Constants DEF Learn, TypeOK
    <3> QED
      BY <1>1, <2>t, <2>2, <3>1 DEF Learn, TypeOK, Labels, Section
  <2>3. CASE Compare(t)
    <3>1. ready' \in BOOLEAN /\ adopted' \in BOOLEAN
      BY <2>3, Zenon DEF Compare, Compared, TypeOK
    <3>2. was' \in Ids
      BY <2>3, Constants DEF Compare, Compared
    <3>3. \E l \in Labels \ {"choose"} : Goto(t, l)
      BY <2>3 DEF Compare, Labels, Section
    <3> QED
      BY <1>1, <2>t, <2>3, <3>1, <3>2, <3>3 DEF Compare, TypeOK
  <2>4. CASE Reset(t)
    <3>1. ready' \in BOOLEAN
      BY <2>4, Zenon DEF Reset
    <3> QED
      BY <1>1, <2>t, <2>4, <3>1 DEF Reset, TypeOK, Labels, Section
  <2>5. CASE Blank(t)
    BY <1>1, <2>t, <2>5, Constants DEF Blank, Empty, TypeOK, Labels, Section
  <2>6. CASE Forget(t)
    <3>1. hasRun' \in BOOLEAN
      BY <2>6, Zenon DEF Forget
    <3> QED
      BY <1>1, <2>t, <2>6, <3>1 DEF Forget, TypeOK, Labels, Section
  <2>7. CASE Signal(t)
    <3>1. ready' \in BOOLEAN
      BY <2>7, Zenon DEF Signal
    <3>2. CASE t = "main"
      <4>1. pc' = [u \in Threads |-> "idle"]
        BY <2>7, <3>2 DEF Signal
      <4>2. pc' \in [Threads -> Labels] /\ EntryFound'
        BY <4>1 DEF Labels, EntryFound
      <4> QED
        BY <1>r, <2>7, <3>1, <4>2 DEF Signal, TypeOK
    <3>3. CASE t # "main"
      BY <1>1, <2>t, <2>7, <3>1, <3>3 DEF Signal, TypeOK, Labels, Section
    <3> QED
      BY <3>2, <3>3
  <2> QED
    BY <1>2, <2>1, <2>2, <2>3, <2>4, <2>5, <2>6, <2>7 DEF Info
<1>3. ASSUME NEW t \in Threads, Load(t) PROVE TypeOK' /\ EntryFound'
  <2>1. pc' \in [Threads -> Labels] /\ \A u \in Threads : u # t => pc'[u] = pc[u]
    BY <1>3, GotoType DEF Load, Labels, Section
  <2>2. id' \in [Threads -> Ids] /\ id'[t] = company /\ \A u \in Threads : u # t => id'[u] = id[u]
    BY <1>3 DEF Load, TypeOK
  <2>3. /\ copy' \in [Threads -> [Ids -> Entries]]
        /\ made' \in Nat
        /\ copy'[t][company] # None
        /\ \A u \in Threads : u # t => copy'[u] = copy[u]
    <3>1. CASE file[company] = None
      <4>1. [file EXCEPT ![company] = NewKey] \in [Ids -> Entries]
        BY <1>k, Constants DEF TypeOK
      <4>2. [file EXCEPT ![company] = NewKey][company] = NewKey /\ NewKey # None
        BY <1>k DEF TypeOK, None, Keys
      <4> HIDE DEF memory
      <4> QED
        BY <1>3, <1>k, <3>1, <4>1, <4>2 DEF Load, TypeOK
    <3>2. CASE file[company] # None
      BY <1>3, <3>2 DEF Load, TypeOK
    <3> QED
      BY <3>1, <3>2
  <2>4. EntryFound'
    BY <2>1, <2>2, <2>3 DEF EntryFound
  <2> QED
    BY <1>3, <1>r, <2>1, <2>2, <2>3, <2>4 DEF Load, TypeOK
<1>4. ASSUME NEW t \in Threads, Choose(t) PROVE TypeOK' /\ EntryFound'
  <2>1. pc' \in [Threads -> Labels] /\ pc'[t] = "save" /\ \A u \in Threads : u # t => pc'[u] = pc[u]
    BY <1>4, GotoType DEF Choose, Labels, Section
  <2>2. id[t] \in Ids /\ copy[t] \in [Ids -> Entries] /\ copy[t][id[t]] # None
    BY <1>4 DEF Choose, At, TypeOK, EntryFound
  <2>3. /\ key' \in Keys
        /\ copy' \in [Threads -> [Ids -> Entries]]
        /\ \A u \in Threads : u # t => copy'[u] = copy[u]
    <3>1. CASE hasRun
      <4> DEFINE new == [copy[t] EXCEPT ![id[t]] = key]
      <4>1. new \in [Ids -> Entries]
        BY <1>k, <2>2, Constants
      <4>2. copy' = [copy EXCEPT ![t] = new] /\ key' = key
        BY <1>4, <3>1 DEF Choose
      <4> HIDE DEF new
      <4> QED
        BY <1>k, <4>1, <4>2 DEF TypeOK
    <3>2. CASE ~hasRun
      <4>1. key' = copy[t][id[t]] /\ copy' = copy
        BY <1>4, <3>2 DEF Choose
      <4> QED
        BY <2>2, <4>1 DEF TypeOK, Entries
    <3> QED
      BY <3>1, <3>2
  <2>4. EntryFound'
    BY <1>4, <2>1, <2>3 DEF EntryFound, Choose
  <2> QED
    BY <1>4, <1>r, <2>1, <2>3, <2>4 DEF Choose, TypeOK
<1>5. ASSUME NEW t \in Threads, SaveBegin(t) PROVE TypeOK' /\ EntryFound'
  <2>1. pc' \in [Threads -> Labels] /\ EntryFound'
    BY <1>5, GotoType DEF SaveBegin, Labels, Section, EntryFound
  <2> QED
    BY <1>5, <1>r, <2>1, Constants DEF SaveBegin, TypeOK
<1>6. ASSUME NEW t \in Threads, SaveEnd(t) PROVE TypeOK' /\ EntryFound'
  <2>1. pc' \in [Threads -> Labels] /\ pc'[t] = "ran" /\ \A u \in Threads : u # t => pc'[u] = pc[u]
    BY <1>6, GotoType DEF SaveEnd, Labels, Section
  <2>2. copy' \in [Threads -> [Ids -> Entries]] /\ id' \in [Threads -> Ids]
    BY <1>6, Constants DEF SaveEnd, TypeOK
  <2>3. EntryFound'
    BY <1>6, <2>1 DEF SaveEnd, EntryFound, TypeOK
  <2>4. file' \in [Ids -> Entries]
    BY <1>6 DEF SaveEnd, TypeOK
  <2> QED
    BY <1>6, <1>r, <2>1, <2>2, <2>3, <2>4 DEF SaveEnd, TypeOK
<1>7. ASSUME NEW t \in Threads, Ran(t) PROVE TypeOK' /\ EntryFound'
  <2>1. hasRun' \in BOOLEAN
    BY <1>7, Zenon DEF Ran
  <2>2. \E l \in Labels \ {"choose"} : Goto(t, l)
    BY <1>7 DEF Ran, PollReturns, Labels, Section
  <2> QED
    BY <1>1, <1>7, <2>1, <2>2 DEF Ran, TypeOK
<1>8. CASE Poll
  <2>1. pc' \in [Threads -> Labels] /\ EntryFound'
    BY <1>8, GotoType, Constants DEF Poll, Labels, EntryFound
  <2>2. told' \in [Ids -> Entries]
    BY <1>8, <1>k, Constants DEF Poll, TypeOK
  <2> QED
    BY <1>8, <1>r, <2>1, <2>2 DEF Poll, TypeOK
<1>9. CASE PollLeaves \/ PollEnds
  BY <1>1, <1>9, Constants DEF PollLeaves, PollEnds, PollReturns, TypeOK, Labels, Section
<1>10. CASE OldSessionKey
  <2>1. pc' \in [Threads -> Labels] /\ EntryFound'
    BY <1>10, GotoType, Constants DEF OldSessionKey, Labels, Section, EntryFound
  <2>2. renewals' \in 0 .. MaxRenewals
    BY <1>10, AuthKeyAssumption DEF OldSessionKey, TypeOK
  <2> QED
    BY <1>10, <1>r, <1>k, <2>1, <2>2 DEF OldSessionKey, TypeOK
<1>11. CASE VersionsAsked
  <2>1. pending' \in 0 .. MaxPending
    BY <1>11, AuthKeyAssumption DEF VersionsAsked, TypeOK
  <2> QED
    BY <1>1, <1>11, <2>1, Constants DEF VersionsAsked, PollReturns, TypeOK, Labels, Section
<1>12. CASE TakeVersions
  <2>1. pending' \in 0 .. MaxPending
    BY <1>12, AuthKeyAssumption DEF TakeVersions, TypeOK
  <2>2. CASE offline
    <3>1. pc' = pc /\ EntryFound'
      BY <1>12, <2>2 DEF TakeVersions, EntryFound
    <3> QED
      BY <1>12, <1>r, <2>1, <3>1 DEF TakeVersions, TypeOK
  <2>3. CASE ~offline
    BY <1>1, <1>12, <2>1, <2>3, Constants DEF TakeVersions, TypeOK, Labels, Section
  <2> QED
    BY <2>2, <2>3
<1>13. ASSUME NEW c \in Companies, OpenCompany(c) PROVE TypeOK' /\ EntryFound'
  <2>1. pending' \in 0 .. MaxPending
    BY <1>13, AuthKeyAssumption DEF OpenCompany, TypeOK
  <2>2. EntryFound'
    BY <1>13 DEF OpenCompany, EntryFound
  <2> QED
    BY <1>13, <1>r, <2>1, <2>2 DEF OpenCompany, TypeOK
<1>14. CASE StartCore
  <2>1. pc' \in [Threads -> Labels] /\ EntryFound'
    BY <1>14, GotoType, Constants DEF StartCore, Labels, EntryFound
  <2>2. sessions' \in 0 .. MaxSessions
    BY <1>14, AuthKeyAssumption DEF StartCore, TypeOK
  <2> QED
    BY <1>14, <1>r, <2>1, <2>2 DEF StartCore, TypeOK
<1>15. CASE GoOffline
  <2>1. ready' \in BOOLEAN /\ offline' \in BOOLEAN
    BY <1>15, Zenon DEF GoOffline
  <2> QED
    BY <1>1, <1>15, <2>1, Constants DEF GoOffline, TypeOK, Labels, Section
<1>16. CASE GoOfflineEnds
  <2>1. ready' \in BOOLEAN
    BY <1>16, Zenon DEF GoOfflineEnds
  <2> QED
    BY <1>1, <1>16, <2>1, Constants DEF GoOfflineEnds, TypeOK, Labels, Section
<1>17. CASE OfferKey
  <2>1. pc' \in [Threads -> Labels] /\ EntryFound'
    BY <1>17, GotoType, Constants DEF OfferKey, Labels, Section, EntryFound
  <2> QED
    BY <1>17, <1>r, <1>k, <2>1 DEF OfferKey, TypeOK
<1>18. CASE OfferEnds \/ RequestLeaves
  BY <1>1, <1>18, Constants DEF OfferEnds, RequestLeaves, TypeOK, Labels, Section
<1>19. CASE CoreEnds
  BY <1>r, <1>19, EndsType DEF CoreEnds, TypeOK
<1>20. CASE Crash
  <2>1. torn' \in BOOLEAN
    BY <1>20, Zenon DEF Crash, TypeOK
  <2>2. crashes' \in 0 .. MaxCrashes
    BY <1>20, AuthKeyAssumption DEF Crash, TypeOK
  <2> QED
    BY <1>r, <1>20, <2>1, <2>2, EndsType DEF Crash
<1>21. CASE UNCHANGED vars
  BY <1>21 DEF vars, TypeOK, EntryFound
<1> QED
  BY <1>2, <1>3, <1>4, <1>5, <1>6, <1>7, <1>8, <1>9, <1>10, <1>11, <1>12, <1>13, <1>14,
     <1>15, <1>16, <1>17, <1>18, <1>19, <1>20, <1>21 DEF Next, Step, LoadConfigYaml

LEMMA TypeInit == Init => TypeOK /\ EntryFound
<1> SUFFICES ASSUME Init PROVE TypeOK /\ EntryFound
  OBVIOUS
<1>1. /\ hasRun \in BOOLEAN /\ ready \in BOOLEAN /\ offline \in BOOLEAN
      /\ raced \in BOOLEAN /\ adopted \in BOOLEAN /\ torn \in BOOLEAN
  BY Zenon DEF Init
<1>2. EntryFound
  BY DEF Init, EntryFound
<1>3. file \in [Ids -> Entries] /\ told \in [Ids -> Entries]
  BY Constants DEF Init
<1>4. copy \in [Threads -> [Ids -> Entries]] /\ id \in [Threads -> Ids]
  BY Constants DEF Init
<1>5. pc \in [Threads -> Labels]
  BY DEF Init, Labels
<1> QED
  BY <1>1, <1>2, <1>3, <1>4, <1>5, Constants, AuthKeyAssumption DEF Init, TypeOK, Keys, Empty

(* AuthKey's type invariant, also when threads race: LoadConfigYaml always *)
(* finds the entry whose value it takes.                                   *)
THEOREM TypeCorrect == Spec => []TypeOK
<1> QED
  BY TypeInit, TypeStep, PTL DEF Spec

-----------------------------------------------------------------------------
(* The main thread stays in charge.                                        *)
LEMMA MainStep == TypeOK /\ MainInCharge /\ [Next]_vars => MainInCharge'
<1> SUFFICES ASSUME TypeOK, MainInCharge, [Next]_vars PROVE MainInCharge'
  OBVIOUS
<1> USE DEF memory, counters, At
<1>1. ASSUME NEW t \in {"main", "request"}, Info(t) PROVE MainInCharge'
  BY <1>1 DEF Info, GiveUp, Ask, Learn, Check, Compare, Reset, Blank, Forget, Signal, Goto,
              TypeOK, Threads, MainInCharge
<1>2. ASSUME NEW t \in Threads, LoadConfigYaml(t) PROVE MainInCharge'
  BY <1>2 DEF LoadConfigYaml, Load, Choose, SaveBegin, SaveEnd, Ran, PollReturns, Goto, TypeOK,
              Threads, MainInCharge
<1>3. CASE Poll \/ PollLeaves \/ PollEnds \/ OldSessionKey \/ VersionsAsked \/ TakeVersions
  BY <1>3 DEF Poll, PollLeaves, PollEnds, OldSessionKey, VersionsAsked, TakeVersions, Goto,
              PollReturns, TypeOK, Threads, MainInCharge
<1>4. CASE StartCore \/ GoOffline \/ GoOfflineEnds \/ OfferKey \/ OfferEnds \/ RequestLeaves
  BY <1>4 DEF StartCore, GoOffline, GoOfflineEnds, OfferKey, OfferEnds, RequestLeaves, Goto,
              TypeOK, Threads, MainInCharge
<1>5. CASE \/ \E c \in Companies : OpenCompany(c)
           \/ UNCHANGED vars
  BY <1>5 DEF OpenCompany, vars, MainInCharge
<1>6. CASE CoreEnds \/ Crash
  BY <1>6 DEF CoreEnds, Crash, ProcessEnds, Threads, MainInCharge
<1> QED
  BY <1>1, <1>2, <1>3, <1>4, <1>5, <1>6 DEF Next, Step, Informed

-----------------------------------------------------------------------------
(* What only one thread can disturb.                                       *)
LEMMA Alone ==
    ASSUME ~Overlap, NEW t \in Threads, pc[t] \in Section
    PROVE  \A u \in Threads : u # t => pc[u] \notin Section
BY DEF Overlap

LEMMA After ==
    ASSUME NEW t \in Threads,
           \A u \in Threads : u # t => pc'[u] \notin Section,
           Fine(t)',
           pc'[t] = "saving" \/ (Distinct(file) /\ ToldIn(file))',
           (pc'[t] \notin Section /\ ~offline' /\ hasRun') => GoodKey' /\ file'[company'] = key',
           pc'["poll"] # "off" =>
             hasRun' \/ pc'["request"] \in {"load", "choose", "save", "saving", "ran"}
    PROVE  Calm'
<1>1. \A u \in Threads : Fine(u)'
  <2> SUFFICES ASSUME NEW u \in Threads, u # t PROVE Fine(u)'
    OBVIOUS
  <2>1. pc'[u] \notin Section
    OBVIOUS
  <2> QED
    BY <2>1 DEF Fine, Section
<1>2. ~Overlap'
  BY DEF Overlap
<1>3. (~Saving => Distinct(file) /\ ToldIn(file))'
  BY DEF Saving
<1>4. (Quiet /\ ~offline /\ hasRun => GoodKey /\ file[company] = key)'
  BY DEF Quiet
<1> QED
  BY <1>1, <1>2, <1>3, <1>4 DEF Calm

(* A step that changes no key and neither begins nor ends such a change.   *)
LEMMA Outside ==
    ASSUME Calm, ~Overlap',
           UNCHANGED <<file, key, company, was, hasRun, copy, id, made, told, torn>>,
           offline' = offline \/ offline',
           \A u \in Threads : \/ pc'[u] = pc[u]
                              \/ pc'[u] \notin Section /\ pc[u] \notin Section,
           pc'["poll"] # "off" => pc["poll"] # "off"
    PROVE  Calm'
<1>1. \A u \in Threads : Fine(u)'
  <2> SUFFICES ASSUME NEW u \in Threads PROVE Fine(u)'
    OBVIOUS
  <2>1. CASE pc'[u] = pc[u]
    <3>1. Fine(u)
      BY DEF Calm
    <3> QED
      BY <2>1, <3>1 DEF Fine, GoodKey, KeyFor, Distinct, ToldIn
  <2>2. CASE pc'[u] \notin Section
    BY <2>2 DEF Fine, Section
  <2> QED
    BY <2>1, <2>2
<1>2. (Quiet' => Quiet) /\ (Saving => Saving')
  BY DEF Quiet, Saving, Section
<1>3. (~Saving => Distinct(file) /\ ToldIn(file))'
  BY <1>2 DEF Calm, Distinct, ToldIn
<1>4. (Quiet /\ ~offline /\ hasRun => GoodKey /\ file[company] = key)'
  BY <1>2 DEF Calm, GoodKey
<1>5. pc["request"] \in {"load", "choose", "save", "saving", "ran"} => pc'["request"] = pc["request"]
  BY DEF Section, Threads
<1> QED
  BY <1>1, <1>3, <1>4, <1>5 DEF Calm

(* A key that was never used can be the entry of any company.              *)
LEMMA FreshKey ==
    ASSUME TypeOK, Distinct(file), ToldIn(file), key' = NewKey, made' = NewKey,
           UNCHANGED <<file, company, told, torn>>
    PROVE  KeyFor(company, file)' /\ Distinct(file)' /\ ToldIn(file)'
<1>1. made \in Nat /\ company \in Ids
  BY DEF TypeOK
<1>2. \A c \in Ids : file[c] \in Entries /\ told[c] \in Entries /\ file[c] <= made
  BY DEF TypeOK, Distinct
<1>3. \A c \in Ids : file[c] < NewKey /\ (file[c] <= NewKey) /\ file[c] \in Int /\ told[c] \in Int
  BY <1>1, <1>2 DEF NewKey, Entries, Keys, None
<1>4. GoodKey' /\ \A d \in Ids : file[d] # NewKey
  BY <1>1, <1>3 DEF GoodKey, NewKey
<1>5. torn \/ told[company] <= NewKey
  <2>1. torn \/ told[company] <= file[company]
    BY <1>1 DEF ToldIn
  <2> QED
    BY <1>1, <1>3, <2>1 DEF NewKey
<1>6. Distinct(file)'
  BY <1>3 DEF Distinct
<1> QED
  BY <1>4, <1>5, <1>6 DEF KeyFor, ToldIn

(* A key that is the entry of c may stay so.                               *)
LEMMA OwnKey ==
    ASSUME TypeOK, Distinct(file), ToldIn(file), NEW c \in Ids, GoodKey, file[c] = key
    PROVE  KeyFor(c, file)
<1>1. key # None /\ made \in Nat
  BY DEF TypeOK, GoodKey, None
<1>2. \A d \in Ids \ {c} : file[d] # key
  BY <1>1 DEF Distinct
<1> QED
  BY <1>2 DEF KeyFor, ToldIn

(* Every step keeps the calm, but for a race and an adoption.              *)
LEMMA CalmStep ==
    ASSUME IInv, Calm, [Next]_vars, TypeOK', ~raced', ~adopted'
    PROVE  Calm'
<1> USE DEF memory, counters, At
<1>t. TypeOK /\ MainInCharge /\ EntryFound
  BY DEF IInv
<1>p. {"main", "poll", "request"} = Threads /\ Informed \subseteq Threads
  BY Constants
<1>o. ~Overlap'
  <2>1. CASE Next
    BY <2>1, Zenon DEF Next
  <2>2. CASE UNCHANGED vars
    BY <2>2 DEF vars, Calm, Overlap
  <2> QED
    BY <2>1, <2>2
<1>g. ASSUME NEW t \in Threads, NEW l \in Labels, Goto(t, l)
      PROVE  pc'[t] = l /\ \A u \in Threads : u # t => pc'[u] = pc[u]
  BY <1>t, <1>g, GotoType
<1>f. ~Saving => Distinct(file) /\ ToldIn(file)
  BY DEF Calm
<1>1. ASSUME NEW t \in Threads, pc[t] \notin Section, pc[t] # "off" \/ t # "poll",
             NEW l \in Labels \ Section, Goto(t, l) \/ pc' = pc,
             UNCHANGED <<file, key, company, was, hasRun, copy, id, made, told, torn>>,
             offline' = offline \/ offline'
      PROVE  Calm'
  <2>1. \A u \in Threads : \/ pc'[u] = pc[u]
                           \/ pc'[u] \notin Section /\ pc[u] \notin Section
    BY <1>1, <1>g
  <2>2. pc'["poll"] # "off" => pc["poll"] # "off"
    BY <1>1, <1>g, <1>p
  <2> QED
    BY <1>o, <1>1, <2>1, <2>2, Outside
\* The steps of a thread that has the keys for itself, and that go on with it.
<1>2. ASSUME NEW t \in Threads, pc[t] \in Section
      PROVE  /\ Fine(t)
             /\ \A u \in Threads : u # t => pc[u] \notin Section
             /\ pc[t] # "saving" => Distinct(file) /\ ToldIn(file)
  <2>1. \A u \in Threads : u # t => pc[u] \notin Section
    BY <1>2, Alone DEF Calm
  <2>2. pc[t] # "saving" => ~Saving
    BY <2>1 DEF Saving, Section
  <2> QED
    BY <1>f, <2>1, <2>2 DEF Calm
<1>3. ASSUME NEW t \in Threads, pc[t] \in Section, NEW l \in Labels, Goto(t, l),
             t = "main" \/ t = "poll" \/ t = "request",
             hasRun' = hasRun \/ hasRun' \/ (t = "request" /\ l = "load") \/ t = "main",
             l \in {"load", "choose", "save", "saving", "ran"} \/ hasRun'
               \/ pc[t] \notin {"load", "choose", "save", "saving", "ran"}
      PROVE  /\ pc'[t] = l
             /\ \A u \in Threads : u # t => pc'[u] \notin Section
             /\ pc'["poll"] # "off" =>
                  hasRun' \/ pc'["request"] \in {"load", "choose", "save", "saving", "ran"}
  <2>1. pc'[t] = l /\ \A u \in Threads : u # t => pc'[u] = pc[u]
    BY <1>3, <1>g
  <2>2. pc["poll"] # "off" =>
          hasRun \/ pc["request"] \in {"load", "choose", "save", "saving", "ran"}
    BY DEF Calm
  <2>3. t = "main" => pc["poll"] = "off"
    BY <1>t, <1>3 DEF MainInCharge, Section
  <2>4. pc'["poll"] # "off" =>
          hasRun' \/ pc'["request"] \in {"load", "choose", "save", "saving", "ran"}
    <3>1. CASE t = "main"
      BY <1>p, <2>1, <2>3, <3>1
    <3>2. CASE t = "poll"
      <4>1. pc["poll"] # "off"
        BY <1>3, <3>2 DEF Section
      <4> QED
        BY <1>p, <1>3, <2>1, <2>2, <3>2, <4>1
    <3>3. CASE t = "request"
      BY <1>p, <1>3, <2>1, <2>2, <3>3
    <3> QED
      BY <1>3, <3>1, <3>2, <3>3
  <2> QED
    BY <1>2, <1>3, <2>1, <2>4
\* The steps with which such a change begins: nobody else is at one.
<1>4. ASSUME NEW t \in Threads, pc[t] \notin Section, pc[t] # "off" \/ t # "poll",
             NEW l \in Section, Goto(t, l), UNCHANGED hasRun
      PROVE  /\ pc'[t] = l
             /\ \A u \in Threads : u # t => pc'[u] \notin Section
             /\ Quiet
             /\ Distinct(file) /\ ToldIn(file)
             /\ pc'["poll"] # "off" =>
                  hasRun' \/ pc'["request"] \in {"load", "choose", "save", "saving", "ran"}
  <2>1. pc'[t] = l /\ \A u \in Threads : u # t => pc'[u] = pc[u]
    BY <1>4, <1>g DEF Labels
  <2>2. \A u \in Threads : u # t => pc'[u] \notin Section
    BY <1>o, <1>4, <2>1 DEF Overlap
  <2>3. Quiet
    BY <1>4, <2>1, <2>2 DEF Quiet
  <2>4. ~Saving
    BY <2>3 DEF Quiet, Saving, Section
  <2>5. pc["poll"] # "off" => hasRun
    BY <1>p, <2>3 DEF Calm, Quiet, Section
  <2>6. pc'["poll"] # "off" => pc["poll"] # "off"
    BY <1>p, <1>4, <2>1
  <2> QED
    BY <1>4, <1>f, <2>1, <2>2, <2>3, <2>4, <2>5, <2>6
<1>5. ASSUME NEW t \in Informed, Info(t) PROVE Calm'
  <2>t. t \in Threads /\ (t = "main" \/ t = "request")
    BY <1>p DEF Informed
  <2>1. CASE (GiveUp(t) /\ pc[t] = "ask") \/ Ask(t)
    BY <1>1, <2>t, <2>1 DEF GiveUp, Ask, Labels, Section
  <2>2. CASE GiveUp(t) /\ pc[t] = "check"
    <3>1. /\ pc'[t] = "idle" /\ offline'
          /\ UNCHANGED <<file, key, company, was, hasRun, copy, id, made, told, torn>>
      BY <1>g, <2>t, <2>2 DEF GiveUp, Labels
    <3>2. /\ \A u \in Threads : u # t => pc'[u] \notin Section
          /\ pc'["poll"] # "off" =>
               hasRun' \/ pc'["request"] \in {"load", "choose", "save", "saving", "ran"}
      BY <1>3, <2>t, <2>2, <3>1 DEF GiveUp, Labels, Section
    <3>3. Fine(t)'
      BY <3>1 DEF Fine
    <3>4. (Distinct(file) /\ ToldIn(file))'
      BY <1>2, <2>t, <2>2, <3>1 DEF Section, Distinct, ToldIn
    <3> QED
      BY <2>t, <3>1, <3>2, <3>3, <3>4, After
  <2>3. CASE Learn(t)
    <3>1. /\ pc'[t] = "check"
          /\ \A u \in Threads : u # t => pc'[u] \notin Section
          /\ Quiet /\ Distinct(file) /\ ToldIn(file)
          /\ pc'["poll"] # "off" =>
               hasRun' \/ pc'["request"] \in {"load", "choose", "save", "saving", "ran"}
      BY <1>4, <2>t, <2>3 DEF Learn, Section
    <3>2. was' = company /\ UNCHANGED <<file, key, hasRun, offline, made, told, torn>>
      BY <2>3 DEF Learn
    <3>3. hasRun /\ ~offline => GoodKey /\ file[company] = key
      BY <3>1 DEF Calm
    <3>4. Fine(t)'
      BY <3>1, <3>2, <3>3 DEF Fine, GoodKey
    <3>5. (Distinct(file) /\ ToldIn(file))'
      BY <3>1, <3>2 DEF Distinct, ToldIn
    <3> QED
      BY <2>t, <3>1, <3>4, <3>5, After DEF Section
  <2>4. CASE Check(t)
    <3>1. /\ pc'[t] = "compare"
          /\ \A u \in Threads : u # t => pc'[u] \notin Section
          /\ pc'["poll"] # "off" =>
               hasRun' \/ pc'["request"] \in {"load", "choose", "save", "saving", "ran"}
      BY <1>3, <2>t, <2>4 DEF Check, Labels, Section
    <3>2. /\ pc[t] = "check" /\ ~offline
          /\ UNCHANGED <<file, key, was, hasRun, made, told, torn>>
      BY <2>4 DEF Check
    <3>3. Fine(t) /\ Distinct(file) /\ ToldIn(file)
      BY <1>2, <2>t, <3>2 DEF Section
    <3>4. Fine(t)'
      BY <3>1, <3>2, <3>3 DEF Fine, GoodKey
    <3>5. (Distinct(file) /\ ToldIn(file))'
      BY <3>2, <3>3 DEF Distinct, ToldIn
    <3> QED
      BY <2>t, <3>1, <3>4, <3>5, After DEF Section
  <2>5. CASE Compare(t)
    <3>1. \/ Goto(t, "dead")
          \/ Goto(t, "load") /\ (company = was \/ was = NoCompany)
      BY <2>5 DEF Compare
    <3>2. /\ pc[t] = "compare"
          /\ UNCHANGED <<file, key, company, hasRun, offline, made, told, torn>>
          /\ ~(company # was /\ was = NoCompany /\ hasRun)
      BY <2>5 DEF Compare, Compared
    <3>3. /\ pc'[t] \in {"dead", "load"}
          /\ pc'[t] = "load" /\ hasRun => company = was
          /\ \A u \in Threads : u # t => pc'[u] \notin Section
          /\ pc'["poll"] # "off" =>
               hasRun' \/ pc'["request"] \in {"load", "choose", "save", "saving", "ran"}
      BY <1>3, <2>t, <3>1, <3>2 DEF Labels, Section
    <3>4. Fine(t) /\ Distinct(file) /\ ToldIn(file)
      BY <1>2, <2>t, <3>2 DEF Section
    <3>5. pc'[t] = "load" /\ hasRun => KeyFor(company, file)
      BY <1>t, <3>2, <3>3, <3>4, OwnKey DEF Fine, TypeOK
    <3>6. Fine(t)'
      BY <3>2, <3>3, <3>5 DEF Fine, KeyFor, GoodKey
    <3>7. (Distinct(file) /\ ToldIn(file))'
      BY <3>2, <3>4 DEF Distinct, ToldIn
    <3> QED
      BY <2>t, <3>3, <3>6, <3>7, After DEF Section
  <2>6. CASE Reset(t) \/ Blank(t) \/ Forget(t)
    <3>1. /\ pc[t] \in {"dead", "blank", "forget"}
          /\ UNCHANGED <<file, made, told, torn>>
          /\ pc[t] = "forget" => hasRun' = FALSE
          /\ pc[t] # "forget" => hasRun' = hasRun
          /\ Goto(t, IF pc[t] = "dead" THEN "blank" ELSE IF pc[t] = "blank" THEN "forget" ELSE "load")
      BY <2>6 DEF Reset, Blank, Forget
    <3>2. /\ pc'[t] \in {"blank", "forget", "load"}
          /\ pc'[t] = "load" => ~hasRun'
          /\ \A u \in Threads : u # t => pc'[u] \notin Section
          /\ pc'["poll"] # "off" =>
               hasRun' \/ pc'["request"] \in {"load", "choose", "save", "saving", "ran"}
      BY <1>3, <2>t, <3>1 DEF Labels, Section
    <3>3. Fine(t)'
      BY <3>2 DEF Fine
    <3>4. (Distinct(file) /\ ToldIn(file))'
      BY <1>2, <2>t, <3>1 DEF Section, Distinct, ToldIn
    <3> QED
      BY <2>t, <3>2, <3>3, <3>4, After DEF Section
  <2>7. CASE Signal(t)
    <3>1. pc[t] = "signal" /\ UNCHANGED <<file, key, company, hasRun, made, told, torn>>
      BY <2>7 DEF Signal
    <3>2. Fine(t) /\ Distinct(file) /\ ToldIn(file) /\ \A u \in Threads : u # t => pc[u] \notin Section
      BY <1>2, <2>t, <3>1 DEF Section
    <3>3. pc'[t] = "idle" /\ \A u \in Threads : u # t => pc'[u] \notin Section
      BY <1>g, <2>t, <2>7, <3>2 DEF Signal, Labels, Section
    <3>4. hasRun' /\ GoodKey' /\ file'[company'] = key'
      BY <3>1, <3>2 DEF Fine, GoodKey
    <3>5. Fine(t)'
      BY <3>3 DEF Fine
    <3>6. (Distinct(file) /\ ToldIn(file))'
      BY <3>1, <3>2 DEF Distinct, ToldIn
    <3> QED
      BY <2>t, <3>3, <3>4, <3>5, <3>6, After
  <2> QED
    BY <1>5, <2>1, <2>2, <2>3, <2>4, <2>5, <2>6, <2>7 DEF Info, GiveUp
<1>6. ASSUME NEW t \in Threads, LoadConfigYaml(t) PROVE Calm'
  <2>m. t = "main" \/ t = "poll" \/ t = "request"
    BY <1>p
  <2>1. CASE Load(t)
    <3>1. /\ pc[t] = "load"
          /\ id'[t] = company
          /\ UNCHANGED <<file, key, company, hasRun, told, torn>>
      BY <1>t, <2>1 DEF Load, TypeOK
    <3>2. /\ pc'[t] = "choose"
          /\ \A u \in Threads : u # t => pc'[u] \notin Section
          /\ pc'["poll"] # "off" =>
               hasRun' \/ pc'["request"] \in {"load", "choose", "save", "saving", "ran"}
      BY <1>3, <2>m, <2>1, <3>1 DEF Load, Labels, Section
    <3>3. Fine(t) /\ Distinct(file) /\ ToldIn(file)
      BY <1>2, <3>1 DEF Section
    <3>4. made \in Nat /\ made' \in Nat /\ made <= made' /\ company \in Ids
      BY <1>t, <2>1 DEF Load, TypeOK, NewKey
    <3>5. /\ \A c \in Ids \ {company} : copy'[t][c] = file[c]
          /\ \/ copy'[t][company] = NewKey /\ made' = NewKey /\ file[company] = None
             \/ copy'[t][company] = file[company] /\ file[company] # None /\ made' = made
      <4>1. CASE file[company] = None
        <5>1. copy'[t] = [file EXCEPT ![company] = NewKey] /\ made' = NewKey
          BY <1>t, <2>1, <4>1 DEF Load, TypeOK
        <5> QED
          BY <1>t, <4>1, <5>1 DEF TypeOK
      <4>2. CASE file[company] # None
        BY <1>t, <2>1, <4>2 DEF Load, TypeOK
      <4> QED
        BY <4>1, <4>2
    <3>6. \A c \in Ids : file[c] \in Int /\ file[c] <= made /\ told[c] \in Int
      BY <1>t, <3>3 DEF TypeOK, Distinct, Entries, Keys, None
    <3>7. Distinct(copy[t])'
      <4>1. \A c \in Ids : copy'[t][c] # Empty /\ copy'[t][c] <= made'
        BY <3>3, <3>4, <3>5, <3>6 DEF Distinct, NewKey, Empty
      <4>2. \A c \in Ids : file[c] # NewKey
        BY <3>4, <3>6 DEF NewKey
      <4>3. \A c \in Ids : \A d \in Ids \ {c} : copy'[t][c] = copy'[t][d] => copy'[t][c] = None
        BY <3>3, <3>5, <4>2 DEF Distinct
      <4> QED
        BY <4>1, <4>3 DEF Distinct
    <3>8. ToldIn(copy[t])'
      BY <3>1, <3>3, <3>4, <3>5, <3>6 DEF ToldIn, NewKey, None
    <3>9. hasRun' => KeyFor(company, copy[t])'
      BY <3>1, <3>3, <3>4, <3>5 DEF Fine, KeyFor, GoodKey
    <3>10. copy'[t][company] # None
      BY <3>4, <3>5 DEF NewKey, None
    <3>11. Fine(t)'
      BY <3>1, <3>2, <3>7, <3>8, <3>9, <3>10 DEF Fine
    <3>12. (Distinct(file) /\ ToldIn(file))'
      BY <3>1, <3>3, <3>4, <3>6 DEF Distinct, ToldIn
    <3> QED
      BY <3>2, <3>11, <3>12, After DEF Section
  <2>2. CASE Choose(t)
    <3>1. /\ pc[t] = "choose"
          /\ UNCHANGED <<file, company, hasRun, made, told, torn>>
      BY <2>2 DEF Choose
    <3>2. /\ pc'[t] = "save"
          /\ \A u \in Threads : u # t => pc'[u] \notin Section
          /\ pc'["poll"] # "off" =>
               hasRun' \/ pc'["request"] \in {"load", "choose", "save", "saving", "ran"}
      BY <1>3, <2>m, <2>2, <3>1 DEF Choose, Labels, Section
    <3>3. Fine(t) /\ Distinct(file) /\ ToldIn(file)
      BY <1>2, <3>1 DEF Section
    <3>4. /\ id[t] = company /\ company \in Ids /\ made \in Nat
          /\ copy[t] \in [Ids -> Entries] /\ copy[t][company] # None
          /\ Distinct(copy[t]) /\ ToldIn(copy[t])
          /\ hasRun => KeyFor(company, copy[t])
      BY <1>t, <3>1, <3>3 DEF Fine, TypeOK
    <3>5. GoodKey' /\ copy'[t][company] = key' /\ Distinct(copy[t])' /\ ToldIn(copy[t])'
      <4>1. CASE hasRun
        <5>1. copy'[t] = [copy[t] EXCEPT ![company] = key] /\ key' = key
          BY <1>t, <2>2, <3>4, <4>1 DEF Choose, TypeOK
        <5>2. copy'[t][company] = key /\ \A c \in Ids \ {company} : copy'[t][c] = copy[t][c]
          BY <3>4, <5>1
        <5>3. KeyFor(company, copy[t]) /\ key # Empty /\ key <= made
          BY <3>4, <4>1 DEF KeyFor, GoodKey, Empty
        <5>4. Distinct(copy[t])'
          BY <3>1, <3>4, <5>2, <5>3 DEF Distinct, KeyFor
        <5>5. ToldIn(copy[t])'
          BY <3>1, <3>4, <5>2, <5>3 DEF ToldIn, KeyFor
        <5> QED
          BY <3>1, <5>1, <5>2, <5>3, <5>4, <5>5 DEF KeyFor, GoodKey
      <4>2. CASE ~hasRun
        <5>1. key' = copy[t][company] /\ copy' = copy
          BY <2>2, <3>4, <4>2 DEF Choose
        <5>2. key' \in 1 .. made
          BY <3>4, <5>1 DEF Distinct, Entries, Keys, Empty
        <5> QED
          BY <3>1, <3>4, <5>1, <5>2 DEF GoodKey, Distinct, ToldIn
      <4> QED
        BY <4>1, <4>2
    <3>6. Fine(t)'
      BY <3>1, <3>2, <3>5 DEF Fine
    <3>7. (Distinct(file) /\ ToldIn(file))'
      BY <3>1, <3>3 DEF Distinct, ToldIn
    <3> QED
      BY <3>2, <3>6, <3>7, After DEF Section
  <2>3. CASE SaveBegin(t)
    <3>1. /\ pc[t] = "save" /\ file' = NoEntries
          /\ UNCHANGED <<key, company, hasRun, copy, made, told, torn>>
      BY <2>3 DEF SaveBegin
    <3>2. /\ pc'[t] = "saving"
          /\ \A u \in Threads : u # t => pc'[u] \notin Section
          /\ pc'["poll"] # "off" =>
               hasRun' \/ pc'["request"] \in {"load", "choose", "save", "saving", "ran"}
      BY <1>3, <2>m, <2>3, <3>1 DEF SaveBegin, Labels, Section
    <3>3. Fine(t)
      BY <1>2, <3>1 DEF Section
    <3>4. Fine(t)'
      BY <3>1, <3>2, <3>3 DEF Fine, GoodKey, Distinct, ToldIn, NoEntries
    <3> QED
      BY <3>2, <3>4, After DEF Section
  <2>4. CASE SaveEnd(t)
    <3>1. /\ pc[t] = "saving" /\ file' = copy[t]
          /\ UNCHANGED <<key, company, hasRun, made, told, torn>>
      BY <2>4 DEF SaveEnd
    <3>2. /\ pc'[t] = "ran"
          /\ \A u \in Threads : u # t => pc'[u] \notin Section
          /\ pc'["poll"] # "off" =>
               hasRun' \/ pc'["request"] \in {"load", "choose", "save", "saving", "ran"}
      BY <1>3, <2>m, <2>4, <3>1 DEF SaveEnd, Labels, Section
    <3>3. Fine(t)
      BY <1>2, <3>1 DEF Section
    <3>4. GoodKey /\ copy[t][company] = key /\ Distinct(copy[t]) /\ ToldIn(copy[t])
      BY <3>1, <3>3 DEF Fine
    <3>5. Fine(t)'
      BY <3>1, <3>2, <3>4 DEF Fine, GoodKey
    <3>6. (Distinct(file) /\ ToldIn(file))'
      BY <3>1, <3>4 DEF Distinct, ToldIn
    <3> QED
      BY <3>2, <3>5, <3>6, After DEF Section
  <2>5. CASE Ran(t)
    <3>1. /\ pc[t] = "ran" /\ hasRun'
          /\ UNCHANGED <<file, key, company, made, told, torn>>
      BY <2>5 DEF Ran
    <3>2. PICK l \in {"idle", "off", "joinRequest", "signal"} : Goto(t, l)
      BY <2>5, <1>p DEF Ran, PollReturns, Informed
    <3>3. /\ pc'[t] = l
          /\ \A u \in Threads : u # t => pc'[u] \notin Section
      BY <1>3, <2>m, <3>1, <3>2 DEF Labels, Section
    <3>4. Fine(t) /\ Distinct(file) /\ ToldIn(file)
      BY <1>2, <3>1 DEF Section
    <3>5. GoodKey' /\ file'[company'] = key'
      BY <3>1, <3>4 DEF Fine, GoodKey
    <3>6. Fine(t)'
      BY <3>1, <3>3, <3>5 DEF Fine
    <3>7. (Distinct(file) /\ ToldIn(file))'
      BY <3>1, <3>4 DEF Distinct, ToldIn
    <3> QED
      BY <3>1, <3>3, <3>5, <3>6, <3>7, After
  <2> QED
    BY <1>6, <2>1, <2>2, <2>3, <2>4, <2>5 DEF LoadConfigYaml
<1>7. CASE Poll
  <2>1. /\ pc["poll"] = "idle" /\ ~offline
        /\ pc'["poll"] = "wait" /\ \A u \in Threads : u # "poll" => pc'[u] = pc[u]
        /\ UNCHANGED <<file, key, company, was, hasRun, offline, copy, id, made, torn>>
    BY <1>7, <1>g, <1>p DEF Poll, Labels
  <2>2. CASE pc["request"] \in Section
    BY <1>1, <1>7, <1>p, <2>2 DEF Poll, Labels, Section
  <2>3. CASE pc["request"] \notin Section
    <3>1. Quiet
      <4>1. pc["main"] \notin Section /\ pc["poll"] \notin Section
        BY <1>t, <2>1 DEF MainInCharge, Section
      <4> QED
        BY <1>p, <2>3, <4>1 DEF Quiet
    <3>2. hasRun /\ ~Saving
      BY <1>p, <2>1, <3>1 DEF Calm, Quiet, Saving, Section
    <3>3. GoodKey /\ file[company] = key /\ Distinct(file) /\ ToldIn(file)
      BY <1>f, <2>1, <3>1, <3>2 DEF Calm
    <3>4. told' = [told EXCEPT ![company] = key]
      BY <1>7, <2>3 DEF Poll
    <3>5. key <= key
      BY <1>t DEF TypeOK, Keys
    <3>6. (Distinct(file) /\ ToldIn(file))'
      BY <1>t, <2>1, <3>3, <3>4, <3>5 DEF Distinct, ToldIn, TypeOK
    <3>7. Fine("poll")' /\ pc'["poll"] \notin Section
      BY <2>1 DEF Fine, Section
    <3>8. \A u \in Threads : u # "poll" => pc'[u] \notin Section
      BY <2>1, <3>1 DEF Quiet
    <3>9. GoodKey' /\ file'[company'] = key' /\ hasRun'
      BY <2>1, <3>2, <3>3 DEF GoodKey
    <3> QED
      BY <1>p, <3>6, <3>7, <3>8, <3>9, After
  <2> QED
    BY <2>2, <2>3
<1>8. CASE PollLeaves \/ PollEnds \/ VersionsAsked
  BY <1>1, <1>8, <1>p DEF PollLeaves, PollEnds, VersionsAsked, PollReturns, Labels, Section
<1>9. CASE TakeVersions
  BY <1>1, <1>9, <1>p DEF TakeVersions, Labels, Section
<1>10. CASE OldSessionKey
  <2>1. /\ pc'["poll"] = "load"
        /\ \A u \in Threads : u # "poll" => pc'[u] \notin Section
        /\ Quiet /\ Distinct(file) /\ ToldIn(file)
        /\ pc'["poll"] # "off" =>
             hasRun' \/ pc'["request"] \in {"load", "choose", "save", "saving", "ran"}
    BY <1>4, <1>10, <1>p DEF OldSessionKey, Section
  <2>2. KeyFor(company, file)' /\ Distinct(file)' /\ ToldIn(file)'
    BY <1>t, <1>10, <2>1, FreshKey DEF OldSessionKey
  <2>3. Fine("poll")'
    BY <2>1, <2>2 DEF Fine
  <2> QED
    BY <1>p, <2>1, <2>2, <2>3, After DEF Section
<1>11. ASSUME NEW c \in Companies, OpenCompany(c) PROVE Calm'
  BY <1>o, <1>11, Outside DEF OpenCompany
<1>12. CASE StartCore \/ GoOfflineEnds \/ RequestLeaves
  BY <1>1, <1>12, <1>p DEF StartCore, GoOfflineEnds, RequestLeaves, Labels, Section
<1>13. CASE GoOffline
  BY <1>1, <1>13, <1>p DEF GoOffline, Labels, Section
<1>14. CASE OfferKey
  <2>1. /\ pc'["main"] = "offer"
        /\ \A u \in Threads : u # "main" => pc'[u] \notin Section
        /\ Quiet /\ Distinct(file) /\ ToldIn(file)
        /\ pc'["poll"] # "off" =>
             hasRun' \/ pc'["request"] \in {"load", "choose", "save", "saving", "ran"}
    BY <1>4, <1>14, <1>p DEF OfferKey, Section
  <2>2. KeyFor(company, file)' /\ Distinct(file)' /\ ToldIn(file)'
    BY <1>t, <1>14, <2>1, FreshKey DEF OfferKey
  <2>3. Fine("main")'
    BY <2>1, <2>2 DEF Fine
  <2> QED
    BY <1>p, <2>1, <2>2, <2>3, After DEF Section
<1>15. CASE OfferEnds
  <2>1. /\ pc["main"] = "offer" /\ offline
        /\ UNCHANGED <<file, key, company, hasRun, offline, made, told, torn>>
    BY <1>t, <1>15 DEF OfferEnds, MainInCharge
  <2>2. PICK l \in {"load", "joinRequest"} : Goto("main", l)
    BY <1>15 DEF OfferEnds
  <2>3. /\ pc'["main"] = l
        /\ \A u \in Threads : u # "main" => pc'[u] \notin Section
        /\ pc'["poll"] # "off" =>
             hasRun' \/ pc'["request"] \in {"load", "choose", "save", "saving", "ran"}
    BY <1>3, <1>p, <2>1, <2>2 DEF Labels, Section
  <2>4. Fine("main") /\ Distinct(file) /\ ToldIn(file)
    BY <1>2, <1>p, <2>1 DEF Section
  <2>5. Fine("main")'
    BY <2>1, <2>3, <2>4 DEF Fine, KeyFor, GoodKey
  <2>6. (Distinct(file) /\ ToldIn(file))'
    BY <2>1, <2>4 DEF Distinct, ToldIn
  <2> QED
    BY <1>p, <2>1, <2>3, <2>5, <2>6, After
<1>16. ASSUME ProcessEnds, Saving => torn', torn => torn' PROVE Calm'
  <2>1. \A u \in Threads : pc'[u] = "off"
    BY <1>16 DEF ProcessEnds
  <2>2. Distinct(file)
    <3>1. ASSUME NEW t \in Threads, pc[t] = "saving" PROVE file = NoEntries
      BY <3>1 DEF Calm, Fine
    <3>2. CASE Saving
      BY <1>t, <3>1, <3>2 DEF Saving, NoEntries, Distinct, TypeOK, None, Empty
    <3> QED
      BY <1>f, <3>2
  <2>3. (Distinct(file) /\ ToldIn(file))'
    BY <1>f, <1>16, <2>2 DEF ProcessEnds, Distinct, ToldIn
  <2>4. Fine("main")' /\ ~hasRun'
    BY <1>16, <1>p, <2>1 DEF Fine, ProcessEnds
  <2> QED
    BY <1>p, <2>1, <2>3, <2>4, After DEF Section
<1>17. CASE CoreEnds
  <2>1. ~Saving
    BY <1>t, <1>p, <1>17 DEF CoreEnds, MainInCharge, Saving
  <2> QED
    BY <1>16, <1>17, <2>1 DEF CoreEnds
<1>18. CASE Crash
  BY <1>16, <1>18 DEF Crash, Saving
<1>19. CASE UNCHANGED vars
  BY <1>o, <1>19, Outside DEF vars
<1> QED
  BY <1>5, <1>6, <1>7, <1>8, <1>9, <1>10, <1>11, <1>12, <1>13, <1>14, <1>15, <1>17, <1>18, <1>19
  DEF Next, Step

-----------------------------------------------------------------------------
LEMMA CalmInit == Init => MainInCharge /\ Calm
<1> SUFFICES ASSUME Init PROVE MainInCharge /\ Calm
  OBVIOUS
<1>1. \A t \in Threads : pc[t] = "off"
  BY DEF Init
<1>2. MainInCharge /\ ~Overlap
  BY <1>1 DEF MainInCharge, Overlap, Threads, Section
<1>3. \A t \in Threads : Fine(t)
  BY <1>1 DEF Fine
<1>4. Distinct(file) /\ ToldIn(file)
  BY DEF Init, Distinct, ToldIn, NoEntries, None, Empty
<1> QED
  BY <1>1, <1>2, <1>3, <1>4 DEF Init, Calm, Threads

(* The invariant behind the properties below.                              *)
THEOREM Inductive == Spec => []IInv
<1>1. Init => IInv
  BY TypeInit, CalmInit DEF IInv
<1>2. IInv /\ [Next]_vars => IInv'
  <2> SUFFICES ASSUME IInv, [Next]_vars PROVE IInv'
    OBVIOUS
  <2>1. TypeOK' /\ EntryFound' /\ MainInCharge'
    BY TypeStep, MainStep DEF IInv
  <2>2. (raced => raced') /\ (adopted => adopted')
    <3>1. CASE UNCHANGED vars
      BY <3>1 DEF vars
    <3>2. CASE Next
      <4>1. raced => raced'
        BY <3>2 DEF Next
      <4>2. adopted => adopted'
        BY <3>2 DEF Next, Step, Info, LoadConfigYaml, GiveUp, Ask, Learn, Check, Compare, Compared,
                    Reset, Blank, Forget, Signal, Load, Choose, SaveBegin, SaveEnd, Ran, Poll,
                    PollLeaves, PollEnds, OldSessionKey, VersionsAsked, TakeVersions, OpenCompany,
                    StartCore, GoOffline, GoOfflineEnds, OfferKey, OfferEnds, RequestLeaves,
                    CoreEnds, Crash, ProcessEnds
      <4> QED
        BY <4>1, <4>2
    <3> QED
      BY <3>1, <3>2
  <2>3. (raced' \/ adopted') \/ Calm'
    BY <2>1, <2>2, CalmStep DEF IInv
  <2> QED
    BY <2>1, <2>3 DEF IInv
<1> QED
  BY <1>1, <1>2, PTL DEF Spec

(* What is kept is the file, or what is being written to it.               *)
LEMMA CalmKeeps ==
    ASSUME Calm
    PROVE  \A c, d \in Ids :
             /\ torn \/ told[c] <= Kept(c)
             /\ Kept(c) # Empty
             /\ c # d /\ Kept(c) = Kept(d) => Kept(c) = None
<1>1. CASE Saving
  <2> DEFINE w == CHOOSE t \in Threads : At(t, "saving")
  <2>1. w \in Threads /\ pc[w] = "saving"
    BY <1>1 DEF Saving, At
  <2>2. Distinct(copy[w]) /\ ToldIn(copy[w])
    BY <2>1 DEF Calm, Fine
  <2>3. \A c : Kept(c) = copy[w][c]
    BY <1>1 DEF Kept, Saving, At
  <2> HIDE DEF w
  <2> QED
    BY <2>2, <2>3 DEF Distinct, ToldIn
<1>2. CASE ~Saving
  <2>1. \A c : Kept(c) = file[c]
    BY <1>2 DEF Kept, Saving, At
  <2> QED
    BY <1>2, <2>1 DEF Calm, Distinct, ToldIn
<1> QED
  BY <1>1, <1>2

(* For any set of companies and however often keys are renewed: the key    *)
(* the server was last polled with for a company is in config.ini, or a    *)
(* later one, but for the three exceptions the property names.             *)
THEOREM ToldKept == Spec => []ToldKeysAreKept
<1>1. IInv => ToldKeysAreKept
  BY CalmKeeps DEF IInv, ToldKeysAreKept
<1> QED
  BY <1>1, Inductive, PTL

(* No two companies come to share a key, and none gets the empty one, but  *)
(* for the two exceptions the property names.                              *)
THEOREM KeyOfOneCompany == Spec => []OneCompanyPerKey
<1>1. IInv => OneCompanyPerKey
  BY CalmKeeps DEF IInv, OneCompanyPerKey
<1> QED
  BY <1>1, Inductive, PTL
=============================================================================
