-------------------------- MODULE IndexCacheProofs --------------------------
(***************************************************************************)
(* For any number of requests, packages and failures: with either cache    *)
(* store requests share listings and regenerations, variables keep their   *)
(* types and a regenerated index is as fresh as what the worker skips      *)
(* allows; with the external store every index is, and none has two        *)
(* entries for a package.                                                  *)
(***************************************************************************)
EXTENDS IndexCache, FiniteSetTheorems, SequenceTheorems, TLAPS

\* Where a request can be.
Places == {"idle", "init", "initStore", "getList", "fetching", "fetched",
           "fetchFailed", "waitList", "compare", "regenerate", "working",
           "worked", "workFailed", "waitIndex"}

\* The places in which a request has a channel in FetchedObjectsChans.
ListPlaces == {"fetching", "fetched", "fetchFailed", "waitList"}

\* The places in which a request has a channel in RegeneratedIndexesChans.
IndexPlaces == {"working", "worked", "workFailed", "waitIndex"}

\* Something is put into f.
PutsObject(f) == \E chart \in BOOLEAN : PutObject(f, chart)

SharingInv ==
    /\ pc \in [Requests -> Places]
    /\ OneListing
    /\ OneRegeneration

----------------------------------------------------------------------------
\* A step of r that leaves both groups of places alone keeps the invariant.
LEMMA StepElsewhere ==
    ASSUME SharingInv, NEW r \in Requests,
           NEW from \in Places \ (ListPlaces \cup IndexPlaces),
           NEW to \in Places \ (ListPlaces \cup IndexPlaces),
           Goto(r, from, to), UNCHANGED chanVars
    PROVE  SharingInv'
  <1> USE DEF SharingInv, Places, ListPlaces, IndexPlaces
  <1>1. pc' \in [Requests -> Places]
    BY DEF Goto
  <1>2. /\ Fetchers' = Fetchers /\ Workers' = Workers
        /\ \A q \in Requests : /\ pc'[q] = "waitList" <=> pc[q] = "waitList"
                               /\ pc'[q] = "waitIndex" <=> pc[q] = "waitIndex"
    BY DEF Goto, Fetchers, Workers
  <1> QED BY <1>1, <1>2 DEF chanVars, OneListing, OneRegeneration

\* A step of the regenerating request within its work keeps the invariant.
LEMMA StepAtWork ==
    ASSUME SharingInv, NEW r \in Requests, pc[r] = "working",
           NEW to \in {"working", "worked", "workFailed"},
           pc' = [pc EXCEPT ![r] = to], UNCHANGED chanVars
    PROVE  SharingInv'
  <1> USE DEF SharingInv, Places
  <1>1. pc' \in [Requests -> Places]
    OBVIOUS
  <1>2. /\ Fetchers' = Fetchers /\ Workers' = Workers
        /\ \A q \in Requests : /\ pc'[q] = "waitList" <=> pc[q] = "waitList"
                               /\ pc'[q] = "waitIndex" <=> pc[q] = "waitIndex"
    BY DEF Fetchers, Workers
  <1> QED BY <1>1, <1>2 DEF chanVars, OneListing, OneRegeneration

\* Each step of a request keeps the invariant.
LEMMA SharingStep ==
    ASSUME SharingInv, [Next]_vars
    PROVE  SharingInv'
  <1> USE DEF SharingInv
  <1>1. ASSUME NEW f \in Files, PutsObject(f) \/ DeleteObject(f)
        PROVE  SharingInv'
    BY <1>1 DEF PutsObject, PutObject, DeleteObject, Change, requestVars, chanVars,
         OneListing, OneRegeneration, Fetchers, Workers
  <1>2. ASSUME NEW r \in Requests, GetIndexFile(r)
        PROVE  SharingInv'
    <2>1. Goto(r, "idle", "init") /\ UNCHANGED chanVars
      BY <1>2 DEF GetIndexFile
    <2> QED BY <2>1, StepElsewhere DEF Places, ListPlaces, IndexPlaces
  <1>3. ASSUME NEW r \in Requests, InitCacheEntry(r)
        PROVE  SharingInv'
    <2>1. /\ Goto(r, "init", "getList") \/ Goto(r, "init", "initStore")
          /\ UNCHANGED chanVars
      BY <1>3 DEF InitCacheEntry, InitInternal, InitExternal
    <2> QED BY <2>1, StepElsewhere DEF Places, ListPlaces, IndexPlaces
  <1>4. ASSUME NEW r \in Requests, NEW ok \in BOOLEAN, NEW saved \in BOOLEAN,
               InitStore(r, ok, saved)
        PROVE  SharingInv'
    <2>1. Goto(r, "initStore", "getList") /\ UNCHANGED chanVars
      BY <1>4 DEF InitStore
    <2> QED BY <2>1, StepElsewhere DEF Places, ListPlaces, IndexPlaces
  <1>5. ASSUME NEW r \in Requests, GetChartList(r)
        PROVE  SharingInv'
    <2>1. /\ pc[r] = "getList" /\ regenChans' = regenChans
          /\ fetchChans' = fetchChans \cup {r}
          /\ pc' = [pc EXCEPT ![r] = IF fetchChans = {} THEN "fetching"
                                     ELSE "waitList"]
      BY <1>5 DEF GetChartList, Goto
    <2>2. Workers' = Workers
          /\ \A q \in Requests : pc'[q] = "waitIndex" <=> pc[q] = "waitIndex"
      BY <2>1 DEF Workers, Places
    <2>3. CASE fetchChans = {}
      <3>1. Fetchers' = {r} /\ \A q \in Requests : pc'[q] # "waitList"
        BY <2>1, <2>3 DEF OneListing, Fetchers, Places
      <3> QED BY <2>1, <2>2, <2>3, <3>1 DEF OneListing, OneRegeneration, Places
    <2>4. CASE fetchChans # {}
      <3>1. Fetchers' = Fetchers
            /\ \A q \in Requests : pc'[q] = "waitList"
                                   <=> pc[q] = "waitList" \/ q = r
        BY <2>1, <2>4 DEF Fetchers, Places
      <3> QED BY <2>1, <2>2, <2>4, <3>1 DEF OneListing, OneRegeneration, Places
    <2> QED BY <2>3, <2>4
  <1>6. ASSUME NEW r \in Requests, NEW ok \in BOOLEAN,
               FetchChartsInStorage(r, ok)
        PROVE  SharingInv'
    <2>1. /\ pc[r] = "fetching" /\ UNCHANGED chanVars
          /\ pc' = [pc EXCEPT ![r] = IF ok THEN "fetched" ELSE "fetchFailed"]
      BY <1>6 DEF FetchChartsInStorage, Goto
    <2>2. /\ Fetchers' = Fetchers /\ Workers' = Workers
          /\ \A q \in Requests : /\ pc'[q] = "waitList" <=> pc[q] = "waitList"
                                 /\ pc'[q] = "waitIndex" <=> pc[q] = "waitIndex"
      BY <2>1 DEF Fetchers, Workers, Places
    <2> QED BY <2>1, <2>2 DEF chanVars, OneListing, OneRegeneration, Places
  <1>7. ASSUME NEW r \in Requests, FlushChartList(r)
        PROVE  SharingInv'
    <2>1. /\ fetchChans' = {} /\ regenChans' = regenChans
          /\ \E to \in {"idle", "compare"} :
                 pc' = [q \in Requests |-> IF q \in fetchChans THEN to ELSE pc[q]]
      BY <1>7 DEF FlushChartList, Answer
    <2>2. \A q \in fetchChans : pc[q] \in ListPlaces
      BY DEF OneListing, Fetchers, ListPlaces
    <2>3. /\ Workers' = Workers /\ Fetchers' = {}
          /\ \A q \in Requests : /\ pc'[q] # "waitList"
                                 /\ pc'[q] = "waitIndex" <=> pc[q] = "waitIndex"
      BY <2>1, <2>2 DEF OneListing, Fetchers, Workers, ListPlaces
    <2>4. pc' \in [Requests -> Places]
      BY <2>1 DEF Places
    <2> QED BY <2>1, <2>3, <2>4 DEF OneListing, OneRegeneration
  <1>8. ASSUME NEW r \in Requests, CompareWithStorage(r)
        PROVE  SharingInv'
    <2>1. /\ UNCHANGED chanVars
          /\ Goto(r, "compare", "idle") \/ Goto(r, "compare", "regenerate")
      <3>1. pc[r] = "compare" /\ UNCHANGED chanVars
        BY <1>8 DEF CompareWithStorage
      <3>2. \/ pc' = [q \in Requests |-> IF q \in {r} THEN "idle" ELSE pc[q]]
            \/ Goto(r, "compare", "regenerate")
        BY <1>8 DEF CompareWithStorage, Answer
      <3>3. [q \in Requests |-> IF q \in {r} THEN "idle" ELSE pc[q]]
                = [pc EXCEPT ![r] = "idle"]
        OBVIOUS
      <3> QED BY <3>1, <3>2, <3>3 DEF Goto
    <2> QED BY <2>1, StepElsewhere DEF Places, ListPlaces, IndexPlaces
  <1>9. ASSUME NEW r \in Requests, RegenerateRepositoryIndex(r)
        PROVE  SharingInv'
    <2>1. /\ pc[r] = "regenerate" /\ fetchChans' = fetchChans
          /\ regenChans' = regenChans \cup {r}
          /\ pc' = [pc EXCEPT ![r] = IF regenChans = {} THEN "working"
                                     ELSE "waitIndex"]
      BY <1>9 DEF RegenerateRepositoryIndex, Goto
    <2>2. Fetchers' = Fetchers
          /\ \A q \in Requests : pc'[q] = "waitList" <=> pc[q] = "waitList"
      BY <2>1 DEF Fetchers, Places
    <2>3. CASE regenChans = {}
      <3>1. Workers' = {r} /\ \A q \in Requests : pc'[q] # "waitIndex"
        BY <2>1, <2>3 DEF OneRegeneration, Workers, Places
      <3> QED BY <2>1, <2>2, <2>3, <3>1 DEF OneListing, OneRegeneration, Places
    <2>4. CASE regenChans # {}
      <3>1. Workers' = Workers
            /\ \A q \in Requests : pc'[q] = "waitIndex"
                                   <=> pc[q] = "waitIndex" \/ q = r
        BY <2>1, <2>4 DEF Workers, Places
      <3> QED BY <2>1, <2>2, <2>4, <3>1 DEF OneListing, OneRegeneration, Places
    <2> QED BY <2>3, <2>4
  <1>10. ASSUME NEW r \in Requests, NEW f \in Files, NEW ok \in BOOLEAN,
                \/ RemoveIndexObject(r, f) \/ UpdateIndexObject(r, f, ok)
                \/ AddIndexObject(r, f, ok)
         PROVE  SharingInv'
    <2>1. /\ pc[r] = "working" /\ UNCHANGED chanVars
          /\ \E to \in {"working", "worked", "workFailed"} :
                 pc' = [pc EXCEPT ![r] = to]
      BY <1>10 DEF RemoveIndexObject, UpdateIndexObject, AddIndexObject
    <2> QED BY <2>1, StepAtWork
  <1>11. ASSUME NEW r \in Requests, FlushIndex(r)
         PROVE  SharingInv'
    <2>1. /\ regenChans' = {} /\ fetchChans' = fetchChans
          /\ pc' = [q \in Requests |-> IF q \in regenChans THEN "idle" ELSE pc[q]]
      BY <1>11 DEF FlushIndex, Answer
    <2>2. \A q \in regenChans : pc[q] \in IndexPlaces
      BY DEF OneRegeneration, Workers, IndexPlaces
    <2>3. /\ Workers' = {} /\ Fetchers' = Fetchers
          /\ \A q \in Requests : /\ pc'[q] = "waitList" <=> pc[q] = "waitList"
                                 /\ pc'[q] # "waitIndex"
      BY <2>1, <2>2 DEF OneRegeneration, Fetchers, Workers, IndexPlaces
    <2>4. pc' \in [Requests -> Places]
      BY <2>1 DEF Places
    <2> QED BY <2>1, <2>3, <2>4 DEF OneListing, OneRegeneration
  <1>12. ASSUME NEW idx, NEW ok \in BOOLEAN, SaveStatefile(idx, ok)
         PROVE  SharingInv'
    BY <1>12 DEF SaveStatefile, requestVars, chanVars, OneListing,
         OneRegeneration, Fetchers, Workers
  <1>13. ASSUME NEW file, Restart(file)
         PROVE  SharingInv'
    BY <1>13 DEF Restart, OneListing, OneRegeneration, Fetchers, Workers, Places
  <1>14. CASE UNCHANGED vars
    BY <1>14 DEF vars, requestVars, chanVars, OneListing, OneRegeneration,
         Fetchers, Workers
  <1>15. ASSUME NEW r \in Requests, NEW ok \in BOOLEAN, SaveCacheEntry(r, ok)
         PROVE  SharingInv'
    <2>1. /\ pc[r] = "working" /\ UNCHANGED chanVars
          /\ pc' = [pc EXCEPT ![r] = "worked"]
      BY <1>15 DEF SaveCacheEntry, Goto
    <2> QED BY <2>1, StepAtWork
  <1> QED BY <1>1, <1>2, <1>3, <1>4, <1>5, <1>6, <1>7, <1>8, <1>9, <1>10,
             <1>11, <1>12, <1>13, <1>14, <1>15 DEF Next, PutsObject, RequestStep

\* The invariant holds.
THEOREM Sharing == Spec => []SharingInv
  <1>1. Init => SharingInv
    BY DEF Init, SharingInv, OneListing, OneRegeneration, Fetchers, Workers,
         Places
  <1>2. SharingInv /\ [Next]_vars => SharingInv'
    BY SharingStep
  <1> QED BY <1>1, <1>2, PTL DEF Spec

\* One request fetches the listing for all that wait for it, and none waits
\* for a listing that nobody fetches.
THEOREM ListingShared == Spec => []OneListing
  <1>1. SharingInv => OneListing
    BY DEF SharingInv
  <1> QED BY Sharing, <1>1, PTL

\* One request at a time changes the index that all share, and none waits for
\* a regeneration that nobody does.
THEOREM RegenerationShared == Spec => []OneRegeneration
  <1>1. SharingInv => OneRegeneration
    BY DEF SharingInv
  <1> QED BY Sharing, <1>1, PTL

----------------------------------------------------------------------------
\* The indexes that can come about: with the external store no package has two
\* entries.
SoundIndex ==
    {idx \in Index : ExternalCache => \A f \in Files : Len(idx[f]) <= 1}

SoundEntry == [index : SoundIndex, raw : SoundIndex]

\* The places in which a request has got an entry.
Holding == {"getList", "fetching", "fetched", "fetchFailed", "waitList", "compare",
            "regenerate", "working", "worked", "workFailed", "waitIndex"}

World ==
    /\ storage \in Listing /\ changedAt \in Listing
    /\ charts \subseteq Files \X (1..MaxTime)
    /\ clock \in 0..MaxTime /\ busySince \in 0..clock
    /\ \A f \in Files : changedAt[f] <= clock
    /\ failures \in 0..MaxFailures
    /\ restarts \in 0..MaxRestarts

Held ==
    /\ statefile \in SoundIndex \cup {NoIndex}
    /\ savers \subseteq SoundIndex
    /\ cache \in SoundEntry \cup {NoEntry}
    /\ mine \in [Requests -> SoundEntry \cup {NoEntry}]
    /\ \A r \in Requests : pc[r] \in Holding => EntryOf(r) \in SoundEntry
    /\ \A r \in Requests : pc[r] = "initStore" => ExternalCache

DiffType == [removed : [Files -> Nat], updated : [Files -> Nat], added : SUBSET Files]

ResponseType == [from : {"none", "error", "cache", "regeneration"},
                 raw : SoundIndex, since : 0..clock]

RequestTypes ==
    /\ keyLock \subseteq Requests
    /\ listed \in [Requests -> Listing]
    /\ diff \in [Requests -> DiffType]
    /\ response \in [Requests -> ResponseType]

\* What has to be added is not in the index (external store).
NewAdded ==
    ExternalCache =>
        \A r \in Requests : pc[r] \in {"regenerate", "working"} =>
            \A f \in diff[r].added : mine[r].index[f] = <<>>

TypesInv == World /\ Held /\ RequestTypes /\ NewAdded

\* Package f has not changed since the server became busy.
Steady(f) == changedAt[f] <= busySince

\* A listing is right about steady packages.
ListedRight ==
    \A r \in Requests : pc[r] \in {"fetched", "compare"} =>
        \A f \in Files : Steady(f) => listed[r][f] = storage[f]

\* What is left of diff d makes the entries s of f right, if f has time t in
\* storage and C are the charts that were put there, or f is skipped.
Prepared(t, C, s, d, f) ==
    IF t = 0
    THEN /\ f \in Misnamed \/ Len(s) <= d.removed[f]
         /\ d.updated[f] = 0 /\ f \notin d.added
    ELSE /\ d.removed[f] = 0
         /\ \/ s # <<>> /\ (Head(s) = t \/ d.updated[f] # 0)
            \/ f \in d.added /\ (s = <<>> \/ Head(s) = t)
            \/ <<f, t>> \notin C

DiffRight ==
    \A r \in Requests : pc[r] \in {"regenerate", "working"} =>
        \A f \in Files :
            Steady(f) => Prepared(storage[f], charts, EntryOf(r).index[f], diff[r], f)

WorkedRight ==
    \A r \in Requests : pc[r] = "worked" =>
        \A f \in Files : Steady(f) /\ ~Skipped(f) => Shows(EntryOf(r).raw, f)

\* The places of a request that has an entry and does not regenerate yet.
Early == {"getList", "fetching", "fetched", "fetchFailed", "waitList", "compare"}

\* With the external store, an entry that is not being worked on is rendered.
Rendered ==
    ExternalCache =>
        /\ cache # NoEntry => cache.raw = cache.index
        /\ \A r \in Requests : pc[r] \in Early => mine[r].raw = mine[r].index

\* The entries of index idx are charts of C.
Shown(idx, C) == \A f \in Files : \A i \in 1..Len(idx[f]) : <<f, idx[f][i]>> \in C

ShownEntry(e, C) == Shown(e.index, C) /\ Shown(e.raw, C)

\* Every entry of every index was put into storage as a chart.
AllCharts ==
    /\ statefile # NoIndex => Shown(statefile, charts)
    /\ \A idx \in savers : Shown(idx, charts)
    /\ cache # NoEntry => ShownEntry(cache, charts)
    /\ \A r \in Requests : mine[r] # NoEntry => ShownEntry(mine[r], charts)
    /\ \A r \in Requests : Shown(response[r].raw, charts)

----------------------------------------------------------------------------
\* Indexes and entries.

LEMMA EmptySound == EmptyIndex \in SoundIndex
<1>1. EmptyIndex \in Index /\ \A f \in Files : EmptyIndex[f] = <<>> /\ Len(EmptyIndex[f]) <= 1
  BY DEF EmptyIndex, Index
<1> QED BY <1>1, ConstantsAssumption DEF SoundIndex

\* New entries for package f.
LEMMA SetSound ==
    ASSUME NEW idx \in SoundIndex, NEW f \in Files, NEW s \in Seq(1..MaxTime),
           ExternalCache => Len(s) <= 1
    PROVE  [idx EXCEPT ![f] = s] \in SoundIndex
<1>1. [idx EXCEPT ![f] = s] \in Index
  BY DEF SoundIndex, Index
<1>2. \A g \in Files : [idx EXCEPT ![f] = s][g] = IF g = f THEN s ELSE idx[g]
  BY DEF SoundIndex, Index
<1> QED BY <1>1, <1>2, ConstantsAssumption DEF SoundIndex

LEMMA SoundEntries ==
    ASSUME NEW idx \in SoundIndex, NEW f \in Files
    PROVE  /\ idx[f] \in Seq(1..MaxTime) /\ Len(idx[f]) \in Nat
           /\ ExternalCache => Len(idx[f]) <= 1
<1>1. idx[f] \in Seq(1..MaxTime)
  BY DEF SoundIndex, Index
<1> QED BY <1>1 DEF SoundIndex

LEMMA RemoveSound ==
    ASSUME NEW idx \in SoundIndex, NEW f \in Files
    PROVE  /\ [idx EXCEPT ![f] = RemoveEntry(@)] \in SoundIndex
           /\ Len(RemoveEntry(idx[f])) = IF idx[f] = <<>> THEN 0 ELSE Len(idx[f]) - 1
<1> DEFINE s == RemoveEntry(idx[f])
<1>1. idx[f] \in Seq(1..MaxTime) /\ Len(idx[f]) \in Nat
  BY SoundEntries
<1>2. /\ s \in Seq(1..MaxTime)
      /\ Len(s) = IF idx[f] = <<>> THEN 0 ELSE Len(idx[f]) - 1
      /\ idx[f] = <<>> => s = <<>>
  <2>1. CASE idx[f] = <<>>
    BY <1>1, <2>1 DEF RemoveEntry
  <2>2. CASE idx[f] # <<>>
    BY <1>1, <2>2, HeadTailProperties DEF RemoveEntry
  <2> QED BY <2>1, <2>2
<1>3. Len(s) <= Len(idx[f])
  BY <1>1, <1>2
<1>4. ExternalCache => Len(s) <= 1
  BY <1>1, <1>2, <1>3, SoundEntries
<1> HIDE DEF s
<1>5. [idx EXCEPT ![f] = s] \in SoundIndex
  BY <1>2, <1>4, SetSound
<1> QED BY <1>2, <1>5 DEF s

LEMMA UpdateSound ==
    ASSUME NEW idx \in SoundIndex, NEW f \in Files, NEW t \in 1..MaxTime
    PROVE  /\ [idx EXCEPT ![f] = UpdateEntry(@, t)] \in SoundIndex
           /\ idx[f] = <<>> => UpdateEntry(idx[f], t) = <<>>
           /\ idx[f] # <<>> => UpdateEntry(idx[f], t) # <<>> /\ Head(UpdateEntry(idx[f], t)) = t
<1> DEFINE s == UpdateEntry(idx[f], t)
<1>1. idx[f] \in Seq(1..MaxTime) /\ Len(idx[f]) \in Nat
  BY SoundEntries
<1>2. CASE idx[f] = <<>>
  <2>1. s = idx[f]
    BY <1>2 DEF UpdateEntry
  <2>2. [idx EXCEPT ![f] = s] = idx
    BY <2>1 DEF SoundIndex, Index
  <2> QED BY <1>2, <2>1, <2>2
<1>3. CASE idx[f] # <<>>
  <2>1. s = [idx[f] EXCEPT ![1] = t]
    BY <1>3 DEF UpdateEntry
  <2>2. Len(idx[f]) > 0
    BY <1>1, <1>3
  <2>3. s \in Seq(1..MaxTime) /\ Len(s) = Len(idx[f]) /\ s[1] = t
    BY <1>1, <2>1, <2>2
  <2>4. s # <<>> /\ Head(s) = t
    BY <1>1, <2>2, <2>3
  <2>5. ExternalCache => Len(s) <= 1
    BY <2>3, SoundEntries
  <2> HIDE DEF s
  <2>6. [idx EXCEPT ![f] = s] \in SoundIndex
    BY <2>3, <2>5, SetSound
  <2> QED BY <1>3, <2>4, <2>6 DEF s
<1> QED BY <1>2, <1>3

LEMMA AddSound ==
    ASSUME NEW idx \in SoundIndex, NEW f \in Files, NEW t \in 1..MaxTime, NEW C,
           ExternalCache => idx[f] = <<>>
    PROVE  /\ [idx EXCEPT ![f] = AddEntry(@, t)] \in SoundIndex
           /\ AddEntry(idx[f], t) # <<>>
           /\ Head(AddEntry(idx[f], t)) = IF idx[f] = <<>> THEN t ELSE Head(idx[f])
<1> DEFINE s == AddEntry(idx[f], t)
<1>1. idx[f] \in Seq(1..MaxTime) /\ Len(idx[f]) \in Nat
  BY SoundEntries
<1>2. /\ s \in Seq(1..MaxTime) /\ Len(s) = Len(idx[f]) + 1 /\ s # <<>>
      /\ Head(s) = IF idx[f] = <<>> THEN t ELSE Head(idx[f])
  <2>1. s = Append(idx[f], t)
    BY DEF AddEntry
  <2>2. /\ s \in Seq(1..MaxTime) /\ Len(s) = Len(idx[f]) + 1
        /\ \A i \in 1..Len(idx[f]) : s[i] = idx[f][i]
        /\ s[Len(idx[f]) + 1] = t
    BY <1>1, <2>1, AppendProperties
  <2> HIDE DEF s
  <2>3. s # <<>> /\ Head(s) = s[1]
    BY <1>1, <2>2
  <2>4. CASE idx[f] = <<>>
    BY <2>2, <2>3, <2>4
  <2>5. CASE idx[f] # <<>>
    <3>1. 1 \in 1..Len(idx[f]) /\ Head(idx[f]) = idx[f][1]
      BY <1>1, <2>5
    <3> QED BY <2>2, <2>3, <2>5, <3>1
  <2> QED BY <2>2, <2>3, <2>4, <2>5
<1>3. ExternalCache => Len(s) <= 1
  BY <1>1, <1>2
<1> HIDE DEF s
<1>4. [idx EXCEPT ![f] = s] \in SoundIndex
  BY <1>2, <1>3, SetSound
<1> QED BY <1>2, <1>4 DEF s

\* An entry with another index, and a rendered one.
LEMMA EntryChanges ==
    ASSUME NEW e \in SoundEntry, NEW i \in SoundIndex
    PROVE  /\ e.index \in SoundIndex /\ e.raw \in SoundIndex
           /\ [e EXCEPT !.index = i] \in SoundEntry
           /\ [e EXCEPT !.index = i].index = i /\ [e EXCEPT !.index = i].raw = e.raw
           /\ Regenerate(e) \in SoundEntry
           /\ Regenerate(e).raw = e.index /\ Regenerate(e).index = e.index
BY DEF SoundEntry, Regenerate

LEMMA NewSound ==
    ASSUME Held, NEW ok \in BOOLEAN
    PROVE  NewEntry(ok) \in SoundEntry /\ NewEntry(ok).raw = NewEntry(ok).index
<1> DEFINE idx == IF UseStatefiles /\ ok /\ statefile # NoIndex THEN statefile
                  ELSE EmptyIndex
<1>1. idx \in SoundIndex
  BY EmptySound DEF Held
<1>2. NewEntry(ok) = [index |-> idx, raw |-> idx]
  BY DEF NewEntry
<1> HIDE DEF idx
<1> QED BY <1>1, <1>2 DEF SoundEntry

LEMMA TornSound ==
    ASSUME Held
    PROVE  TornStatefiles \subseteq SoundIndex \cup {NoIndex}
<1>1. ASSUME NEW idx \in savers, NEW S \in SUBSET Files
      PROVE  [f \in Files |-> IF f \in S THEN idx[f] ELSE <<>>] \in SoundIndex
  <2> DEFINE cut == [f \in Files |-> IF f \in S THEN idx[f] ELSE <<>>]
  <2>1. idx \in SoundIndex
    BY DEF Held
  <2>2. \A f \in Files : /\ cut[f] \in Seq(1..MaxTime)
                         /\ ExternalCache => Len(cut[f]) <= 1
    <3>1. \A f \in Files : cut[f] = idx[f] \/ cut[f] = EmptyIndex[f]
      BY DEF EmptyIndex
    <3> HIDE DEF cut
    <3> QED BY <2>1, <3>1, EmptySound, SoundEntries
  <2>3. cut \in Index
    BY <2>2 DEF Index
  <2> QED BY <2>2, <2>3 DEF SoundIndex
<1> QED BY <1>1 DEF TornStatefiles

LEMMA NoEntryNotSound == NoEntry \notin SoundEntry
BY NoEntryAssumption DEF SoundEntry, SoundIndex, Entry

----------------------------------------------------------------------------
LEMMA FailuresCounted ==
    ASSUME World, NEW ok \in BOOLEAN, CallEnds(ok)
    PROVE  failures' \in 0..MaxFailures
BY ConstantsAssumption DEF World, CallEnds

LEMMA WorldStep ==
    ASSUME World, [Next]_vars
    PROVE  World'
<1> USE ConstantsAssumption
<1>1. ASSUME NEW f \in Files, PutsObject(f) \/ DeleteObject(f)
      PROVE  World'
  <2>1. PICK time \in 0..MaxTime, put \in SUBSET (Files \X (1..MaxTime)) :
            Change(f, time, put)
    BY <1>1 DEF PutsObject, PutObject, DeleteObject, Change, World
  <2>2. /\ clock < MaxTime /\ clock' = clock + 1 /\ charts' = charts \cup put
        /\ storage' = [storage EXCEPT ![f] = time]
        /\ changedAt' = [changedAt EXCEPT ![f] = clock + 1]
        /\ UNCHANGED <<failures, restarts, busySince>>
    BY <2>1 DEF Change, countVars
  <2>3. clock' \in 0..MaxTime /\ busySince' \in 0..clock'
    BY <2>2 DEF World
  <2>4. storage' \in Listing /\ changedAt' \in Listing
    BY <2>2 DEF World, Listing
  <2>5. \A g \in Files : changedAt'[g] <= clock'
    BY <2>2 DEF World, Listing
  <2> QED BY <2>2, <2>3, <2>4, <2>5 DEF World
<1>2. ASSUME NEW r \in Requests, GetIndexFile(r) PROVE World'
  <2>1. /\ UNCHANGED <<storage, charts, clock, changedAt, failures, restarts>>
        /\ busySince' \in {clock, busySince}
    BY <1>2 DEF GetIndexFile, worldVars, countVars
  <2> QED BY <2>1 DEF World
<1>3. ASSUME UNCHANGED <<storage, charts, clock, changedAt, busySince>>,
             failures' \in 0..MaxFailures, restarts' \in 0..MaxRestarts
      PROVE  World'
  BY <1>3 DEF World
<1>4. failures \in 0..MaxFailures /\ restarts \in 0..MaxRestarts
  BY DEF World
<1>5. ASSUME NEW r \in Requests, InitCacheEntry(r) PROVE World'
  <2>1. PICK ok \in BOOLEAN : InitInternal(r, ok) \/ InitExternal(r, ok)
    BY <1>5 DEF InitCacheEntry
  <2>2. /\ UNCHANGED <<storage, charts, clock, changedAt, busySince, restarts>>
        /\ CallEnds(ok) \/ failures' = failures
    BY <2>1 DEF InitInternal, InitExternal, worldVars
  <2> QED BY <1>3, <1>4, <2>2, FailuresCounted
<1>6. ASSUME NEW r \in Requests, RequestStep(r) PROVE World'
  <2>1. UNCHANGED <<storage, charts, clock, changedAt, busySince, restarts>>
    BY <1>6 DEF RequestStep, InitStore, GetChartList, FetchChartsInStorage, FlushChartList,
        CompareWithStorage, RegenerateRepositoryIndex, RemoveIndexObject,
        UpdateIndexObject, AddIndexObject, SaveCacheEntry, FlushIndex, worldVars, countVars
  <2>2. failures' = failures \/ \E ok \in BOOLEAN : CallEnds(ok)
    BY <1>6 DEF RequestStep, InitStore, GetChartList, FetchChartsInStorage, FlushChartList,
        CompareWithStorage, RegenerateRepositoryIndex, RemoveIndexObject,
        UpdateIndexObject, AddIndexObject, SaveCacheEntry, FlushIndex, countVars
  <2> QED BY <1>3, <1>4, <2>1, <2>2, FailuresCounted
<1>7. ASSUME NEW idx, NEW ok \in BOOLEAN, SaveStatefile(idx, ok) PROVE World'
  BY <1>3, <1>4, <1>7, FailuresCounted DEF SaveStatefile
<1>8. ASSUME NEW file, Restart(file) PROVE World'
  <2>1. restarts' \in 0..MaxRestarts
    BY <1>4, <1>8 DEF Restart
  <2> QED BY <1>3, <1>4, <1>8, <2>1 DEF Restart
<1>9. CASE UNCHANGED vars
  BY <1>3, <1>4, <1>9 DEF vars, worldVars, countVars
<1> QED BY <1>1, <1>2, <1>5, <1>6, <1>7, <1>8, <1>9 DEF Next, PutsObject

----------------------------------------------------------------------------
\* The diff of r with one removal, one update or one addition less.
LEMMA RemovedLess ==
    ASSUME NEW D \in [Requests -> DiffType], NEW r \in Requests, NEW f \in Files,
           D[r].removed[f] # 0
    PROVE  \E d \in DiffType :
               /\ [D EXCEPT ![r].removed[f] = @ - 1] = [D EXCEPT ![r] = d]
               /\ d.updated = D[r].updated /\ d.added = D[r].added
               /\ d.removed[f] = D[r].removed[f] - 1
               /\ \A g \in Files : g # f => d.removed[g] = D[r].removed[g]
<1> DEFINE m == [D[r].removed EXCEPT ![f] = @ - 1]
           d == [removed |-> m, updated |-> D[r].updated, added |-> D[r].added]
<1>1. /\ D[r] \in DiffType /\ D[r].removed \in [Files -> Nat]
      /\ D[r].updated \in [Files -> Nat] /\ D[r].added \in SUBSET Files
  BY DEF DiffType
<1>2. /\ m \in [Files -> Nat] /\ m[f] = D[r].removed[f] - 1
      /\ \A g \in Files : g # f => m[g] = D[r].removed[g]
  BY <1>1
<1>3. [D EXCEPT ![r].removed[f] = @ - 1] = [D EXCEPT ![r] = [D[r] EXCEPT !.removed = m]]
  OBVIOUS
<1> HIDE DEF m
<1>4. [D[r] EXCEPT !.removed = m] = d
  BY <1>1 DEF DiffType
<1>5. d \in DiffType
  BY <1>1, <1>2 DEF DiffType
<1> QED BY <1>2, <1>3, <1>4, <1>5

LEMMA UpdatedLess ==
    ASSUME NEW D \in [Requests -> DiffType], NEW r \in Requests, NEW f \in Files,
           D[r].updated[f] # 0
    PROVE  \E d \in DiffType :
               /\ [D EXCEPT ![r].updated[f] = @ - 1] = [D EXCEPT ![r] = d]
               /\ d.removed = D[r].removed /\ d.added = D[r].added
               /\ d.updated[f] = D[r].updated[f] - 1
               /\ \A g \in Files : g # f => d.updated[g] = D[r].updated[g]
<1> DEFINE m == [D[r].updated EXCEPT ![f] = @ - 1]
           d == [removed |-> D[r].removed, updated |-> m, added |-> D[r].added]
<1>1. /\ D[r] \in DiffType /\ D[r].removed \in [Files -> Nat]
      /\ D[r].updated \in [Files -> Nat] /\ D[r].added \in SUBSET Files
  BY DEF DiffType
<1>2. /\ m \in [Files -> Nat] /\ m[f] = D[r].updated[f] - 1
      /\ \A g \in Files : g # f => m[g] = D[r].updated[g]
  BY <1>1
<1>3. [D EXCEPT ![r].updated[f] = @ - 1] = [D EXCEPT ![r] = [D[r] EXCEPT !.updated = m]]
  OBVIOUS
<1> HIDE DEF m
<1>4. [D[r] EXCEPT !.updated = m] = d
  BY <1>1 DEF DiffType
<1>5. d \in DiffType
  BY <1>1, <1>2 DEF DiffType
<1> QED BY <1>2, <1>3, <1>4, <1>5

LEMMA AddedLess ==
    ASSUME NEW D \in [Requests -> DiffType], NEW r \in Requests, NEW f
    PROVE  \E d \in DiffType :
               /\ [D EXCEPT ![r].added = @ \ {f}] = [D EXCEPT ![r] = d]
               /\ d.removed = D[r].removed /\ d.updated = D[r].updated
               /\ d.added = D[r].added \ {f}
<1> DEFINE m == D[r].added \ {f}
           d == [removed |-> D[r].removed, updated |-> D[r].updated, added |-> m]
<1>1. /\ D[r] \in DiffType /\ D[r].removed \in [Files -> Nat]
      /\ D[r].updated \in [Files -> Nat] /\ D[r].added \in SUBSET Files
      /\ m \in SUBSET Files
  BY DEF DiffType
<1>2. [D EXCEPT ![r].added = @ \ {f}] = [D EXCEPT ![r] = [D[r] EXCEPT !.added = m]]
  OBVIOUS
<1>3. m = D[r].added \ {f}
  OBVIOUS
<1> HIDE DEF m
<1>4. [D[r] EXCEPT !.added = m] = d
  BY <1>1 DEF DiffType
<1>5. d \in DiffType
  BY <1>1 DEF DiffType
<1> QED BY <1>2, <1>3, <1>4, <1>5

LEMMA EntryNested ==
    ASSUME NEW e \in SoundEntry, NEW f \in Files, NEW s
    PROVE  [e EXCEPT !.index[f] = s] = [e EXCEPT !.index = [e.index EXCEPT ![f] = s]]
BY DEF SoundEntry

----------------------------------------------------------------------------
\* The worker r has put the entries s for f in place of the old ones, and d is
\* what is left of its diff.
Works(r, f, s, d) ==
    /\ [EntryOf(r).index EXCEPT ![f] = s] \in SoundIndex
    /\ SetEntry(r, [EntryOf(r) EXCEPT !.index = [EntryOf(r).index EXCEPT ![f] = s]])
    /\ diff' = [diff EXCEPT ![r] = d]

LEMMA WorkFrame ==
    ASSUME SharingInv, TypesInv,
           NEW r \in Requests, NEW f \in Files, NEW ok \in BOOLEAN,
           \/ RemoveIndexObject(r, f) \/ UpdateIndexObject(r, f, ok)
           \/ AddIndexObject(r, f, ok)
    PROVE  /\ pc[r] = "working" /\ EntryOf(r) \in SoundEntry
           /\ EntryOf(r).index \in SoundIndex
           /\ diff \in [Requests -> DiffType] /\ diff[r] \in DiffType
           /\ mine \in [Requests -> SoundEntry \cup {NoEntry}]
           /\ storage[f] \in 0..MaxTime
           /\ pc' = pc \/ pc' = [pc EXCEPT ![r] = "workFailed"]
           /\ UNCHANGED <<storage, charts, changedAt, busySince, clock, statefile,
                          savers, keyLock, listed, response>>
<1>1. pc[r] = "working"
  BY DEF RemoveIndexObject, UpdateIndexObject, AddIndexObject
<1>2. UNCHANGED <<storage, charts, changedAt, busySince, clock, statefile, savers,
                  keyLock, listed, response>>
  BY DEF RemoveIndexObject, UpdateIndexObject, AddIndexObject, worldVars
<1>3. EntryOf(r) \in SoundEntry
  BY <1>1 DEF TypesInv, Held, Holding
<1>4. EntryOf(r).index \in SoundIndex
  BY <1>3 DEF SoundEntry
<1>5. /\ diff \in [Requests -> DiffType] /\ diff[r] \in DiffType
      /\ mine \in [Requests -> SoundEntry \cup {NoEntry}]
      /\ storage[f] \in 0..MaxTime
  BY DEF TypesInv, RequestTypes, World, Held, Listing, DiffType
<1>6. pc' = pc \/ pc' = [pc EXCEPT ![r] = "workFailed"]
  <2>1. PICK p \in {pc[r], "workFailed"} : pc' = [pc EXCEPT ![r] = p]
    <3>1. pc = [pc EXCEPT ![r] = pc[r]]
      BY DEF SharingInv
    <3>2. CASE RemoveIndexObject(r, f)
      BY <3>1, <3>2 DEF RemoveIndexObject
    <3>3. CASE UpdateIndexObject(r, f, ok)
      BY <3>3 DEF UpdateIndexObject
    <3>4. CASE AddIndexObject(r, f, ok)
      BY <3>4 DEF AddIndexObject
    <3> QED BY <3>2, <3>3, <3>4
  <2> QED BY <2>1 DEF SharingInv
<1> QED BY <1>1, <1>2, <1>3, <1>4, <1>5, <1>6

\* The entries s of f once removeIndexObject has been called.
LeftOf(f, s) == IF f \in Misnamed THEN s ELSE RemoveEntry(s)

LEMMA RemoveWorks ==
    ASSUME SharingInv, TypesInv, NEW r \in Requests, NEW f \in Files,
           RemoveIndexObject(r, f)
    PROVE  \E d \in DiffType :
               /\ pc' = pc
               /\ Works(r, f, LeftOf(f, EntryOf(r).index[f]), d)
               /\ d.updated = diff[r].updated /\ d.added = diff[r].added
               /\ d.removed[f] = diff[r].removed[f] - 1
               /\ \A g \in Files : g # f => d.removed[g] = diff[r].removed[g]
<1> DEFINE e == EntryOf(r)
<1>1. /\ e \in SoundEntry /\ e.index \in SoundIndex /\ diff \in [Requests -> DiffType]
  BY WorkFrame
<1>2. /\ pc' = pc /\ diff[r].removed[f] # 0
      /\ diff' = [diff EXCEPT ![r].removed[f] = @ - 1]
      /\ SetEntry(r, IF f \in Misnamed THEN e
                     ELSE [e EXCEPT !.index[f] = RemoveEntry(@)])
  BY DEF RemoveIndexObject
<1>3. (IF f \in Misnamed THEN e ELSE [e EXCEPT !.index[f] = RemoveEntry(@)])
          = [e EXCEPT !.index = [e.index EXCEPT ![f] = LeftOf(f, e.index[f])]]
  <2>1. CASE f \in Misnamed
    <3>1. [e.index EXCEPT ![f] = e.index[f]] = e.index
      BY <1>1 DEF SoundIndex, Index
    <3>2. [e EXCEPT !.index = e.index] = e
      BY <1>1 DEF SoundEntry
    <3> QED BY <2>1, <3>1, <3>2 DEF LeftOf
  <2>2. CASE f \notin Misnamed
    BY <1>1, <2>2, EntryNested DEF LeftOf
  <2> QED BY <2>1, <2>2
<1>4. [e.index EXCEPT ![f] = LeftOf(f, e.index[f])] \in SoundIndex
  <2>1. CASE f \in Misnamed
    BY <1>1, <2>1 DEF LeftOf, SoundIndex, Index
  <2>2. CASE f \notin Misnamed
    BY <1>1, <2>2, RemoveSound DEF LeftOf
  <2> QED BY <2>1, <2>2
<1>5. PICK d \in DiffType :
          /\ [diff EXCEPT ![r].removed[f] = @ - 1] = [diff EXCEPT ![r] = d]
          /\ d.updated = diff[r].updated /\ d.added = diff[r].added
          /\ d.removed[f] = diff[r].removed[f] - 1
          /\ \A g \in Files : g # f => d.removed[g] = diff[r].removed[g]
  BY <1>1, <1>2, RemovedLess, ZenonT(60)
<1>6. Works(r, f, LeftOf(f, e.index[f]), d)
  BY <1>2, <1>3, <1>4, <1>5 DEF Works
<1> QED BY <1>2, <1>5, <1>6

LEMMA UpdateWorks ==
    ASSUME SharingInv, TypesInv, NEW r \in Requests, NEW f \in Files, NEW ok \in BOOLEAN,
           UpdateIndexObject(r, f, ok)
    PROVE  \E d \in DiffType :
               /\ \/ /\ pc' = pc /\ storage[f] \in 1..MaxTime /\ IsChart(f)
                     /\ Works(r, f, UpdateEntry(EntryOf(r).index[f], storage[f]), d)
                  \/ /\ pc'[r] = "workFailed" \/ ~IsChart(f)
                     /\ diff' = [diff EXCEPT ![r] = d] /\ UNCHANGED <<cache, mine>>
               /\ d.removed = diff[r].removed /\ d.added = diff[r].added
               /\ d.updated[f] = diff[r].updated[f] - 1
               /\ \A g \in Files : g # f => d.updated[g] = diff[r].updated[g]
<1> DEFINE e == EntryOf(r)
<1>1. /\ e \in SoundEntry /\ e.index \in SoundIndex /\ diff \in [Requests -> DiffType]
      /\ storage[f] \in 0..MaxTime
      /\ pc' = pc \/ pc' = [pc EXCEPT ![r] = "workFailed"]
  BY WorkFrame
<1>2. /\ diff[r].updated[f] # 0
      /\ diff' = [diff EXCEPT ![r].updated[f] = @ - 1]
  BY DEF UpdateIndexObject
<1>3. PICK d \in DiffType :
          /\ [diff EXCEPT ![r].updated[f] = @ - 1] = [diff EXCEPT ![r] = d]
          /\ d.removed = diff[r].removed /\ d.added = diff[r].added
          /\ d.updated[f] = diff[r].updated[f] - 1
          /\ \A g \in Files : g # f => d.updated[g] = diff[r].updated[g]
  BY <1>1, <1>2, UpdatedLess, ZenonT(60)
<1>4. CASE ok /\ storage[f] # 0 /\ IsChart(f)
  <2>1. pc' = pc /\ storage[f] \in 1..MaxTime
    BY <1>1, <1>4, ConstantsAssumption DEF UpdateIndexObject, SharingInv
  <2>2. SetEntry(r, [e EXCEPT !.index[f] = UpdateEntry(@, storage[f])])
    BY <1>4 DEF UpdateIndexObject
  <2>3. [e EXCEPT !.index[f] = UpdateEntry(@, storage[f])]
            = [e EXCEPT !.index = [e.index EXCEPT ![f] = UpdateEntry(e.index[f], storage[f])]]
    BY <1>1, EntryNested
  <2>4. [e.index EXCEPT ![f] = UpdateEntry(e.index[f], storage[f])] \in SoundIndex
    BY <1>1, <1>4, <2>1, UpdateSound
  <2>5. Works(r, f, UpdateEntry(e.index[f], storage[f]), d)
    BY <1>2, <1>3, <2>2, <2>3, <2>4 DEF Works
  <2> QED BY <1>3, <1>4, <2>1, <2>5
<1>5. CASE ~(ok /\ storage[f] # 0 /\ IsChart(f))
  <2>1. UNCHANGED <<cache, mine>>
    BY <1>5 DEF UpdateIndexObject
  <2>2. pc'[r] = "workFailed" \/ ~IsChart(f)
    BY <1>5 DEF UpdateIndexObject, SharingInv
  <2> QED BY <1>2, <1>3, <2>1, <2>2
<1> QED BY <1>4, <1>5

LEMMA AddWorks ==
    ASSUME SharingInv, TypesInv, NEW r \in Requests, NEW f \in Files, NEW ok \in BOOLEAN,
           AddIndexObject(r, f, ok)
    PROVE  \E d \in DiffType :
               /\ \/ /\ pc' = pc /\ storage[f] \in 1..MaxTime /\ IsChart(f)
                     /\ ExternalCache => EntryOf(r).index[f] = <<>>
                     /\ Works(r, f, AddEntry(EntryOf(r).index[f], storage[f]), d)
                  \/ /\ pc'[r] = "workFailed" \/ ~IsChart(f)
                     /\ diff' = [diff EXCEPT ![r] = d] /\ UNCHANGED <<cache, mine>>
               /\ d.removed = diff[r].removed /\ d.updated = diff[r].updated
               /\ d.added = diff[r].added \ {f} /\ f \in diff[r].added
<1> DEFINE e == EntryOf(r)
<1>1. /\ e \in SoundEntry /\ e.index \in SoundIndex /\ diff \in [Requests -> DiffType]
      /\ storage[f] \in 0..MaxTime
      /\ pc' = pc \/ pc' = [pc EXCEPT ![r] = "workFailed"]
      /\ pc[r] = "working"
  BY WorkFrame
<1>2. /\ f \in diff[r].added
      /\ diff' = [diff EXCEPT ![r].added = @ \ {f}]
  BY DEF AddIndexObject
<1>3. PICK d \in DiffType :
          /\ [diff EXCEPT ![r].added = @ \ {f}] = [diff EXCEPT ![r] = d]
          /\ d.removed = diff[r].removed /\ d.updated = diff[r].updated
          /\ d.added = diff[r].added \ {f}
  BY <1>1, <1>2, AddedLess, ZenonT(60)
<1>4. CASE ok /\ storage[f] # 0 /\ IsChart(f)
  <2>1. pc' = pc /\ storage[f] \in 1..MaxTime
    BY <1>1, <1>4, ConstantsAssumption DEF AddIndexObject, SharingInv
  <2>2. SetEntry(r, [e EXCEPT !.index[f] = AddEntry(@, storage[f])])
    BY <1>4 DEF AddIndexObject
  <2>3. [e EXCEPT !.index[f] = AddEntry(@, storage[f])]
            = [e EXCEPT !.index = [e.index EXCEPT ![f] = AddEntry(e.index[f], storage[f])]]
    BY <1>1, EntryNested
  <2>4. ExternalCache => e.index[f] = <<>>
    BY <1>1, <1>2 DEF TypesInv, NewAdded, EntryOf
  <2>5. [e.index EXCEPT ![f] = AddEntry(e.index[f], storage[f])] \in SoundIndex
    BY <1>1, <1>4, <2>1, <2>4, AddSound
  <2>6. Works(r, f, AddEntry(e.index[f], storage[f]), d)
    BY <1>2, <1>3, <2>2, <2>3, <2>5 DEF Works
  <2> QED BY <1>2, <1>3, <1>4, <2>1, <2>4, <2>6
<1>5. CASE ~(ok /\ storage[f] # 0 /\ IsChart(f))
  <2>1. UNCHANGED <<cache, mine>>
    BY <1>5 DEF AddIndexObject
  <2>2. pc'[r] = "workFailed" \/ ~IsChart(f)
    BY <1>5 DEF AddIndexObject, SharingInv
  <2> QED BY <1>2, <1>3, <2>1, <2>2
<1> QED BY <1>4, <1>5

----------------------------------------------------------------------------
\* The entries that the requests hold once r has changed its own.
LEMMA SetEntryFacts ==
    ASSUME Held, NEW r \in Requests, NEW e \in SoundEntry, SetEntry(r, e)
    PROVE  /\ cache' \in SoundEntry \cup {NoEntry}
           /\ mine' \in [Requests -> SoundEntry \cup {NoEntry}]
           /\ EntryOf(r)' = e
           /\ \A q \in Requests :
                  EntryOf(q)' = IF q = r \/ ~ExternalCache THEN e ELSE EntryOf(q)
<1>1. CASE ExternalCache
  BY <1>1 DEF SetEntry, Held, EntryOf
<1>2. CASE ~ExternalCache
  BY <1>2 DEF SetEntry, Held, EntryOf
<1> QED BY <1>1, <1>2

\* Steps that leave the entries alone.
LEMMA HeldFrame ==
    ASSUME Held, UNCHANGED <<statefile, savers, cache, mine>>,
           \A q \in Requests : /\ pc'[q] \in Holding => pc[q] \in Holding
                               /\ pc'[q] = "initStore" => pc[q] = "initStore"
    PROVE  Held'
BY DEF Held, EntryOf

\* Requests that answer let go of their entry.
LEMMA HeldAnswer ==
    ASSUME Held, SharingInv, NEW R, NEW from, NEW raw, Answer(R, from, raw),
           UNCHANGED <<statefile, cache>>, savers' \subseteq SoundIndex
    PROVE  Held'
<1>1. /\ mine' \in [Requests -> SoundEntry \cup {NoEntry}]
      /\ \A q \in Requests : q \notin R => mine'[q] = mine[q] /\ pc'[q] = pc[q]
      /\ \A q \in Requests : q \in R => pc'[q] = "idle"
  BY DEF Answer, Held
<1>2. \A q \in Requests : pc'[q] \in Holding => EntryOf(q)' \in SoundEntry
  BY <1>1 DEF Held, EntryOf, Holding
<1> QED BY <1>1, <1>2 DEF Held

LEMMA HeldStep ==
    ASSUME SharingInv, TypesInv, [Next]_vars
    PROVE  Held'
<1> USE DEF TypesInv
<1>0. pc \in [Requests -> Places]
  BY DEF SharingInv
<1>1. ASSUME NEW f \in Files, PutsObject(f) \/ DeleteObject(f)
      PROVE  Held'
  BY <1>1, HeldFrame DEF PutsObject, PutObject, DeleteObject, Change, cacheVars, requestVars
<1>2. ASSUME NEW r \in Requests, NEW ok \in BOOLEAN,
             \/ GetIndexFile(r) \/ GetChartList(r) \/ FetchChartsInStorage(r, ok)
             \/ RegenerateRepositoryIndex(r)
      PROVE  Held'
  <2>1. UNCHANGED <<statefile, savers, cache, mine>>
    BY <1>2 DEF GetIndexFile, GetChartList, FetchChartsInStorage, RegenerateRepositoryIndex,
        cacheVars, worldVars
  <2>2. \E from, to \in Places : /\ Goto(r, from, to) /\ to # "initStore"
                                 /\ to \in Holding => from \in Holding
    BY <1>2 DEF GetIndexFile, GetChartList, FetchChartsInStorage, RegenerateRepositoryIndex,
        Holding, Places
  <2> QED BY <1>0, <2>1, <2>2, HeldFrame DEF Goto
<1>3. ASSUME NEW r \in Requests, NEW ok \in BOOLEAN, InitInternal(r, ok) PROVE Held'
  <2>1. /\ ~ExternalCache /\ UNCHANGED <<statefile, savers, mine>>
        /\ cache' = IF cache = NoEntry THEN NewEntry(ok) ELSE cache
        /\ pc' = [pc EXCEPT ![r] = "getList"]
    BY <1>3 DEF InitInternal, worldVars, Goto
  <2>2. cache' \in SoundEntry
    BY <2>1, NewSound DEF Held
  <2> QED BY <1>0, <2>1, <2>2 DEF Held, EntryOf
<1>4. ASSUME NEW r \in Requests, NEW ok \in BOOLEAN, InitExternal(r, ok) PROVE Held'
  <2>1. ExternalCache /\ UNCHANGED <<statefile, savers, cache>>
    BY <1>4 DEF InitExternal, worldVars
  <2>2. CASE ok /\ cache # NoEntry
    <3>1. pc' = [pc EXCEPT ![r] = "getList"] /\ mine' = [mine EXCEPT ![r] = cache]
      BY <1>4, <2>2 DEF InitExternal, Goto
    <3>2. cache \in SoundEntry
      BY <2>2 DEF Held
    <3> QED BY <1>0, <2>1, <3>1, <3>2 DEF Held, EntryOf
  <2>3. CASE ~(ok /\ cache # NoEntry)
    <3>1. pc' = [pc EXCEPT ![r] = "initStore"] /\ mine' = mine
      BY <1>4, <2>3 DEF InitExternal, Goto
    <3> QED BY <1>0, <2>1, <3>1 DEF Held, EntryOf, Holding
  <2> QED BY <2>2, <2>3
<1>5. ASSUME NEW r \in Requests, NEW ok \in BOOLEAN, NEW saved \in BOOLEAN,
             InitStore(r, ok, saved)
      PROVE  Held'
  <2>1. /\ UNCHANGED <<statefile, savers>> /\ pc[r] = "initStore"
        /\ pc' = [pc EXCEPT ![r] = "getList"]
        /\ mine' = [mine EXCEPT ![r] = NewEntry(ok)]
        /\ cache' \in {NewEntry(ok), cache}
    BY <1>5 DEF InitStore, worldVars, Goto
  <2>2. ExternalCache
    BY <2>1 DEF Held
  <2> QED BY <1>0, <2>1, <2>2, NewSound DEF Held, EntryOf
<1>6. ASSUME NEW r \in Requests, FlushChartList(r) PROVE Held'
  <2>1. UNCHANGED <<statefile, savers, cache>>
    BY <1>6 DEF FlushChartList, worldVars, cacheVars
  <2>2. CASE pc[r] = "fetchFailed"
    <3>1. Answer(fetchChans, "error", EmptyIndex)
      BY <1>6, <2>2 DEF FlushChartList
    <3> QED BY <2>1, <3>1, HeldAnswer DEF Held
  <2>3. CASE pc[r] # "fetchFailed"
    <3>1. /\ pc' = [q \in Requests |-> IF q \in fetchChans THEN "compare" ELSE pc[q]]
          /\ mine' = mine
      BY <1>6, <2>3 DEF FlushChartList
    <3>2. \A q \in fetchChans : pc[q] \in Holding
      BY DEF SharingInv, OneListing, Fetchers, Holding
    <3> QED BY <2>1, <3>1, <3>2, HeldFrame
  <2> QED BY <2>2, <2>3
<1>7. ASSUME NEW r \in Requests, CompareWithStorage(r) PROVE Held'
  <2>1. UNCHANGED <<statefile, savers, cache>> /\ pc[r] = "compare"
    BY <1>7 DEF CompareWithStorage, worldVars, cacheVars
  <2>2. CASE ObjectSliceDiff(EntryOf(r).index, listed[r]) = NoDiff
    <3>1. Answer({r}, "cache", EntryOf(r).raw)
      BY <1>7, <2>2 DEF CompareWithStorage
    <3> QED BY <2>1, <3>1, HeldAnswer DEF Held
  <2>3. CASE ObjectSliceDiff(EntryOf(r).index, listed[r]) # NoDiff
    <3>1. pc' = [pc EXCEPT ![r] = "regenerate"] /\ mine' = mine
      BY <1>7, <2>3 DEF CompareWithStorage, Goto
    <3> QED BY <1>0, <2>1, <3>1, HeldFrame DEF Holding
  <2> QED BY <2>2, <2>3
<1>8. ASSUME NEW r \in Requests, NEW f \in Files, NEW ok \in BOOLEAN,
             \/ RemoveIndexObject(r, f) \/ UpdateIndexObject(r, f, ok)
             \/ AddIndexObject(r, f, ok)
      PROVE  Held'
  <2>1. /\ pc[r] = "working" /\ EntryOf(r) \in SoundEntry
        /\ pc' = pc \/ pc' = [pc EXCEPT ![r] = "workFailed"]
        /\ UNCHANGED <<statefile, savers>>
    BY <1>8, WorkFrame
  <2>2. \A q \in Requests : /\ pc'[q] \in Holding => pc[q] \in Holding
                            /\ pc'[q] = "initStore" => pc[q] = "initStore"
    BY <1>0, <2>1 DEF Holding
  <2>3. \/ UNCHANGED <<cache, mine>>
        \/ \E s, d : Works(r, f, s, d)
    <3>1. CASE RemoveIndexObject(r, f)
      BY <3>1, RemoveWorks
    <3>2. CASE UpdateIndexObject(r, f, ok)
      BY <3>2, UpdateWorks
    <3>3. CASE AddIndexObject(r, f, ok)
      BY <3>3, AddWorks
    <3> QED BY <1>8, <3>1, <3>2, <3>3
  <2>4. ASSUME NEW s, NEW d, Works(r, f, s, d) PROVE Held'
    <3> DEFINE i == [EntryOf(r).index EXCEPT ![f] = s]
    <3>1. i \in SoundIndex /\ SetEntry(r, [EntryOf(r) EXCEPT !.index = i])
      BY <2>4 DEF Works
    <3> HIDE DEF i
    <3>2. [EntryOf(r) EXCEPT !.index = i] \in SoundEntry
      BY <2>1, <3>1, EntryChanges
    <3> QED BY <2>1, <2>2, <3>1, <3>2, SetEntryFacts DEF Held
  <2> QED BY <2>1, <2>2, <2>3, <2>4, HeldFrame
<1>9. ASSUME NEW r \in Requests, NEW ok \in BOOLEAN, SaveCacheEntry(r, ok) PROVE Held'
  <2>1. /\ UNCHANGED <<statefile, savers>> /\ pc[r] = "working"
        /\ pc' = [pc EXCEPT ![r] = "worked"]
    BY <1>9 DEF SaveCacheEntry, worldVars, Goto
  <2>2. EntryOf(r) \in SoundEntry
    BY <2>1 DEF Held, Holding
  <2>3. Regenerate(EntryOf(r)) \in SoundEntry
    BY <2>2, EntryChanges, EmptySound
  <2>4. CASE ExternalCache
    <3>1. /\ mine' = [mine EXCEPT ![r] = Regenerate(EntryOf(r))]
          /\ cache' \in {Regenerate(EntryOf(r)), cache}
      BY <1>9, <2>4 DEF SaveCacheEntry
    <3> HIDE DEF TypesInv
    <3>2. Held
      BY DEF TypesInv
    <3> QED BY <1>0, <2>1, <2>3, <2>4, <3>1, <3>2 DEF Held, EntryOf, Holding
  <2>5. CASE ~ExternalCache
    <3>1. mine' = mine /\ cache' = Regenerate(EntryOf(r))
      BY <1>9, <2>5 DEF SaveCacheEntry
    <3> QED BY <1>0, <2>1, <2>3, <2>5, <3>1 DEF Held, EntryOf
  <2> QED BY <2>4, <2>5
<1>10. ASSUME NEW r \in Requests, FlushIndex(r) PROVE Held'
  <2>1. UNCHANGED <<statefile, cache>> /\ pc[r] \in {"worked", "workFailed"}
    BY <1>10 DEF FlushIndex, worldVars, cacheVars
  <2>2. EntryOf(r).raw \in SoundIndex
    BY <2>1 DEF Held, Holding, SoundEntry
  <2>3. savers' \subseteq SoundIndex
    BY <1>10, <2>2 DEF FlushIndex, Held
  <2>4. \E from, raw : Answer(regenChans, from, raw)
    BY <1>10 DEF FlushIndex
  <2> QED BY <2>1, <2>3, <2>4, HeldAnswer
<1>11. ASSUME NEW idx \in savers, NEW ok \in BOOLEAN, SaveStatefile(idx, ok) PROVE Held'
  <2>1. /\ UNCHANGED <<cache, mine, pc>> /\ savers' \subseteq savers
        /\ statefile' \in {idx, statefile}
    BY <1>11 DEF SaveStatefile, cacheVars, requestVars
  <2> QED BY <2>1 DEF Held, EntryOf
<1>12. ASSUME NEW file \in {statefile} \cup TornStatefiles, Restart(file) PROVE Held'
  <2>1. file \in SoundIndex \cup {NoIndex}
    BY TornSound DEF Held
  <2> QED BY <1>12, <2>1 DEF Restart, Held, Holding
<1>13. CASE UNCHANGED vars
  BY <1>13, HeldFrame DEF vars, worldVars, cacheVars, requestVars
<1> QED BY <1>1, <1>2, <1>3, <1>4, <1>5, <1>6, <1>7, <1>8, <1>9, <1>10, <1>11, <1>12,
           <1>13 DEF Next, PutsObject, RequestStep, InitCacheEntry

----------------------------------------------------------------------------
\* GetObjectSliceDiff of a sound index.
LEMMA DiffTyped ==
    ASSUME NEW idx \in SoundIndex, NEW list \in Listing
    PROVE  /\ ObjectSliceDiff(idx, list) \in DiffType
           /\ \A f \in Files : list[f] # 0 =>
                  (ObjectSliceDiff(idx, list).updated[f] = 0
                       <=> \A i \in 1..Len(idx[f]) : idx[f][i] = list[f])
<1> DEFINE Others(f) == {i \in 1..Len(idx[f]) : idx[f][i] # list[f]}
<1>1. \A f \in Files : Len(idx[f]) \in Nat
  BY SoundEntries
<1>2. ASSUME NEW f \in Files
      PROVE  Cardinality(Others(f)) \in Nat /\ (Cardinality(Others(f)) = 0 <=> Others(f) = {})
  <2>1. IsFiniteSet(1..Len(idx[f]))
    BY <1>1, FS_Interval
  <2>2. Others(f) \subseteq 1..Len(idx[f])
    OBVIOUS
  <2> HIDE DEF Others
  <2>3. IsFiniteSet(Others(f))
    BY <2>1, <2>2, FS_Subset
  <2> QED BY <2>3, FS_CardinalityType, FS_EmptySet
<1>3. ObjectSliceDiff(idx, list).updated
          = [f \in Files |-> IF list[f] = 0 THEN 0 ELSE Cardinality(Others(f))]
  BY DEF ObjectSliceDiff
<1>4. \A f \in Files : Others(f) = {} <=> \A i \in 1..Len(idx[f]) : idx[f][i] = list[f]
  OBVIOUS
<1> HIDE DEF Others
<1>5. ObjectSliceDiff(idx, list).updated \in [Files -> Nat]
  BY <1>2, <1>3
<1>6. /\ ObjectSliceDiff(idx, list).removed \in [Files -> Nat]
      /\ ObjectSliceDiff(idx, list).added \in SUBSET Files
  BY <1>1 DEF ObjectSliceDiff
<1>7. ObjectSliceDiff(idx, list) =
          [removed |-> ObjectSliceDiff(idx, list).removed,
           updated |-> ObjectSliceDiff(idx, list).updated,
           added |-> ObjectSliceDiff(idx, list).added]
  BY DEF ObjectSliceDiff
<1>8. ObjectSliceDiff(idx, list) \in DiffType
  BY <1>5, <1>6, <1>7 DEF DiffType
<1> QED BY <1>2, <1>3, <1>4, <1>8

LEMMA NothingTyped ==
    NoListing \in Listing /\ NoListing \in [Files -> Nat] /\ NoDiff \in DiffType
BY ConstantsAssumption DEF NoListing, Listing, NoDiff, DiffType

LEMMA AnswerTypes ==
    ASSUME TypesInv, NEW R, NEW from \in {"error", "cache", "regeneration"},
           NEW raw \in SoundIndex, Answer(R, from, raw), UNCHANGED <<clock, keyLock>>
    PROVE  RequestTypes'
<1>1. listed' \in [Requests -> Listing] /\ diff' \in [Requests -> DiffType]
  BY NothingTyped DEF Answer, TypesInv, RequestTypes, DiffType
<1>2. [from |-> from, raw |-> raw, since |-> busySince] \in ResponseType
  BY DEF TypesInv, World, ResponseType
<1>3. response' \in [Requests -> ResponseType]
  BY <1>2 DEF Answer, TypesInv, RequestTypes, ResponseType
<1> QED BY <1>1, <1>3 DEF TypesInv, RequestTypes, DiffType, ResponseType

LEMMA RequestTypesStep ==
    ASSUME SharingInv, TypesInv, [Next]_vars
    PROVE  RequestTypes'
<1> USE DEF TypesInv
<1>0. /\ keyLock \subseteq Requests /\ listed \in [Requests -> Listing]
      /\ diff \in [Requests -> DiffType] /\ response \in [Requests -> ResponseType]
  BY DEF RequestTypes, DiffType, ResponseType
<1>1. ASSUME NEW f \in Files, PutsObject(f) \/ DeleteObject(f)
      PROVE  RequestTypes'
  <2>1. UNCHANGED <<keyLock, listed, diff, response>> /\ clock' = clock + 1
    BY <1>1 DEF PutsObject, PutObject, DeleteObject, Change, cacheVars, requestVars
  <2>2. 0..clock \subseteq 0..clock'
    BY <2>1, ConstantsAssumption DEF World
  <2>3. response' \in [Requests -> ResponseType']
    BY <1>0, <2>1, <2>2 DEF ResponseType
  <2> QED BY <1>0, <2>1, <2>3 DEF RequestTypes, DiffType, ResponseType
<1>2. ASSUME clock' = clock, response' = response, keyLock' \subseteq Requests,
             listed' \in [Requests -> Listing], diff' \in [Requests -> DiffType]
      PROVE  RequestTypes'
  BY <1>0, <1>2 DEF RequestTypes, DiffType, ResponseType
<1>3. ASSUME NEW r \in Requests, NEW ok \in BOOLEAN, NEW saved \in BOOLEAN,
             \/ GetChartList(r) \/ RegenerateRepositoryIndex(r)
             \/ InitInternal(r, ok) \/ InitExternal(r, ok) \/ InitStore(r, ok, saved)
             \/ SaveCacheEntry(r, ok)
      PROVE  RequestTypes'
  <2>1. UNCHANGED <<clock, response, listed, diff>>
    BY <1>3 DEF GetChartList, RegenerateRepositoryIndex, InitInternal,
        InitExternal, InitStore, SaveCacheEntry, worldVars
  <2>2. keyLock' \subseteq Requests
    BY <1>0, <1>3 DEF GetChartList, RegenerateRepositoryIndex, InitInternal,
        InitExternal, InitStore, SaveCacheEntry, cacheVars
  <2> QED BY <1>0, <1>2, <2>1, <2>2
<1>a. ASSUME NEW r \in Requests, GetIndexFile(r) PROVE RequestTypes'
  <2>1. /\ UNCHANGED <<clock, keyLock, listed, diff>>
        /\ response' = [response EXCEPT ![r] = NoResponse]
    BY <1>a DEF GetIndexFile, worldVars, cacheVars
  <2>2. NoResponse \in ResponseType
    BY EmptySound, ConstantsAssumption DEF NoResponse, ResponseType, World
  <2>3. response' \in [Requests -> ResponseType]
    BY <1>0, <2>1, <2>2
  <2> QED BY <1>0, <2>1, <2>3 DEF RequestTypes, DiffType, ResponseType
<1>4. ASSUME NEW r \in Requests, NEW ok \in BOOLEAN, FetchChartsInStorage(r, ok)
      PROVE  RequestTypes'
  <2>1. /\ UNCHANGED <<clock, response, keyLock, diff>>
        /\ listed' = [listed EXCEPT ![r] = IF ok THEN storage ELSE NoListing]
    BY <1>4 DEF FetchChartsInStorage, worldVars, cacheVars
  <2>2. listed' \in [Requests -> Listing]
    BY <1>0, <2>1, NothingTyped DEF World
  <2> QED BY <1>0, <1>2, <2>1, <2>2
<1>5. ASSUME NEW r \in Requests, FlushChartList(r) PROVE RequestTypes'
  <2>1. UNCHANGED <<clock, keyLock>>
    BY <1>5 DEF FlushChartList, worldVars, cacheVars
  <2>2. CASE pc[r] = "fetchFailed"
    <3>1. Answer(fetchChans, "error", EmptyIndex)
      BY <1>5, <2>2 DEF FlushChartList
    <3> QED BY <2>1, <3>1, AnswerTypes, EmptySound
  <2>3. CASE pc[r] # "fetchFailed"
    <3>1. /\ listed' = [q \in Requests |-> IF q \in fetchChans THEN listed[r] ELSE listed[q]]
          /\ UNCHANGED <<response, diff>>
      BY <1>5, <2>3 DEF FlushChartList
    <3> QED BY <1>0, <1>2, <2>1, <3>1
  <2> QED BY <2>2, <2>3
<1>6. ASSUME NEW r \in Requests, CompareWithStorage(r) PROVE RequestTypes'
  <2>1. UNCHANGED <<clock, keyLock>> /\ pc[r] = "compare"
    BY <1>6 DEF CompareWithStorage, worldVars, cacheVars
  <2>2. EntryOf(r).index \in SoundIndex /\ EntryOf(r).raw \in SoundIndex
    BY <2>1 DEF Held, Holding, SoundEntry
  <2> DEFINE d == ObjectSliceDiff(EntryOf(r).index, listed[r])
  <2>3. CASE d = NoDiff
    <3>1. Answer({r}, "cache", EntryOf(r).raw)
      BY <1>6, <2>3 DEF CompareWithStorage
    <3> QED BY <2>1, <2>2, <3>1, AnswerTypes
  <2>4. CASE d # NoDiff
    <3>1. diff' = [diff EXCEPT ![r] = d] /\ UNCHANGED <<response, listed>>
      BY <1>6, <2>4 DEF CompareWithStorage
    <3>2. d \in DiffType
      BY <1>0, <2>2, DiffTyped
    <3> HIDE DEF d
    <3> QED BY <1>0, <1>2, <2>1, <3>1, <3>2
  <2> QED BY <2>3, <2>4
<1>7. ASSUME NEW r \in Requests, NEW f \in Files, NEW ok \in BOOLEAN,
             \/ RemoveIndexObject(r, f) \/ UpdateIndexObject(r, f, ok)
             \/ AddIndexObject(r, f, ok)
      PROVE  RequestTypes'
  <2>1. UNCHANGED <<clock, keyLock, listed, response>>
    BY <1>7, WorkFrame
  <2>2. \E d \in DiffType : diff' = [diff EXCEPT ![r] = d]
    <3>0. ASSUME NEW s, NEW d, Works(r, f, s, d) PROVE diff' = [diff EXCEPT ![r] = d]
      BY <3>0 DEF Works
    <3>1. CASE RemoveIndexObject(r, f)
      BY <3>0, <3>1, RemoveWorks
    <3>2. CASE UpdateIndexObject(r, f, ok)
      BY <3>0, <3>2, UpdateWorks
    <3>3. CASE AddIndexObject(r, f, ok)
      BY <3>0, <3>3, AddWorks
    <3> QED BY <1>7, <3>1, <3>2, <3>3
  <2> QED BY <1>0, <1>2, <2>1, <2>2
<1>8. ASSUME NEW r \in Requests, FlushIndex(r) PROVE RequestTypes'
  <2>1. UNCHANGED <<clock, keyLock>> /\ pc[r] \in {"worked", "workFailed"}
    BY <1>8 DEF FlushIndex, worldVars, cacheVars
  <2>2. EntryOf(r).raw \in SoundIndex
    BY <2>1 DEF Held, Holding, SoundEntry
  <2>3. \/ Answer(regenChans, "regeneration", EntryOf(r).raw)
        \/ Answer(regenChans, "error", EmptyIndex)
    BY <1>8 DEF FlushIndex
  <2> QED BY <2>1, <2>2, <2>3, AnswerTypes, EmptySound
<1>9. ASSUME NEW idx, NEW ok \in BOOLEAN, SaveStatefile(idx, ok) PROVE RequestTypes'
  BY <1>0, <1>2, <1>9 DEF SaveStatefile, cacheVars, requestVars
<1>10. ASSUME NEW file, Restart(file) PROVE RequestTypes'
  <2>1. /\ UNCHANGED <<clock, response>> /\ keyLock' = {}
        /\ listed' \in [Requests -> Listing] /\ diff' \in [Requests -> DiffType]
    BY <1>10, NothingTyped DEF Restart
  <2> QED BY <1>2, <2>1
<1>11. CASE UNCHANGED vars
  BY <1>0, <1>2, <1>11 DEF vars, worldVars, cacheVars, requestVars
<1> QED BY <1>1, <1>a, <1>3, <1>4, <1>5, <1>6, <1>7, <1>8, <1>9, <1>10, <1>11
      DEF Next, PutsObject, RequestStep, InitCacheEntry

\* The entries of the external store: what r has still to add is new to it.
LEMMA NewAddedStep ==
    ASSUME SharingInv, TypesInv, [Next]_vars
    PROVE  NewAdded'
<1> SUFFICES ASSUME ExternalCache PROVE NewAdded'
  BY DEF NewAdded
<1> USE DEF TypesInv
<1>0. /\ pc \in [Requests -> Places]
      /\ mine \in [Requests -> SoundEntry \cup {NoEntry}]
      /\ diff \in [Requests -> DiffType]
  BY DEF SharingInv, Held, RequestTypes, DiffType
<1>1. ASSUME \A q \in Requests : pc'[q] \in {"regenerate", "working"} =>
                 /\ pc[q] \in {"regenerate", "working"}
                 /\ mine'[q] = mine[q] /\ diff'[q] = diff[q]
      PROVE  NewAdded'
  BY <1>1 DEF NewAdded
<1>2. ASSUME NEW f \in Files, PutsObject(f) \/ DeleteObject(f)
      PROVE  NewAdded'
  BY <1>1, <1>2 DEF PutsObject, PutObject, DeleteObject, Change, requestVars
<1>3. ASSUME NEW r \in Requests, NEW ok \in BOOLEAN, NEW saved \in BOOLEAN,
             \/ GetIndexFile(r) \/ GetChartList(r) \/ RegenerateRepositoryIndex(r)
             \/ InitInternal(r, ok) \/ InitExternal(r, ok) \/ InitStore(r, ok, saved)
             \/ FetchChartsInStorage(r, ok) \/ SaveCacheEntry(r, ok)
      PROVE  NewAdded'
  <2>1. diff' = diff /\ \A q \in Requests : q # r => mine'[q] = mine[q]
    BY <1>0, <1>3 DEF GetIndexFile, GetChartList, RegenerateRepositoryIndex, InitInternal,
        InitExternal, InitStore, FetchChartsInStorage, SaveCacheEntry
  <2>2. \A q \in Requests : q # r => pc'[q] = pc[q]
    BY <1>0, <1>3 DEF GetIndexFile, GetChartList, RegenerateRepositoryIndex, InitInternal,
        InitExternal, InitStore, FetchChartsInStorage, SaveCacheEntry, Goto
  <2>3. \/ pc'[r] \notin {"regenerate", "working"}
        \/ pc[r] = "regenerate" /\ mine' = mine
    BY <1>0, <1>3 DEF GetIndexFile, GetChartList, RegenerateRepositoryIndex, InitInternal,
        InitExternal, InitStore, FetchChartsInStorage, SaveCacheEntry, Goto
  <2> QED BY <1>1, <2>1, <2>2, <2>3
<1>4. ASSUME NEW R, NEW from, NEW raw, Answer(R, from, raw) PROVE NewAdded'
  BY <1>1, <1>4 DEF Answer
<1>5. ASSUME NEW r \in Requests, FlushChartList(r) PROVE NewAdded'
  <2>1. CASE pc[r] = "fetchFailed"
    BY <1>4, <1>5, <2>1 DEF FlushChartList
  <2>2. CASE pc[r] # "fetchFailed"
    BY <1>1, <1>5, <2>2 DEF FlushChartList
  <2> QED BY <2>1, <2>2
<1>6. ASSUME NEW r \in Requests, CompareWithStorage(r) PROVE NewAdded'
  <2> DEFINE d == ObjectSliceDiff(EntryOf(r).index, listed[r])
  <2>1. CASE d = NoDiff
    BY <1>4, <1>6, <2>1 DEF CompareWithStorage
  <2>2. CASE d # NoDiff
    <3>1. /\ pc' = [pc EXCEPT ![r] = "regenerate"]
          /\ diff' = [diff EXCEPT ![r] = d] /\ mine' = mine
      BY <1>6, <2>2 DEF CompareWithStorage, Goto
    <3>2. \A f \in d.added : mine[r].index[f] = <<>>
      BY DEF ObjectSliceDiff, EntryOf
    <3> HIDE DEF d
    <3> QED BY <1>0, <3>1, <3>2 DEF NewAdded
  <2> QED BY <2>1, <2>2
<1>7. ASSUME NEW r \in Requests, NEW f \in Files, NEW ok \in BOOLEAN,
             \/ RemoveIndexObject(r, f) \/ UpdateIndexObject(r, f, ok)
             \/ AddIndexObject(r, f, ok)
      PROVE  NewAdded'
  <2>1. /\ pc[r] = "working" /\ EntryOf(r) \in SoundEntry /\ EntryOf(r).index \in SoundIndex
        /\ pc' = pc \/ pc' = [pc EXCEPT ![r] = "workFailed"]
    BY <1>7, WorkFrame
  <2>2. ASSUME NEW d \in DiffType, NEW s, Works(r, f, s, d),
               f \in d.added => s = <<>>, d.added \subseteq diff[r].added
        PROVE  NewAdded'
    <3> DEFINE i == [EntryOf(r).index EXCEPT ![f] = s]
    <3>1. /\ i \in SoundIndex /\ SetEntry(r, [EntryOf(r) EXCEPT !.index = i])
          /\ diff' = [diff EXCEPT ![r] = d]
      BY <2>2 DEF Works
    <3>2. \A g \in Files : i[g] = IF g = f THEN s ELSE EntryOf(r).index[g]
      BY <2>1 DEF SoundIndex, Index
    <3> HIDE DEF i
    <3>3. [EntryOf(r) EXCEPT !.index = i] \in SoundEntry
          /\ [EntryOf(r) EXCEPT !.index = i].index = i
      BY <2>1, <3>1, EntryChanges
    <3>4. mine'[r].index = i /\ \A q \in Requests : q # r => mine'[q] = mine[q]
      <4> DEFINE e == [EntryOf(r) EXCEPT !.index = i]
      <4>1. mine' = [mine EXCEPT ![r] = e]
        BY <3>1 DEF SetEntry
      <4>2. e.index = i
        BY <3>3
      <4> HIDE DEF e
      <4> QED BY <1>0, <4>1, <4>2
    <3>5. \A g \in d.added : mine'[r].index[g] = <<>>
      BY <2>1, <2>2, <3>2, <3>4 DEF NewAdded, EntryOf, DiffType
    <3> QED BY <1>0, <2>1, <3>1, <3>4, <3>5 DEF NewAdded
  <2>3. ASSUME NEW d \in DiffType, diff' = [diff EXCEPT ![r] = d], UNCHANGED <<cache, mine>>,
               d.added \subseteq diff[r].added
        PROVE  NewAdded'
    BY <1>0, <2>1, <2>3 DEF NewAdded
  <2>4. \A g \in diff[r].added : EntryOf(r).index[g] = <<>>
    BY <2>1 DEF NewAdded, EntryOf
  <2>5. CASE RemoveIndexObject(r, f)
    <3>1. f \in diff[r].added => LeftOf(f, EntryOf(r).index[f]) = <<>>
      BY <2>4 DEF LeftOf, RemoveEntry
    <3> QED BY <2>2, <2>5, <3>1, RemoveWorks
  <2>6. CASE UpdateIndexObject(r, f, ok)
    <3>1. f \in diff[r].added => UpdateEntry(EntryOf(r).index[f], storage[f]) = <<>>
      BY <2>4 DEF UpdateEntry
    <3> QED BY <2>2, <2>3, <2>6, <3>1, UpdateWorks
  <2>7. CASE AddIndexObject(r, f, ok)
    BY <2>2, <2>3, <2>7, AddWorks
  <2> QED BY <1>7, <2>5, <2>6, <2>7
<1>8. ASSUME NEW r \in Requests, FlushIndex(r) PROVE NewAdded'
  BY <1>4, <1>8 DEF FlushIndex
<1>9. ASSUME NEW idx, NEW ok \in BOOLEAN, SaveStatefile(idx, ok) PROVE NewAdded'
  BY <1>1, <1>9 DEF SaveStatefile, requestVars
<1>10. ASSUME NEW file, Restart(file) PROVE NewAdded'
  BY <1>10 DEF Restart, NewAdded
<1>11. CASE UNCHANGED vars
  BY <1>1, <1>11 DEF vars, requestVars
<1> QED BY <1>2, <1>3, <1>5, <1>6, <1>7, <1>8, <1>9, <1>10, <1>11
      DEF Next, PutsObject, RequestStep, InitCacheEntry

LEMMA InitTypes == Init => TypesInv
<1> SUFFICES ASSUME Init PROVE TypesInv
  OBVIOUS
<1>1. World
  BY ConstantsAssumption DEF Init, World, Listing, NoListing
<1>2. Held
  BY DEF Init, Held, Holding
<1>3. RequestTypes
  <2>1. NoResponse \in ResponseType
    BY EmptySound DEF NoResponse, ResponseType, Init
  <2> QED BY <2>1, NothingTyped DEF Init, RequestTypes, DiffType, ResponseType
<1>4. NewAdded
  BY DEF Init, NewAdded
<1> QED BY <1>1, <1>2, <1>3, <1>4 DEF TypesInv

LEMMA TypesHold == Spec => [](SharingInv /\ TypesInv)
<1>1. Init => TypesInv
  BY InitTypes
<1>2. SharingInv /\ TypesInv /\ [Next]_vars => TypesInv'
  <2> SUFFICES ASSUME SharingInv, TypesInv, [Next]_vars PROVE TypesInv'
    OBVIOUS
  <2> QED BY WorldStep, HeldStep, RequestTypesStep, NewAddedStep DEF TypesInv
<1> QED BY <1>1, <1>2, Sharing, PTL DEF Spec

\* Every variable keeps its type.
THEOREM CacheTypes == Spec => []TypeOK
<1>1. SharingInv /\ TypesInv => TypeOK
  <2> SUFFICES ASSUME SharingInv, TypesInv PROVE TypeOK
    OBVIOUS
  <2>1. SoundIndex \subseteq Index /\ SoundEntry \subseteq Entry
    BY DEF SoundIndex, SoundEntry, Entry
  <2>2. /\ 0..clock \subseteq 0..MaxTime
    BY ConstantsAssumption DEF TypesInv, World
  <2>3. /\ fetchChans \subseteq Requests /\ regenChans \subseteq Requests
    BY DEF SharingInv, OneListing, OneRegeneration, Fetchers, Workers
  <2> QED BY <2>1, <2>2, <2>3 DEF TypeOK, TypesInv, World, Held, RequestTypes,
        ResponseType, DiffType, SharingInv, Places
<1> QED BY <1>1, TypesHold, PTL

\* With an external cache store no answer has two entries for a package.
THEOREM ExternalNoDuplicates ==
    ASSUME ExternalCache
    PROVE  Spec => []NoDuplicateEntries
<1>1. TypesInv => NoDuplicateEntries
  BY DEF TypesInv, RequestTypes, ResponseType, SoundIndex, NoDuplicateEntries
<1> QED BY <1>1, TypesHold, PTL

----------------------------------------------------------------------------
\* The packages that are steady after a step were so before, and as they are.
SteadyKept ==
    \A f \in Files : Steady(f)' =>
        /\ Steady(f) /\ storage'[f] = storage[f]
        /\ <<f, storage[f]>> \in charts' <=> <<f, storage[f]>> \in charts

LEMMA SteadySame ==
    ASSUME UNCHANGED <<storage, charts, changedAt, busySince>>
    PROVE  SteadyKept
BY DEF SteadyKept, Steady

\* Only GetIndexFile in an idle server makes packages steady.
LEMMA SteadyStep ==
    ASSUME SharingInv, TypesInv, [Next]_vars
    PROVE  SteadyKept \/ \A q \in Requests : pc'[q] \in {"idle", "init"}
<1>1. ASSUME NEW f \in Files, PutsObject(f) \/ DeleteObject(f)
      PROVE  SteadyKept
  <2>1. PICK time, put : Change(f, time, put) /\ \A c \in put : \E t : c = <<f, t>>
    BY <1>1 DEF PutsObject, PutObject, DeleteObject
  <2>2. /\ storage' = [storage EXCEPT ![f] = time] /\ charts' = charts \cup put
        /\ changedAt' = [changedAt EXCEPT ![f] = clock + 1]
        /\ busySince' = busySince
    BY <2>1 DEF Change
  <2>3. /\ storage \in [Files -> 0..MaxTime] /\ changedAt \in [Files -> 0..MaxTime]
        /\ ~(clock + 1 <= busySince)
    BY ConstantsAssumption DEF TypesInv, World, Listing
  <2>4. ~Steady(f)'
    BY <2>2, <2>3 DEF Steady
  <2>5. \A g \in Files : g # f => /\ storage'[g] = storage[g]
                                  /\ changedAt'[g] = changedAt[g]
    BY <2>2, <2>3
  <2>6. \A g \in Files : g # f =>
            (<<g, storage[g]>> \in charts' <=> <<g, storage[g]>> \in charts)
    BY <2>1, <2>2
  <2> QED BY <2>2, <2>4, <2>5, <2>6 DEF SteadyKept, Steady
<1>2. ASSUME NEW r \in Requests, GetIndexFile(r)
      PROVE  SteadyKept \/ \A q \in Requests : pc'[q] \in {"idle", "init"}
  <2>1. UNCHANGED <<storage, charts, changedAt>> /\ pc' = [pc EXCEPT ![r] = "init"]
    BY <1>2 DEF GetIndexFile, worldVars, Goto
  <2>2. CASE \A q \in Requests : pc[q] = "idle"
    BY <2>1, <2>2 DEF SharingInv
  <2>3. CASE ~\A q \in Requests : pc[q] = "idle"
    BY <1>2, <2>1, <2>3, SteadySame DEF GetIndexFile
  <2> QED BY <2>2, <2>3
<1>3. ASSUME NEW r \in Requests, InitCacheEntry(r) \/ RequestStep(r) PROVE SteadyKept
  <2>1. UNCHANGED <<storage, charts, changedAt, busySince>>
    BY <1>3 DEF RequestStep, InitStore, GetChartList, FetchChartsInStorage, FlushChartList,
        CompareWithStorage, RegenerateRepositoryIndex, RemoveIndexObject,
        UpdateIndexObject, AddIndexObject, SaveCacheEntry, FlushIndex, worldVars,
        InitCacheEntry, InitInternal, InitExternal
  <2> QED BY <2>1, SteadySame
<1>4. ASSUME NEW idx, NEW ok, SaveStatefile(idx, ok) PROVE SteadyKept
  BY <1>4, SteadySame DEF SaveStatefile
<1>5. ASSUME NEW file, Restart(file) PROVE SteadyKept
  BY <1>5, SteadySame DEF Restart
<1>6. CASE UNCHANGED vars
  BY <1>6, SteadySame DEF vars, worldVars
<1> QED BY <1>1, <1>2, <1>3, <1>4, <1>5, <1>6 DEF Next, PutsObject

\* Only PutObject and DeleteObject change storage.
LEMMA StorageKept ==
    ASSUME [Next]_vars, ~\E f \in Files : PutsObject(f) \/ DeleteObject(f)
    PROVE  UNCHANGED <<storage, charts, changedAt>>
<1>1. ASSUME NEW r \in Requests, GetIndexFile(r) \/ InitCacheEntry(r)
      PROVE  UNCHANGED <<storage, charts, changedAt>>
  BY <1>1 DEF GetIndexFile, InitCacheEntry, InitInternal, InitExternal, worldVars
<1>2. ASSUME NEW r \in Requests, RequestStep(r)
      PROVE  UNCHANGED <<storage, charts, changedAt>>
  BY <1>2 DEF RequestStep, InitStore, GetChartList, FetchChartsInStorage, FlushChartList,
      CompareWithStorage, RegenerateRepositoryIndex, RemoveIndexObject,
      UpdateIndexObject, AddIndexObject, SaveCacheEntry, FlushIndex, worldVars
<1>3. ASSUME NEW idx, NEW ok, SaveStatefile(idx, ok)
      PROVE  UNCHANGED <<storage, charts, changedAt>>
  BY <1>3 DEF SaveStatefile
<1>4. ASSUME NEW file, Restart(file) PROVE UNCHANGED <<storage, charts, changedAt>>
  BY <1>4 DEF Restart
<1>5. CASE UNCHANGED vars
  BY <1>5 DEF vars, worldVars
<1> QED BY <1>1, <1>2, <1>3, <1>4, <1>5 DEF Next, PutsObject

\* An answer shows the unchanged packages that are not skipped.
Timely(resp) ==
    \A f \in Files : Unchanged(resp, f) /\ ~Skipped(f) => Shows(resp.raw, f)

\* A timely answer stays so: a package that changes later is excused.
LEMMA TimelyStays ==
    ASSUME SharingInv, TypesInv, [Next]_vars,
           NEW resp, resp.since \in 0..clock, Timely(resp)
    PROVE  \A f \in Files : changedAt'[f] <= resp.since /\ ~Skipped(f)'
                               => Shows(resp.raw, f)'
<1>1. ASSUME NEW f \in Files, PutsObject(f) \/ DeleteObject(f)
      PROVE  \A g \in Files : changedAt'[g] <= resp.since =>
                 /\ changedAt[g] <= resp.since /\ storage'[g] = storage[g]
                 /\ <<g, storage[g]>> \in charts' <=> <<g, storage[g]>> \in charts
  <2>1. PICK time, put : Change(f, time, put) /\ \A c \in put : \E t : c = <<f, t>>
    BY <1>1 DEF PutsObject, PutObject, DeleteObject
  <2>2. /\ storage' = [storage EXCEPT ![f] = time] /\ charts' = charts \cup put
        /\ changedAt' = [changedAt EXCEPT ![f] = clock + 1]
    BY <2>1 DEF Change
  <2>3. /\ storage \in [Files -> 0..MaxTime] /\ changedAt \in [Files -> 0..MaxTime]
        /\ ~(clock + 1 <= resp.since)
    BY ConstantsAssumption DEF TypesInv, World, Listing
  <2>4. changedAt'[f] = clock + 1
    BY <2>2, <2>3
  <2>5. \A g \in Files : g # f => /\ storage'[g] = storage[g]
                                  /\ changedAt'[g] = changedAt[g]
    BY <2>2, <2>3
  <2>6. \A g \in Files : g # f =>
            (<<g, storage[g]>> \in charts' <=> <<g, storage[g]>> \in charts)
    BY <2>1, <2>2
  <2> QED BY <2>3, <2>4, <2>5, <2>6
<1>2. \A g \in Files : changedAt'[g] <= resp.since =>
                 /\ changedAt[g] <= resp.since /\ storage'[g] = storage[g]
                 /\ <<g, storage[g]>> \in charts' <=> <<g, storage[g]>> \in charts
  BY <1>1, StorageKept
<1> QED BY <1>2 DEF Timely, Unchanged, Skipped, Shows, IsChart

----------------------------------------------------------------------------
\* A listing stays right until it is compared.
LEMMA ListedFrame ==
    ASSUME ListedRight, SteadyKept,
           \A q \in Requests : pc'[q] \in {"fetched", "compare"} =>
               \/ listed'[q] = storage
               \/ \E p \in Requests : /\ pc[p] \in {"fetched", "compare"}
                                      /\ listed'[q] = listed[p]
    PROVE  ListedRight'
<1>1. \A f \in Files : Steady(f)' => Steady(f) /\ storage'[f] = storage[f]
  BY DEF SteadyKept
<1> QED BY <1>1 DEF ListedRight

LEMMA ListedStep ==
    ASSUME SharingInv, TypesInv, ListedRight, [Next]_vars
    PROVE  ListedRight'
<1>0. /\ pc \in [Requests -> Places] /\ listed \in [Requests -> Listing]
  BY DEF SharingInv, TypesInv, RequestTypes
<1>1. CASE \A q \in Requests : pc'[q] \in {"idle", "init"}
  BY <1>1 DEF ListedRight
<1>2. CASE SteadyKept
  <2>1. ASSUME \A q \in Requests : pc'[q] \in {"fetched", "compare"} =>
                   pc[q] \in {"fetched", "compare"} /\ listed'[q] = listed[q]
        PROVE  ListedRight'
    BY <1>2, <2>1, ListedFrame
  <2>2. ASSUME NEW f \in Files, PutsObject(f) \/ DeleteObject(f) PROVE ListedRight'
    BY <2>1, <2>2 DEF PutsObject, PutObject, DeleteObject, Change, requestVars
  <2>3. ASSUME NEW r \in Requests, NEW ok \in BOOLEAN, NEW saved \in BOOLEAN,
               \/ GetIndexFile(r) \/ GetChartList(r) \/ RegenerateRepositoryIndex(r)
               \/ InitInternal(r, ok) \/ InitExternal(r, ok) \/ InitStore(r, ok, saved)
               \/ SaveCacheEntry(r, ok)
        PROVE  ListedRight'
    <3>1. listed' = listed
      BY <2>3 DEF GetIndexFile, GetChartList, RegenerateRepositoryIndex, InitInternal,
        InitExternal, InitStore, SaveCacheEntry
    <3>2. PICK from, to \in Places : Goto(r, from, to) /\ to \notin {"fetched", "compare"}
      BY <2>3 DEF GetIndexFile, GetChartList, RegenerateRepositoryIndex, InitInternal,
        InitExternal, InitStore, SaveCacheEntry, Places
    <3> QED BY <1>0, <2>1, <3>1, <3>2 DEF Goto
  <2>4. ASSUME NEW r \in Requests, NEW ok \in BOOLEAN, FetchChartsInStorage(r, ok)
        PROVE  ListedRight'
    <3>1. /\ pc' = [pc EXCEPT ![r] = IF ok THEN "fetched" ELSE "fetchFailed"]
          /\ listed' = [listed EXCEPT ![r] = IF ok THEN storage ELSE NoListing]
      BY <2>4 DEF FetchChartsInStorage, Goto
    <3> QED BY <1>0, <1>2, <3>1, ListedFrame
  <2>5. ASSUME NEW R, NEW from, NEW raw, Answer(R, from, raw) PROVE ListedRight'
    BY <2>1, <2>5 DEF Answer
  <2>6. ASSUME NEW r \in Requests, FlushChartList(r) PROVE ListedRight'
    <3>1. CASE pc[r] = "fetchFailed"
      BY <2>5, <2>6, <3>1 DEF FlushChartList
    <3>2. CASE pc[r] # "fetchFailed"
      <4>1. /\ pc[r] = "fetched"
            /\ pc' = [q \in Requests |-> IF q \in fetchChans THEN "compare" ELSE pc[q]]
            /\ listed' = [q \in Requests |-> IF q \in fetchChans THEN listed[r]
                                             ELSE listed[q]]
        BY <2>6, <3>2 DEF FlushChartList
      <4>2. ASSUME NEW q \in Requests, pc'[q] \in {"fetched", "compare"}
            PROVE  \E p \in Requests : /\ pc[p] \in {"fetched", "compare"}
                                       /\ listed'[q] = listed[p]
        BY <4>1, <4>2
      <4> QED BY <1>2, <4>2, ListedFrame
    <3> QED BY <3>1, <3>2
  <2>7. ASSUME NEW r \in Requests, CompareWithStorage(r) PROVE ListedRight'
    <3>1. CASE ObjectSliceDiff(EntryOf(r).index, listed[r]) = NoDiff
      BY <2>5, <2>7, <3>1 DEF CompareWithStorage
    <3>2. CASE ObjectSliceDiff(EntryOf(r).index, listed[r]) # NoDiff
      <4>1. pc' = [pc EXCEPT ![r] = "regenerate"] /\ listed' = listed
        BY <2>7, <3>2 DEF CompareWithStorage, Goto
      <4> QED BY <1>0, <2>1, <4>1
    <3> QED BY <3>1, <3>2
  <2>8. ASSUME NEW r \in Requests, NEW f \in Files, NEW ok \in BOOLEAN,
               \/ RemoveIndexObject(r, f) \/ UpdateIndexObject(r, f, ok)
               \/ AddIndexObject(r, f, ok)
        PROVE  ListedRight'
    <3>1. listed' = listed /\ (pc' = pc \/ pc' = [pc EXCEPT ![r] = "workFailed"])
      BY <2>8, WorkFrame
    <3> QED BY <1>0, <2>1, <3>1
  <2>9. ASSUME NEW r \in Requests, FlushIndex(r) PROVE ListedRight'
    BY <2>5, <2>9 DEF FlushIndex
  <2>10. ASSUME NEW idx, NEW ok \in BOOLEAN, SaveStatefile(idx, ok) PROVE ListedRight'
    BY <2>1, <2>10 DEF SaveStatefile, requestVars
  <2>11. ASSUME NEW file, Restart(file) PROVE ListedRight'
    BY <2>11 DEF Restart, ListedRight
  <2>12. CASE UNCHANGED vars
    BY <2>1, <2>12 DEF vars, requestVars
  <2> QED BY <2>2, <2>3, <2>4, <2>6, <2>7, <2>8, <2>9, <2>10, <2>11, <2>12
        DEF Next, PutsObject, RequestStep, InitCacheEntry
<1> QED BY <1>1, <1>2, SteadyStep

----------------------------------------------------------------------------
\* What the steps of a regeneration do to the entries of f: to what r has
\* still to do, and to what another request that shares the index will do.

LEMMA RemovePrepares ==
    ASSUME NEW idx \in SoundIndex, NEW f \in Files, NEW t, NEW C,
           NEW o \in DiffType, NEW d \in DiffType, t = 0,
           Prepared(t, C, idx[f], o, f), o.removed[f] # 0,
           d.updated = o.updated, d.added = o.added, d.removed[f] = o.removed[f] - 1
    PROVE  Prepared(t, C, LeftOf(f, idx[f]), d, f)
<1> DEFINE n == Len(idx[f])
           m == Len(RemoveEntry(idx[f]))
<1>1. n \in Nat /\ m = (IF idx[f] = <<>> THEN 0 ELSE n - 1)
  BY SoundEntries, RemoveSound
<1>2. o.removed[f] \in Nat /\ d.removed[f] = o.removed[f] - 1
  BY DEF DiffType
<1>3. /\ f \in Misnamed \/ n <= o.removed[f]
      /\ d.updated[f] = 0 /\ f \notin d.added
  BY DEF Prepared
<1> HIDE DEF n, m
<1>4. f \in Misnamed \/ m <= d.removed[f]
  BY <1>1, <1>2, <1>3
<1> QED BY <1>3, <1>4 DEF Prepared, LeftOf, m

LEMMA RemoveSpares ==
    ASSUME NEW idx \in SoundIndex, NEW f \in Files, NEW t, NEW C, NEW o \in DiffType,
           t = 0, Prepared(t, C, idx[f], o, f)
    PROVE  Prepared(t, C, LeftOf(f, idx[f]), o, f)
<1> DEFINE n == Len(idx[f])
           m == Len(RemoveEntry(idx[f]))
<1>1. n \in Nat /\ m = (IF idx[f] = <<>> THEN 0 ELSE n - 1) /\ o.removed[f] \in Nat
  BY SoundEntries, RemoveSound DEF DiffType
<1>2. /\ f \in Misnamed \/ n <= o.removed[f]
      /\ o.updated[f] = 0 /\ f \notin o.added
  BY DEF Prepared
<1> HIDE DEF n, m
<1>3. f \in Misnamed \/ m <= o.removed[f]
  BY <1>1, <1>2
<1> QED BY <1>2, <1>3 DEF Prepared, LeftOf, m

LEMMA UpdatePrepares ==
    ASSUME NEW idx \in SoundIndex, NEW f \in Files, NEW t \in 1..MaxTime, NEW C,
           NEW o \in DiffType, NEW d \in DiffType, Prepared(t, C, idx[f], o, f),
           d.removed = o.removed, d.added = o.added
    PROVE  Prepared(t, C, UpdateEntry(idx[f], t), d, f)
<1>1. /\ idx[f] = <<>> => UpdateEntry(idx[f], t) = <<>>
      /\ idx[f] # <<>> => UpdateEntry(idx[f], t) # <<>> /\ Head(UpdateEntry(idx[f], t)) = t
  BY UpdateSound
<1>2. t # 0
  OBVIOUS
<1> QED BY <1>1, <1>2 DEF Prepared

LEMMA AddPrepares ==
    ASSUME NEW idx \in SoundIndex, NEW f \in Files, NEW t \in 1..MaxTime, NEW C,
           ExternalCache => idx[f] = <<>>,
           NEW o \in DiffType, NEW d \in DiffType, Prepared(t, C, idx[f], o, f),
           d.removed = o.removed, d.updated = o.updated,
           d.added = o.added \/ o.updated[f] = 0
    PROVE  Prepared(t, C, AddEntry(idx[f], t), d, f)
<1>1. /\ AddEntry(idx[f], t) # <<>>
      /\ Head(AddEntry(idx[f], t)) = IF idx[f] = <<>> THEN t ELSE Head(idx[f])
  BY AddSound
<1>2. t # 0
  OBVIOUS
<1> QED BY <1>1, <1>2 DEF Prepared

\* Outside f nothing changes.
LEMMA PreparedSame ==
    ASSUME NEW s, NEW g, NEW t, NEW C, NEW o, NEW d, Prepared(t, C, s, o, g),
           d.removed[g] = o.removed[g], d.updated[g] = o.updated[g],
           g \in d.added <=> g \in o.added
    PROVE  Prepared(t, C, s, d, g)
BY DEF Prepared

\* A diff, when it is made.
LEMMA ComparePrepares ==
    ASSUME NEW idx \in SoundIndex, NEW list \in Listing, NEW f \in Files, NEW C
    PROVE  Prepared(list[f], C, idx[f], ObjectSliceDiff(idx, list), f)
<1> DEFINE d == ObjectSliceDiff(idx, list)
<1>1. /\ d.removed[f] = (IF list[f] = 0 THEN Len(idx[f]) ELSE 0)
      /\ f \in d.added <=> list[f] # 0 /\ idx[f] = <<>>
      /\ list[f] = 0 => d.updated[f] = 0
  BY DEF ObjectSliceDiff
<1>2. list[f] # 0 => (d.updated[f] = 0 <=> \A i \in 1..Len(idx[f]) : idx[f][i] = list[f])
  BY DiffTyped
<1>3. idx[f] \in Seq(1..MaxTime) /\ Len(idx[f]) \in Nat
  BY SoundEntries
<1>4. idx[f] # <<>> => 1 \in 1..Len(idx[f]) /\ Head(idx[f]) = idx[f][1]
  BY <1>3
<1> HIDE DEF d
<1>5. CASE list[f] = 0
  BY <1>1, <1>3, <1>5 DEF Prepared, d
<1>6. CASE list[f] # 0 /\ idx[f] = <<>>
  BY <1>1, <1>6 DEF Prepared, d
<1>7. CASE list[f] # 0 /\ idx[f] # <<>>
  BY <1>1, <1>2, <1>4, <1>7 DEF Prepared, d
<1> QED BY <1>5, <1>6, <1>7

\* Nothing is left to do: the entries are right.
LEMMA PreparedShows ==
    ASSUME World, NEW idx \in SoundIndex, NEW f \in Files, ~Skipped(f),
           Prepared(storage[f], charts, idx[f], NoDiff, f)
    PROVE  Shows(idx, f)
<1>1. NoDiff.removed[f] = 0 /\ NoDiff.updated[f] = 0 /\ f \notin NoDiff.added
  BY DEF NoDiff, NoListing
<1>2. idx[f] \in Seq(1..MaxTime) /\ (Len(idx[f]) <= 0 => idx[f] = <<>>)
  BY SoundEntries
<1>3. storage[f] = 0 => ~IsChart(f)
  BY ConstantsAssumption DEF World, IsChart
<1> QED BY <1>1, <1>2, <1>3 DEF Prepared, Shows, Skipped, IsChart

----------------------------------------------------------------------------
\* Steps that leave alone what the requests regenerate.
LEMMA WorkKept ==
    ASSUME DiffRight, WorkedRight, SteadyKept,
           \A q \in Requests : pc'[q] \in {"regenerate", "working", "worked"} =>
               /\ pc'[q] \in {"regenerate", "working"} =>
                      pc[q] \in {"regenerate", "working"} /\ diff'[q] = diff[q]
               /\ pc'[q] = "worked" => pc[q] = "worked"
               /\ EntryOf(q)' = EntryOf(q)
    PROVE  DiffRight' /\ WorkedRight'
<1>1. DiffRight'
  <2> SUFFICES ASSUME NEW q \in Requests, pc'[q] \in {"regenerate", "working"},
                      NEW f \in Files, Steady(f)'
               PROVE  Prepared(storage'[f], charts', EntryOf(q)'.index[f], diff'[q], f)
    BY DEF DiffRight, Prepared
  <2>1. /\ pc[q] \in {"regenerate", "working"} /\ diff'[q] = diff[q]
        /\ EntryOf(q)' = EntryOf(q)
    OBVIOUS
  <2>2. /\ Steady(f) /\ storage'[f] = storage[f]
        /\ <<f, storage[f]>> \in charts' <=> <<f, storage[f]>> \in charts
    BY DEF SteadyKept
  <2>3. Prepared(storage[f], charts, EntryOf(q).index[f], diff[q], f)
    BY <2>1, <2>2 DEF DiffRight
  <2> QED BY <2>1, <2>2, <2>3 DEF Prepared
<1>2. WorkedRight'
  <2> SUFFICES ASSUME NEW q \in Requests, pc'[q] = "worked", NEW f \in Files,
                      Steady(f)', ~Skipped(f)'
               PROVE  Shows(EntryOf(q).raw, f)'
    BY DEF WorkedRight
  <2>1. pc[q] = "worked" /\ EntryOf(q)' = EntryOf(q)
    OBVIOUS
  <2>2. /\ Steady(f) /\ storage'[f] = storage[f]
        /\ <<f, storage[f]>> \in charts' <=> <<f, storage[f]>> \in charts
    BY DEF SteadyKept
  <2> QED BY <2>1, <2>2 DEF WorkedRight, Shows, Skipped, IsChart
<1> QED BY <1>1, <1>2

\* The worker r changes the entries of f to s.
LEMMA WorksRight ==
    ASSUME SharingInv, TypesInv, DiffRight, WorkedRight,
           UNCHANGED <<pc, storage, charts, changedAt, busySince>>,
           NEW r \in Requests, NEW f \in Files, NEW s, NEW d \in DiffType,
           pc[r] = "working", EntryOf(r) \in SoundEntry, Works(r, f, s, d),
           Steady(f) => Prepared(storage[f], charts, s, d, f),
           Steady(f) => \A o \in DiffType :
                            Prepared(storage[f], charts, EntryOf(r).index[f], o, f)
                                => Prepared(storage[f], charts, s, o, f),
           \A g \in Files : g # f =>
               /\ d.removed[g] = diff[r].removed[g] /\ d.updated[g] = diff[r].updated[g]
               /\ g \in d.added <=> g \in diff[r].added
    PROVE  DiffRight' /\ WorkedRight'
<1> DEFINE i == [EntryOf(r).index EXCEPT ![f] = s]
           e == [EntryOf(r) EXCEPT !.index = i]
<1>1. /\ i \in SoundIndex /\ SetEntry(r, e) /\ diff' = [diff EXCEPT ![r] = d]
  BY DEF Works
<1>2. \A g \in Files : i[g] = IF g = f THEN s ELSE EntryOf(r).index[g]
  BY DEF SoundEntry, SoundIndex, Index
<1> HIDE DEF i
<1>3. e \in SoundEntry /\ e.index = i /\ e.raw = EntryOf(r).raw
  BY <1>1, EntryChanges
<1> HIDE DEF e
<1>4. \A q \in Requests : EntryOf(q)' = IF q = r \/ ~ExternalCache THEN e ELSE EntryOf(q)
  BY <1>1, <1>3, SetEntryFacts DEF TypesInv
<1>5. ~ExternalCache => \A q \in Requests : EntryOf(q) = EntryOf(r)
  BY DEF EntryOf
<1>6. diff \in [Requests -> DiffType]
  BY DEF TypesInv, RequestTypes, DiffType
<1>7. \A g \in Files : Steady(g)' = Steady(g)
  BY DEF Steady
<1>8. DiffRight'
  <2> SUFFICES ASSUME NEW q \in Requests, pc[q] \in {"regenerate", "working"},
                      NEW g \in Files, Steady(g)
               PROVE  Prepared(storage[g], charts, EntryOf(q)'.index[g], diff'[q], g)
    BY <1>7 DEF DiffRight, Prepared
  <2>1. Prepared(storage[g], charts, EntryOf(q).index[g], diff[q], g)
    BY DEF DiffRight
  <2>2. Prepared(storage[g], charts, EntryOf(r).index[g], diff[r], g)
    BY DEF DiffRight
  <2>3. CASE q = r
    <3>1. EntryOf(q)'.index = i /\ diff'[q] = d
      BY <1>1, <1>3, <1>4, <1>6, <2>3
    <3>2. CASE g = f
      BY <1>2, <3>1, <3>2
    <3>3. CASE g # f
      <4>1. Prepared(storage[g], charts, EntryOf(r).index[g], d, g)
        BY <2>2, <3>3, PreparedSame
      <4> QED BY <1>2, <3>1, <3>3, <4>1
    <3> QED BY <3>2, <3>3
  <2>4. CASE q # r /\ ExternalCache
    <3>1. EntryOf(q)' = EntryOf(q) /\ diff'[q] = diff[q]
      BY <1>1, <1>4, <1>6, <2>4
    <3> QED BY <2>1, <3>1
  <2>5. CASE q # r /\ ~ExternalCache
    <3>1. /\ EntryOf(q)'.index = i /\ diff'[q] = diff[q] /\ diff[q] \in DiffType
          /\ EntryOf(q) = EntryOf(r)
      BY <1>1, <1>3, <1>4, <1>5, <1>6, <2>5
    <3>2. CASE g = f
      BY <1>2, <2>1, <3>1, <3>2
    <3>3. CASE g # f
      BY <1>2, <2>1, <3>1, <3>3
    <3> QED BY <3>2, <3>3
  <2> QED BY <2>3, <2>4, <2>5
<1>9. WorkedRight'
  <2> SUFFICES ASSUME NEW q \in Requests, pc[q] = "worked", NEW g \in Files,
                      Steady(g), ~Skipped(g)
               PROVE  Shows(EntryOf(q).raw, g)'
    BY <1>7 DEF WorkedRight, Skipped, IsChart
  <2>1. EntryOf(q)'.raw = EntryOf(q).raw
    BY <1>3, <1>4, <1>5
  <2> QED BY <2>1 DEF WorkedRight, Shows, IsChart
<1> QED BY <1>8, <1>9

\* The work on f fails, or finds that f is not a chart: no entry changes.
LEMMA SkipsRight ==
    ASSUME SharingInv, TypesInv, DiffRight, WorkedRight,
           UNCHANGED <<cache, mine, storage, charts, changedAt, busySince>>,
           NEW r \in Requests, NEW f \in Files, NEW d \in DiffType,
           pc[r] = "working", pc' = pc \/ pc' = [pc EXCEPT ![r] = "workFailed"],
           diff' = [diff EXCEPT ![r] = d],
           pc'[r] = "workFailed" \/ ~IsChart(f),
           Steady(f) => (storage[f] # 0 /\ d.removed[f] = 0) \/ pc'[r] = "workFailed",
           \A g \in Files : g # f =>
               /\ d.removed[g] = diff[r].removed[g] /\ d.updated[g] = diff[r].updated[g]
               /\ g \in d.added <=> g \in diff[r].added
    PROVE  DiffRight' /\ WorkedRight'
<1>1. /\ pc \in [Requests -> Places] /\ diff \in [Requests -> DiffType]
  BY DEF SharingInv, TypesInv, RequestTypes, DiffType
<1>2. /\ \A g \in Files : Steady(g)' = Steady(g)
      /\ \A q \in Requests : EntryOf(q)' = EntryOf(q)
  BY DEF Steady, EntryOf
<1>3. DiffRight'
  <2> SUFFICES ASSUME NEW q \in Requests, pc'[q] \in {"regenerate", "working"},
                      NEW g \in Files, Steady(g)
               PROVE  Prepared(storage[g], charts, EntryOf(q).index[g], diff'[q], g)
    BY <1>2 DEF DiffRight, Prepared
  <2>1. pc[q] \in {"regenerate", "working"} /\ (q = r => pc'[r] # "workFailed")
    BY <1>1
  <2>2. Prepared(storage[g], charts, EntryOf(q).index[g], diff[q], g)
    BY <2>1 DEF DiffRight
  <2>3. CASE q # r
    <3>1. diff'[q] = diff[q]
      BY <1>1, <2>3
    <3> QED BY <2>2, <3>1
  <2>4. CASE q = r /\ g # f
    <3>1. diff'[q] = d
      BY <1>1, <2>4
    <3> QED BY <2>2, <2>4, <3>1, PreparedSame
  <2>5. CASE q = r /\ g = f
    <3>1. diff'[q] = d /\ ~IsChart(f) /\ storage[f] # 0 /\ d.removed[f] = 0
      BY <1>1, <2>1, <2>5
    <3> QED BY <2>5, <3>1 DEF Prepared, IsChart
  <2> QED BY <2>3, <2>4, <2>5
<1>4. WorkedRight'
  <2> SUFFICES ASSUME NEW q \in Requests, pc'[q] = "worked", NEW g \in Files,
                      Steady(g), ~Skipped(g)
               PROVE  Shows(EntryOf(q).raw, g)'
    BY <1>2 DEF WorkedRight, Skipped, IsChart
  <2>1. pc[q] = "worked" /\ EntryOf(q)' = EntryOf(q)
    BY <1>1, <1>2
  <2> QED BY <2>1 DEF WorkedRight, Shows, IsChart
<1> QED BY <1>3, <1>4

LEMMA RemoveRight ==
    ASSUME SharingInv, TypesInv, DiffRight, WorkedRight, NEW r \in Requests, NEW f \in Files,
           RemoveIndexObject(r, f)
    PROVE  DiffRight' /\ WorkedRight'
<1> DEFINE idx == EntryOf(r).index
<1>1. /\ pc[r] = "working" /\ EntryOf(r) \in SoundEntry /\ idx \in SoundIndex
      /\ diff[r] \in DiffType /\ UNCHANGED <<storage, charts, changedAt, busySince>>
  BY WorkFrame
<1>2. PICK d \in DiffType :
          /\ pc' = pc
          /\ Works(r, f, LeftOf(f, idx[f]), d)
          /\ d.updated = diff[r].updated /\ d.added = diff[r].added
          /\ d.removed[f] = diff[r].removed[f] - 1
          /\ \A g \in Files : g # f => d.removed[g] = diff[r].removed[g]
  BY RemoveWorks
<1>3. diff[r].removed[f] # 0
  BY DEF RemoveIndexObject
<1>4. Steady(f) => Prepared(storage[f], charts, idx[f], diff[r], f)
  BY <1>1 DEF DiffRight
<1>5. Steady(f) => storage[f] = 0
  BY <1>3, <1>4 DEF Prepared
<1> HIDE DEF idx
<1>6. Steady(f) => Prepared(storage[f], charts, LeftOf(f, idx[f]), d, f)
  BY <1>1, <1>2, <1>3, <1>4, <1>5, RemovePrepares
<1>7. Steady(f) => \A o \in DiffType :
          Prepared(storage[f], charts, idx[f], o, f)
              => Prepared(storage[f], charts, LeftOf(f, idx[f]), o, f)
  BY <1>1, <1>5, RemoveSpares
<1> QED BY <1>1, <1>2, <1>6, <1>7, WorksRight DEF idx

LEMMA UpdateRight ==
    ASSUME SharingInv, TypesInv, DiffRight, WorkedRight, NEW r \in Requests, NEW f \in Files,
           NEW ok \in BOOLEAN, UpdateIndexObject(r, f, ok)
    PROVE  DiffRight' /\ WorkedRight'
<1> DEFINE idx == EntryOf(r).index
<1>1. /\ pc[r] = "working" /\ EntryOf(r) \in SoundEntry /\ idx \in SoundIndex
      /\ diff[r] \in DiffType /\ UNCHANGED <<storage, charts, changedAt, busySince>>
      /\ pc' = pc \/ pc' = [pc EXCEPT ![r] = "workFailed"]
  BY WorkFrame
<1>2. PICK d \in DiffType :
          /\ \/ /\ pc' = pc /\ storage[f] \in 1..MaxTime /\ IsChart(f)
                /\ Works(r, f, UpdateEntry(idx[f], storage[f]), d)
             \/ /\ pc'[r] = "workFailed" \/ ~IsChart(f)
                /\ diff' = [diff EXCEPT ![r] = d] /\ UNCHANGED <<cache, mine>>
          /\ d.removed = diff[r].removed /\ d.added = diff[r].added
          /\ d.updated[f] = diff[r].updated[f] - 1
          /\ \A g \in Files : g # f => d.updated[g] = diff[r].updated[g]
  BY UpdateWorks
<1>3. diff[r].updated[f] # 0
  BY DEF UpdateIndexObject
<1>4. Steady(f) => Prepared(storage[f], charts, idx[f], diff[r], f)
  BY <1>1 DEF DiffRight
<1>5. Steady(f) => storage[f] # 0 /\ d.removed[f] = 0
  BY <1>2, <1>3, <1>4 DEF Prepared
<1> HIDE DEF idx
<1>6. CASE /\ pc' = pc /\ storage[f] \in 1..MaxTime /\ IsChart(f)
           /\ Works(r, f, UpdateEntry(idx[f], storage[f]), d)
  <2>1. Steady(f) => Prepared(storage[f], charts, UpdateEntry(idx[f], storage[f]), d, f)
    BY <1>1, <1>2, <1>4, <1>6, UpdatePrepares
  <2>2. Steady(f) => \A o \in DiffType :
            Prepared(storage[f], charts, idx[f], o, f)
                => Prepared(storage[f], charts, UpdateEntry(idx[f], storage[f]), o, f)
    BY <1>1, <1>6, UpdatePrepares
  <2> QED BY <1>1, <1>2, <1>6, <2>1, <2>2, WorksRight DEF idx
<1>7. CASE /\ pc'[r] = "workFailed" \/ ~IsChart(f)
           /\ diff' = [diff EXCEPT ![r] = d] /\ UNCHANGED <<cache, mine>>
  BY <1>1, <1>2, <1>5, <1>7, SkipsRight
<1> QED BY <1>2, <1>6, <1>7

LEMMA AddRight ==
    ASSUME SharingInv, TypesInv, DiffRight, WorkedRight, NEW r \in Requests, NEW f \in Files,
           NEW ok \in BOOLEAN, AddIndexObject(r, f, ok)
    PROVE  DiffRight' /\ WorkedRight'
<1> DEFINE idx == EntryOf(r).index
<1>1. /\ pc[r] = "working" /\ EntryOf(r) \in SoundEntry /\ idx \in SoundIndex
      /\ diff[r] \in DiffType /\ UNCHANGED <<storage, charts, changedAt, busySince>>
      /\ pc' = pc \/ pc' = [pc EXCEPT ![r] = "workFailed"]
  BY WorkFrame
<1>2. PICK d \in DiffType :
          /\ \/ /\ pc' = pc /\ storage[f] \in 1..MaxTime /\ IsChart(f)
                /\ ExternalCache => idx[f] = <<>>
                /\ Works(r, f, AddEntry(idx[f], storage[f]), d)
             \/ /\ pc'[r] = "workFailed" \/ ~IsChart(f)
                /\ diff' = [diff EXCEPT ![r] = d] /\ UNCHANGED <<cache, mine>>
          /\ d.removed = diff[r].removed /\ d.updated = diff[r].updated
          /\ d.added = diff[r].added \ {f} /\ f \in diff[r].added
  BY AddWorks
<1>3. diff[r].updated[f] = 0
  BY DEF AddIndexObject, NoListing
<1>4. Steady(f) => Prepared(storage[f], charts, idx[f], diff[r], f)
  BY <1>1 DEF DiffRight
<1>5. Steady(f) => storage[f] # 0 /\ d.removed[f] = 0
  BY <1>2, <1>4 DEF Prepared
<1> HIDE DEF idx
<1>6. CASE /\ pc' = pc /\ storage[f] \in 1..MaxTime /\ IsChart(f)
           /\ ExternalCache => idx[f] = <<>>
           /\ Works(r, f, AddEntry(idx[f], storage[f]), d)
  <2>1. Steady(f) => Prepared(storage[f], charts, AddEntry(idx[f], storage[f]), d, f)
    BY <1>1, <1>2, <1>3, <1>4, <1>6, AddPrepares
  <2>2. Steady(f) => \A o \in DiffType :
            Prepared(storage[f], charts, idx[f], o, f)
                => Prepared(storage[f], charts, AddEntry(idx[f], storage[f]), o, f)
    BY <1>1, <1>6, AddPrepares
  <2> QED BY <1>1, <1>2, <1>6, <2>1, <2>2, WorksRight DEF idx
<1>7. CASE /\ pc'[r] = "workFailed" \/ ~IsChart(f)
           /\ diff' = [diff EXCEPT ![r] = d] /\ UNCHANGED <<cache, mine>>
  BY <1>1, <1>2, <1>5, <1>7, SkipsRight
<1> QED BY <1>2, <1>6, <1>7

\* The regeneration ends with nothing left to do.
LEMMA SaveRight ==
    ASSUME SharingInv, TypesInv, DiffRight, WorkedRight, NEW r \in Requests,
           NEW ok \in BOOLEAN, SaveCacheEntry(r, ok)
    PROVE  DiffRight' /\ WorkedRight'
<1> DEFINE e == Regenerate(EntryOf(r))
<1>0. /\ pc \in [Requests -> Places] /\ mine \in [Requests -> SoundEntry \cup {NoEntry}]
  BY DEF SharingInv, TypesInv, Held
<1>1. /\ pc[r] = "working" /\ pc' = [pc EXCEPT ![r] = "worked"]
      /\ diff[r] = NoDiff /\ diff' = diff
      /\ UNCHANGED <<storage, charts, changedAt, busySince>>
  BY DEF SaveCacheEntry, Goto, worldVars
<1>2. EntryOf(r) \in SoundEntry
  BY <1>1 DEF TypesInv, Held, Holding
<1>3. EntryOf(r).index \in SoundIndex /\ e.raw = EntryOf(r).index /\ e.index = EntryOf(r).index
  BY <1>2, EntryChanges, EmptySound
<1>4. IF ExternalCache THEN mine' = [mine EXCEPT ![r] = e] ELSE mine' = mine /\ cache' = e
  BY DEF SaveCacheEntry
<1> HIDE DEF e
<1>5. /\ EntryOf(r)' = e
      /\ \A q \in Requests : q # r /\ ExternalCache => EntryOf(q)' = EntryOf(q)
      /\ ~ExternalCache => \A q \in Requests : EntryOf(q)' = e /\ EntryOf(q) = EntryOf(r)
  BY <1>0, <1>4 DEF EntryOf
<1>6. \A g \in Files : Steady(g)' = Steady(g)
  BY <1>1 DEF Steady
<1>7. DiffRight'
  <2> SUFFICES ASSUME NEW q \in Requests, pc'[q] \in {"regenerate", "working"},
                      NEW g \in Files, Steady(g)
               PROVE  Prepared(storage[g], charts, EntryOf(q)'.index[g], diff[q], g)
    BY <1>1, <1>6 DEF DiffRight, Prepared
  <2>1. q # r /\ pc[q] \in {"regenerate", "working"}
    BY <1>0, <1>1
  <2>2. EntryOf(q)'.index = EntryOf(q).index
    BY <1>3, <1>5, <2>1
  <2>3. Prepared(storage[g], charts, EntryOf(q).index[g], diff[q], g)
    BY <2>1 DEF DiffRight
  <2> QED BY <2>2, <2>3
<1>8. WorkedRight'
  <2> SUFFICES ASSUME NEW q \in Requests, pc'[q] = "worked", NEW g \in Files,
                      Steady(g), ~Skipped(g)
               PROVE  Shows(EntryOf(q).raw, g)'
    BY <1>1, <1>6 DEF WorkedRight, Skipped, IsChart
  <2>1. q = r
    <3>1. r \in Workers /\ (q # r => q \in Workers)
      BY <1>0, <1>1 DEF Workers
    <3> QED BY <3>1 DEF SharingInv, OneRegeneration
  <2>2. Prepared(storage[g], charts, EntryOf(r).index[g], NoDiff, g)
    BY <1>1 DEF DiffRight
  <2>3. Shows(EntryOf(r).index, g)
    BY <1>3, <2>2, PreparedShows DEF TypesInv
  <2>4. EntryOf(q)'.raw = EntryOf(r).index
    BY <1>3, <1>5, <2>1
  <2> QED BY <1>1, <2>3, <2>4 DEF Shows, IsChart
<1> QED BY <1>7, <1>8

LEMMA WorkStep ==
    ASSUME SharingInv, TypesInv, ListedRight, DiffRight, WorkedRight, [Next]_vars
    PROVE  DiffRight' /\ WorkedRight'
<1>0. /\ pc \in [Requests -> Places] /\ mine \in [Requests -> SoundEntry \cup {NoEntry}]
      /\ diff \in [Requests -> DiffType] /\ listed \in [Requests -> Listing]
  BY DEF SharingInv, TypesInv, Held, RequestTypes, DiffType
<1>1. CASE \A q \in Requests : pc'[q] \in {"idle", "init"}
  BY <1>1 DEF DiffRight, WorkedRight
<1>2. CASE SteadyKept
  <2>1. ASSUME NEW f \in Files, PutsObject(f) \/ DeleteObject(f)
        PROVE  DiffRight' /\ WorkedRight'
    BY <1>2, <2>1, WorkKept DEF PutsObject, PutObject, DeleteObject, Change, requestVars, cacheVars,
        EntryOf
  <2>2. ASSUME NEW r \in Requests, NEW ok \in BOOLEAN,
               \/ GetIndexFile(r) \/ GetChartList(r) \/ FetchChartsInStorage(r, ok)
               \/ RegenerateRepositoryIndex(r)
        PROVE  DiffRight' /\ WorkedRight'
    <3>1. UNCHANGED <<cache, mine, diff>>
      BY <2>2 DEF GetIndexFile, GetChartList, FetchChartsInStorage,
          RegenerateRepositoryIndex, cacheVars
    <3>2. PICK from, to \in Places :
              /\ Goto(r, from, to) /\ to # "worked"
              /\ to \in {"regenerate", "working"} => from = "regenerate"
      BY <2>2 DEF GetIndexFile, GetChartList, FetchChartsInStorage,
          RegenerateRepositoryIndex, Places
    <3>3. \A q \in Requests : EntryOf(q)' = EntryOf(q) /\ diff'[q] = diff[q]
      BY <3>1 DEF EntryOf
    <3>4. \A q \in Requests :
              /\ pc'[q] \in {"regenerate", "working"} => pc[q] \in {"regenerate", "working"}
              /\ pc'[q] = "worked" => pc[q] = "worked"
      BY <1>0, <3>2 DEF Goto
    <3> QED BY <1>2, <3>3, <3>4, WorkKept
  <2>3. ASSUME NEW r \in Requests, NEW ok \in BOOLEAN, NEW saved \in BOOLEAN,
               \/ InitInternal(r, ok) \/ InitExternal(r, ok) \/ InitStore(r, ok, saved)
        PROVE  DiffRight' /\ WorkedRight'
    <3>1. diff' = diff /\ \A q \in Requests : q # r => pc'[q] = pc[q] /\ mine'[q] = mine[q]
      BY <1>0, <2>3 DEF InitInternal, InitExternal, InitStore, Goto
    <3>2. pc'[r] \in {"getList", "initStore"}
      BY <1>0, <2>3 DEF InitInternal, InitExternal, InitStore, Goto
    <3>3. ASSUME NEW q \in Requests, q # r, pc[q] \in Holding PROVE EntryOf(q)' = EntryOf(q)
      <4>1. CASE ExternalCache
        BY <3>1, <3>3, <4>1 DEF EntryOf
      <4>2. CASE ~ExternalCache
        <5>1. cache \in SoundEntry
          BY <3>3, <4>2 DEF TypesInv, Held, EntryOf
        <5>2. cache # NoEntry
          BY <5>1, NoEntryNotSound
        <5>3. pc[r] # "initStore"
          BY <4>2 DEF TypesInv, Held
        <5>4. cache' = cache
          BY <2>3, <4>2, <5>2, <5>3 DEF InitInternal, InitExternal, InitStore, Goto
        <5> QED BY <4>2, <5>4 DEF EntryOf
      <4> QED BY <4>1, <4>2
    <3> QED BY <1>2, <3>1, <3>2, <3>3, WorkKept DEF Holding
  <2>4. ASSUME NEW R, NEW from, NEW raw, Answer(R, from, raw), cache' = cache
        PROVE  DiffRight' /\ WorkedRight'
    BY <1>2, <2>4, WorkKept DEF Answer, EntryOf
  <2>5. ASSUME NEW r \in Requests, FlushChartList(r) PROVE DiffRight' /\ WorkedRight'
    <3>1. cache' = cache
      BY <2>5 DEF FlushChartList, cacheVars
    <3>2. CASE pc[r] = "fetchFailed"
      BY <2>4, <2>5, <3>1, <3>2 DEF FlushChartList
    <3>3. CASE pc[r] # "fetchFailed"
      <4>1. /\ pc' = [q \in Requests |-> IF q \in fetchChans THEN "compare" ELSE pc[q]]
            /\ UNCHANGED <<mine, diff>>
        BY <2>5, <3>3 DEF FlushChartList
      <4> QED BY <1>2, <3>1, <4>1, WorkKept DEF EntryOf
    <3> QED BY <3>2, <3>3
  <2>6. ASSUME NEW r \in Requests, CompareWithStorage(r) PROVE DiffRight' /\ WorkedRight'
    <3> DEFINE d == ObjectSliceDiff(EntryOf(r).index, listed[r])
    <3>1. cache' = cache /\ pc[r] = "compare" /\ UNCHANGED <<storage, charts, changedAt, busySince>>
      BY <2>6 DEF CompareWithStorage, cacheVars, worldVars
    <3>2. CASE d = NoDiff
      BY <2>4, <2>6, <3>1, <3>2 DEF CompareWithStorage
    <3>3. CASE d # NoDiff
      <4>1. /\ pc' = [pc EXCEPT ![r] = "regenerate"] /\ mine' = mine
            /\ diff' = [diff EXCEPT ![r] = d]
        BY <2>6, <3>3 DEF CompareWithStorage, Goto
      <4>2. /\ \A q \in Requests : EntryOf(q)' = EntryOf(q)
            /\ \A g \in Files : Steady(g)' = Steady(g)
        BY <3>1, <4>1 DEF EntryOf, Steady
      <4>3. EntryOf(r).index \in SoundIndex
        BY <3>1 DEF TypesInv, Held, Holding, SoundEntry
      <4>4. \A f \in Files : Prepared(listed[r][f], charts, EntryOf(r).index[f], d, f)
        BY <1>0, <4>3, ComparePrepares
      <4>5. \A f \in Files : Steady(f) => listed[r][f] = storage[f]
        BY <3>1 DEF ListedRight
      <4> HIDE DEF d
      <4>6. DiffRight'
        <5> SUFFICES ASSUME NEW q \in Requests, pc'[q] \in {"regenerate", "working"},
                            NEW f \in Files, Steady(f)
                     PROVE  Prepared(storage[f], charts, EntryOf(q).index[f], diff'[q], f)
          BY <3>1, <4>2 DEF DiffRight, Prepared
        <5>1. CASE q = r
          <6>1. diff'[q] = d
            BY <1>0, <4>1, <5>1
          <6>2. Prepared(storage[f], charts, EntryOf(r).index[f], d, f)
            BY <4>4, <4>5
          <6> QED BY <5>1, <6>1, <6>2
        <5>2. CASE q # r
          <6>1. diff'[q] = diff[q] /\ pc[q] \in {"regenerate", "working"}
            BY <1>0, <4>1, <5>2
          <6> QED BY <6>1 DEF DiffRight
        <5> QED BY <5>1, <5>2
      <4>7. WorkedRight'
        <5> SUFFICES ASSUME NEW q \in Requests, pc'[q] = "worked", NEW g \in Files,
                            Steady(g), ~Skipped(g)
                     PROVE  Shows(EntryOf(q).raw, g)'
          BY <3>1, <4>2 DEF WorkedRight, Skipped, IsChart
        <5>1. pc[q] = "worked"
          BY <1>0, <4>1
        <5> QED BY <3>1, <4>2, <5>1 DEF WorkedRight, Shows, IsChart
      <4> QED BY <4>6, <4>7
    <3> QED BY <3>2, <3>3
  <2>7. ASSUME NEW r \in Requests, FlushIndex(r) PROVE DiffRight' /\ WorkedRight'
    BY <2>4, <2>7 DEF FlushIndex, cacheVars
  <2>8. ASSUME NEW idx, NEW ok \in BOOLEAN, SaveStatefile(idx, ok)
        PROVE  DiffRight' /\ WorkedRight'
    BY <1>2, <2>8, WorkKept DEF SaveStatefile, requestVars, cacheVars, EntryOf
  <2>9. ASSUME NEW file, Restart(file) PROVE DiffRight' /\ WorkedRight'
    BY <2>9 DEF Restart, DiffRight, WorkedRight
  <2>10. CASE UNCHANGED vars
    BY <1>2, <2>10, WorkKept DEF vars, requestVars, cacheVars, EntryOf
  <2> QED BY <2>1, <2>2, <2>3, <2>5, <2>6, <2>7, <2>8, <2>9, <2>10,
             RemoveRight, UpdateRight, AddRight, SaveRight
        DEF Next, PutsObject, RequestStep, InitCacheEntry
<1> QED BY <1>1, <1>2, SteadyStep

----------------------------------------------------------------------------
LEMMA RenderedStep ==
    ASSUME SharingInv, TypesInv, Rendered, [Next]_vars
    PROVE  Rendered'
<1> SUFFICES ASSUME ExternalCache PROVE Rendered'
  BY DEF Rendered
<1>0. /\ pc \in [Requests -> Places] /\ mine \in [Requests -> SoundEntry \cup {NoEntry}]
  BY DEF SharingInv, TypesInv, Held
<1>r. /\ cache # NoEntry => cache.raw = cache.index
      /\ \A q \in Requests : pc[q] \in Early => mine[q].raw = mine[q].index
  BY DEF Rendered, Early
<1>s. ASSUME cache' = cache \/ cache'.raw = cache'.index,
             \A q \in Requests : pc'[q] \in Early =>
                 \/ pc[q] \in Early /\ mine'[q] = mine[q]
                 \/ mine'[q].raw = mine'[q].index
      PROVE  Rendered'
  BY <1>r, <1>s DEF Rendered, Early
<1>1. ASSUME NEW f \in Files, PutsObject(f) \/ DeleteObject(f) PROVE Rendered'
  BY <1>s, <1>1 DEF PutsObject, PutObject, DeleteObject, Change, requestVars, cacheVars
<1>2. ASSUME NEW r \in Requests, NEW ok \in BOOLEAN,
             \/ GetIndexFile(r) \/ GetChartList(r) \/ FetchChartsInStorage(r, ok)
             \/ RegenerateRepositoryIndex(r)
      PROVE  Rendered'
  <2>1. UNCHANGED <<cache, mine>>
    BY <1>2 DEF GetIndexFile, GetChartList, FetchChartsInStorage,
        RegenerateRepositoryIndex, cacheVars
  <2>2. PICK from, to \in Places : Goto(r, from, to) /\ (to \in Early => from \in Early)
    BY <1>2 DEF GetIndexFile, GetChartList, FetchChartsInStorage,
        RegenerateRepositoryIndex, Places, Early
  <2>3. \A q \in Requests : pc'[q] \in Early => pc[q] \in Early /\ mine'[q] = mine[q]
    BY <1>0, <2>1, <2>2 DEF Goto
  <2> QED BY <1>s, <2>1, <2>3
<1>3. ASSUME NEW r \in Requests, NEW ok \in BOOLEAN, InitExternal(r, ok) PROVE Rendered'
  <2>1. cache' = cache
    BY <1>3 DEF InitExternal
  <2>2. \/ /\ cache # NoEntry /\ pc' = [pc EXCEPT ![r] = "getList"]
           /\ mine' = [mine EXCEPT ![r] = cache]
        \/ pc' = [pc EXCEPT ![r] = "initStore"] /\ mine' = mine
    BY <1>3 DEF InitExternal, Goto
  <2>3. \A q \in Requests : pc'[q] \in Early =>
            \/ pc[q] \in Early /\ mine'[q] = mine[q]
            \/ mine'[q].raw = mine'[q].index
    BY <1>0, <1>r, <2>2 DEF Early
  <2> QED BY <1>s, <2>1, <2>3
<1>4. ASSUME NEW r \in Requests, NEW ok \in BOOLEAN, NEW saved \in BOOLEAN,
             InitStore(r, ok, saved)
      PROVE  Rendered'
  <2> DEFINE e == NewEntry(ok)
  <2>1. /\ pc' = [pc EXCEPT ![r] = "getList"] /\ mine' = [mine EXCEPT ![r] = e]
        /\ cache' \in {e, cache}
    BY <1>4 DEF InitStore, Goto
  <2>2. e.raw = e.index
    BY NewSound DEF TypesInv
  <2> HIDE DEF e
  <2>3. \A q \in Requests : pc'[q] \in Early =>
            \/ pc[q] \in Early /\ mine'[q] = mine[q]
            \/ mine'[q].raw = mine'[q].index
    BY <1>0, <2>1, <2>2
  <2> QED BY <1>s, <2>1, <2>2, <2>3
<1>5. ASSUME NEW R, NEW from, NEW raw, Answer(R, from, raw), cache' = cache
      PROVE  Rendered'
  BY <1>s, <1>5 DEF Answer, Early
<1>6. ASSUME NEW r \in Requests, FlushChartList(r) PROVE Rendered'
  <2>1. cache' = cache
    BY <1>6 DEF FlushChartList, cacheVars
  <2>2. CASE pc[r] = "fetchFailed"
    BY <1>5, <1>6, <2>1, <2>2 DEF FlushChartList
  <2>3. CASE pc[r] # "fetchFailed"
    <3>1. /\ pc' = [q \in Requests |-> IF q \in fetchChans THEN "compare" ELSE pc[q]]
          /\ mine' = mine
      BY <1>6, <2>3 DEF FlushChartList
    <3>2. \A q \in fetchChans : pc[q] \in Early
      BY DEF SharingInv, OneListing, Fetchers, Early
    <3> QED BY <1>s, <2>1, <3>1, <3>2
  <2> QED BY <2>2, <2>3
<1>7. ASSUME NEW r \in Requests, CompareWithStorage(r) PROVE Rendered'
  <2>1. cache' = cache
    BY <1>7 DEF CompareWithStorage, cacheVars
  <2>2. CASE ObjectSliceDiff(EntryOf(r).index, listed[r]) = NoDiff
    BY <1>5, <1>7, <2>1, <2>2 DEF CompareWithStorage
  <2>3. CASE ObjectSliceDiff(EntryOf(r).index, listed[r]) # NoDiff
    <3>1. pc' = [pc EXCEPT ![r] = "regenerate"] /\ mine' = mine
      BY <1>7, <2>3 DEF CompareWithStorage, Goto
    <3> QED BY <1>0, <1>s, <2>1, <3>1 DEF Early
  <2> QED BY <2>2, <2>3
<1>8. ASSUME NEW r \in Requests, NEW f \in Files, NEW ok \in BOOLEAN,
             \/ RemoveIndexObject(r, f) \/ UpdateIndexObject(r, f, ok)
             \/ AddIndexObject(r, f, ok)
      PROVE  Rendered'
  <2>1. /\ pc[r] = "working"
        /\ pc' = pc \/ pc' = [pc EXCEPT ![r] = "workFailed"]
    BY <1>8, WorkFrame
  <2>2. cache' = cache /\ \A q \in Requests : q # r => mine'[q] = mine[q]
    BY <1>0, <1>8 DEF RemoveIndexObject, UpdateIndexObject, AddIndexObject, SetEntry
  <2>3. \A q \in Requests : pc'[q] \in Early => q # r /\ pc[q] \in Early
    BY <1>0, <2>1 DEF Early
  <2> QED BY <1>s, <2>2, <2>3
<1>9. ASSUME NEW r \in Requests, NEW ok \in BOOLEAN, SaveCacheEntry(r, ok) PROVE Rendered'
  <2> DEFINE e == Regenerate(EntryOf(r))
  <2>1. /\ pc[r] = "working" /\ pc' = [pc EXCEPT ![r] = "worked"]
        /\ mine' = [mine EXCEPT ![r] = e] /\ cache' \in {e, cache}
    BY <1>9 DEF SaveCacheEntry, Goto
  <2>2. EntryOf(r) \in SoundEntry
    BY <2>1 DEF TypesInv, Held, Holding
  <2>3. e.raw = e.index
    BY <2>2, EntryChanges, EmptySound
  <2> HIDE DEF e
  <2>4. \A q \in Requests : pc'[q] \in Early => pc[q] \in Early /\ mine'[q] = mine[q]
    BY <1>0, <2>1 DEF Early
  <2> QED BY <1>s, <2>1, <2>3, <2>4
<1>10. ASSUME NEW r \in Requests, FlushIndex(r) PROVE Rendered'
  BY <1>5, <1>10 DEF FlushIndex, cacheVars
<1>11. ASSUME NEW idx, NEW ok \in BOOLEAN, SaveStatefile(idx, ok) PROVE Rendered'
  BY <1>s, <1>11 DEF SaveStatefile, requestVars, cacheVars
<1>12. ASSUME NEW file, Restart(file) PROVE Rendered'
  BY <1>s, <1>12 DEF Restart, Early
<1>13. CASE UNCHANGED vars
  BY <1>s, <1>13 DEF vars, requestVars, cacheVars
<1>14. ASSUME NEW r \in Requests, NEW ok \in BOOLEAN, InitInternal(r, ok) PROVE FALSE
  BY <1>14 DEF InitInternal
<1> QED BY <1>1, <1>2, <1>3, <1>4, <1>6, <1>7, <1>8, <1>9, <1>10, <1>11, <1>12, <1>13,
           <1>14 DEF Next, PutsObject, RequestStep, InitCacheEntry

----------------------------------------------------------------------------
\* The answers of a kind in K are timely.
FreshOf(K) == \A r \in Requests : response[r].from \in K => Timely(response[r])

LEMMA FreshKept ==
    ASSUME SharingInv, TypesInv, [Next]_vars, NEW K, FreshOf(K), response' = response
    PROVE  FreshOf(K)'
<1> SUFFICES ASSUME NEW r \in Requests, response[r].from \in K
             PROVE  Timely(response[r])'
  BY DEF FreshOf
<1>1. response[r].since \in 0..clock /\ Timely(response[r])
  BY DEF TypesInv, RequestTypes, ResponseType, FreshOf
<1>2. \A f \in Files : changedAt'[f] <= response[r].since /\ ~Skipped(f)'
                           => Shows(response[r].raw, f)'
  <2> DEFINE resp == response[r]
  <2>1. \A f \in Files : changedAt'[f] <= resp.since /\ ~Skipped(f)'
                             => Shows(resp.raw, f)'
    BY <1>1, TimelyStays
  <2> QED BY <2>1
<1> QED BY <1>2 DEF Timely, Unchanged

\* A request that begins has no answer.
LEMMA FreshBegins ==
    ASSUME SharingInv, TypesInv, NEW K \in SUBSET {"cache", "regeneration"}, FreshOf(K),
           NEW q \in Requests, GetIndexFile(q)
    PROVE  FreshOf(K)'
<1> SUFFICES ASSUME NEW r \in Requests, response'[r].from \in K
             PROVE  \A f \in Files : changedAt[f] <= response'[r].since /\ ~Skipped(f)
                                         => Shows(response'[r].raw, f)
  BY DEF FreshOf, Timely, Unchanged, Skipped, Shows, IsChart, GetIndexFile, worldVars
<1>1. response' = [response EXCEPT ![q] = NoResponse]
  BY DEF GetIndexFile
<1>2. NoResponse.from \notin K
  BY DEF NoResponse
<1>3. response'[r] = response[r]
  BY <1>1, <1>2 DEF TypesInv, RequestTypes
<1> QED BY <1>3 DEF FreshOf, Timely, Unchanged

LEMMA FreshAnswers ==
    ASSUME NEW K, FreshOf(K), NEW R, NEW from, NEW raw, Answer(R, from, raw),
           UNCHANGED <<storage, charts, changedAt>>,
           from \in K => \A f \in Files : Steady(f) /\ ~Skipped(f) => Shows(raw, f)
    PROVE  FreshOf(K)'
<1> SUFFICES ASSUME NEW r \in Requests, response'[r].from \in K
             PROVE  \A f \in Files : changedAt[f] <= response'[r].since /\ ~Skipped(f)
                                         => Shows(response'[r].raw, f)
  BY DEF FreshOf, Timely, Unchanged, Skipped, Shows, IsChart
<1>1. CASE r \in R
  <2>1. /\ response'[r].from = from /\ response'[r].raw = raw
        /\ response'[r].since = busySince
    BY <1>1 DEF Answer
  <2> QED BY <2>1 DEF Steady
<1>2. CASE r \notin R
  <2>1. response'[r] = response[r]
    BY <1>2 DEF Answer
  <2> QED BY <2>1 DEF FreshOf, Timely, Unchanged
<1> QED BY <1>1, <1>2

LEMMA FreshStep ==
    ASSUME SharingInv, TypesInv, ListedRight, DiffRight, WorkedRight, Rendered,
           [Next]_vars, NEW K \in SUBSET {"cache", "regeneration"}, FreshOf(K),
           "cache" \in K => ExternalCache
    PROVE  FreshOf(K)'
<1>0. listed \in [Requests -> Listing]
  BY DEF TypesInv, RequestTypes
<1>1. ASSUME NEW r \in Requests, FlushChartList(r) PROVE FreshOf(K)'
  <2>1. UNCHANGED <<storage, charts, changedAt>>
    BY <1>1 DEF FlushChartList, worldVars
  <2>2. Answer(fetchChans, "error", EmptyIndex) \/ response' = response
    BY <1>1 DEF FlushChartList
  <2> QED BY <2>1, <2>2, FreshAnswers, FreshKept
<1>2. ASSUME NEW r \in Requests, CompareWithStorage(r) PROVE FreshOf(K)'
  <2> DEFINE d == ObjectSliceDiff(EntryOf(r).index, listed[r])
  <2>1. UNCHANGED <<storage, charts, changedAt>> /\ pc[r] = "compare"
    BY <1>2 DEF CompareWithStorage, worldVars
  <2>2. CASE d # NoDiff
    <3>1. response' = response
      BY <1>2, <2>2 DEF CompareWithStorage
    <3> QED BY <3>1, FreshKept
  <2>3. CASE d = NoDiff
    <3>1. Answer({r}, "cache", EntryOf(r).raw)
      BY <1>2, <2>3 DEF CompareWithStorage
    <3>2. ASSUME ExternalCache, NEW f \in Files, Steady(f), ~Skipped(f)
          PROVE  Shows(EntryOf(r).raw, f)
      <4>1. EntryOf(r).raw = EntryOf(r).index
        BY <2>1, <3>2 DEF Rendered, EntryOf, Early
      <4>2. EntryOf(r).index \in SoundIndex
        BY <2>1 DEF TypesInv, Held, Holding, SoundEntry
      <4>3. listed[r][f] = storage[f]
        BY <2>1, <3>2 DEF ListedRight
      <4>4. Prepared(listed[r][f], charts, EntryOf(r).index[f], d, f)
        BY <1>0, <4>2, ComparePrepares
      <4> QED BY <2>3, <3>2, <4>1, <4>2, <4>3, <4>4, PreparedShows DEF TypesInv
    <3> QED BY <2>1, <3>1, <3>2, FreshAnswers
  <2> QED BY <2>2, <2>3
<1>3. ASSUME NEW r \in Requests, FlushIndex(r) PROVE FreshOf(K)'
  <2>1. UNCHANGED <<storage, charts, changedAt>>
    BY <1>3 DEF FlushIndex, worldVars
  <2>2. \/ pc[r] = "worked" /\ Answer(regenChans, "regeneration", EntryOf(r).raw)
        \/ Answer(regenChans, "error", EmptyIndex)
    BY <1>3 DEF FlushIndex
  <2>3. pc[r] = "worked" => \A f \in Files : Steady(f) /\ ~Skipped(f)
                                                   => Shows(EntryOf(r).raw, f)
    BY DEF WorkedRight
  <2> QED BY <2>1, <2>2, <2>3, FreshAnswers
<1>4. ASSUME ~\E r \in Requests : \/ FlushChartList(r) \/ CompareWithStorage(r)
                                     \/ FlushIndex(r) \/ GetIndexFile(r)
      PROVE  response' = response
  <2>1. ASSUME NEW f \in Files, PutsObject(f) \/ DeleteObject(f) PROVE response' = response
    BY <2>1 DEF PutsObject, PutObject, DeleteObject, Change, requestVars
  <2>2. ASSUME NEW r \in Requests, InitCacheEntry(r) PROVE response' = response
    BY <2>2 DEF InitCacheEntry, InitInternal, InitExternal
  <2>3. ASSUME NEW r \in Requests, RequestStep(r) PROVE response' = response
    BY <1>4, <2>3 DEF RequestStep, InitStore, GetChartList, FetchChartsInStorage,
        RegenerateRepositoryIndex, RemoveIndexObject, UpdateIndexObject, AddIndexObject,
        SaveCacheEntry
  <2>4. ASSUME NEW idx, NEW ok, SaveStatefile(idx, ok) PROVE response' = response
    BY <2>4 DEF SaveStatefile, requestVars
  <2>5. ASSUME NEW file, Restart(file) PROVE response' = response
    BY <2>5 DEF Restart
  <2>6. CASE UNCHANGED vars
    BY <2>6 DEF vars, requestVars
  <2> QED BY <1>4, <2>1, <2>2, <2>3, <2>4, <2>5, <2>6 DEF Next, PutsObject
<1> QED BY <1>1, <1>2, <1>3, <1>4, FreshKept, FreshBegins

----------------------------------------------------------------------------
\* Every entry of every index is a chart.

LEMMA ShownMore ==
    ASSUME NEW idx, NEW C, NEW D, C \subseteq D, Shown(idx, C)
    PROVE  Shown(idx, D)
BY DEF Shown

\* Only PutObject changes charts, by adding to it.
LEMMA ChartsGrow ==
    ASSUME [Next]_vars
    PROVE  charts \subseteq charts'
<1>1. ASSUME NEW f \in Files, PutsObject(f) \/ DeleteObject(f)
      PROVE  charts \subseteq charts'
  BY <1>1 DEF PutsObject, PutObject, DeleteObject, Change
<1> QED BY <1>1, StorageKept

LEMMA NewShown ==
    ASSUME AllCharts, NEW ok \in BOOLEAN
    PROVE  ShownEntry(NewEntry(ok), charts)
<1>1. Shown(EmptyIndex, charts)
  BY DEF Shown, EmptyIndex
<1> QED BY <1>1 DEF AllCharts, NewEntry, ShownEntry

LEMMA TornShown ==
    ASSUME AllCharts, NEW file \in TornStatefiles, file # NoIndex
    PROVE  Shown(file, charts)
<1>1. PICK idx \in savers, S \in SUBSET Files :
          file = [f \in Files |-> IF f \in S THEN idx[f] ELSE <<>>]
  BY DEF TornStatefiles
<1>2. Shown(idx, charts)
  BY DEF AllCharts
<1>3. \A f \in Files : file[f] = idx[f] \/ file[f] = <<>>
  BY <1>1
<1> QED BY <1>2, <1>3 DEF Shown

\* The entries that the worker leaves for f, replaces or adds.
LEMMA WorkShown ==
    ASSUME NEW idx \in SoundIndex, Shown(idx, charts), NEW f \in Files,
           NEW s, [idx EXCEPT ![f] = s] \in SoundIndex,
           \/ s = LeftOf(f, idx[f])
           \/ IsChart(f) /\ s \in {UpdateEntry(idx[f], storage[f]),
                                   AddEntry(idx[f], storage[f])}
    PROVE  Shown([idx EXCEPT ![f] = s], charts)
<1>1. \A g \in Files : [idx EXCEPT ![f] = s][g] = IF g = f THEN s ELSE idx[g]
  BY DEF SoundIndex, Index
<1>2. idx[f] \in Seq(1..MaxTime) /\ Len(idx[f]) \in Nat
  BY SoundEntries
<1>3. \A i \in 1..Len(idx[f]) : <<f, idx[f][i]>> \in charts
  BY DEF Shown
<1>4. \A i \in 1..Len(s) : <<f, s[i]>> \in charts
  <2>1. CASE s = idx[f]
    BY <1>3, <2>1
  <2>2. CASE s = RemoveEntry(idx[f]) /\ idx[f] # <<>>
    <3>1. /\ Len(s) = Len(idx[f]) - 1
          /\ \A i \in 1..Len(s) : s[i] = idx[f][i + 1]
      BY <1>2, <2>2, HeadTailProperties DEF RemoveEntry
    <3>2. \A i \in 1..Len(s) : i + 1 \in 1..Len(idx[f])
      BY <1>2, <3>1
    <3> QED BY <1>3, <3>1, <3>2
  <2>3. CASE /\ s = UpdateEntry(idx[f], storage[f]) /\ idx[f] # <<>>
             /\ IsChart(f)
    <3>1. /\ Len(s) = Len(idx[f])
          /\ \A i \in 1..Len(s) : s[i] = IF i = 1 THEN storage[f] ELSE idx[f][i]
      BY <1>2, <2>3 DEF UpdateEntry
    <3> QED BY <1>3, <2>3, <3>1 DEF IsChart
  <2>4. CASE s = AddEntry(idx[f], storage[f]) /\ IsChart(f)
    <3>1. /\ Len(s) = Len(idx[f]) + 1
          /\ \A i \in 1..Len(s) :
                 s[i] = IF i = Len(idx[f]) + 1 THEN storage[f] ELSE idx[f][i]
      BY <1>2, <2>4 DEF AddEntry
    <3>2. \A i \in 1..Len(s) : i = Len(idx[f]) + 1 \/ i \in 1..Len(idx[f])
      BY <1>2, <3>1
    <3> QED BY <1>3, <2>4, <3>1, <3>2 DEF IsChart
  <2> QED BY <2>1, <2>2, <2>3, <2>4 DEF LeftOf, RemoveEntry, UpdateEntry
<1> QED BY <1>1, <1>3, <1>4 DEF Shown

LEMMA AllChartsStep ==
    ASSUME SharingInv, TypesInv, AllCharts, [Next]_vars
    PROVE  AllCharts'
<1> DEFINE Ok(i) == Shown(i, charts')
           OkEntry(e) == ShownEntry(e, charts')
<1>0. /\ mine \in [Requests -> SoundEntry \cup {NoEntry}]
      /\ pc \in [Requests -> Places]
  BY DEF TypesInv, Held, SharingInv
<1>a. charts \subseteq charts'
  BY ChartsGrow
<1>b. \A i : Shown(i, charts) => Ok(i)
  BY <1>a, ShownMore
<1>c. \A e : ShownEntry(e, charts) => OkEntry(e)
  BY <1>b DEF ShownEntry
<1>d. /\ statefile # NoIndex => Ok(statefile)
      /\ \A idx \in savers : Ok(idx)
      /\ cache # NoEntry => OkEntry(cache)
      /\ \A q \in Requests : mine[q] # NoEntry => OkEntry(mine[q])
      /\ \A q \in Requests : Ok(response[q].raw)
  BY <1>b, <1>c DEF AllCharts
<1>e. ASSUME NEW q \in Requests, pc[q] \in Holding
      PROVE  EntryOf(q) \in SoundEntry /\ ShownEntry(EntryOf(q), charts)
  <2>1. EntryOf(q) \in SoundEntry
    BY <1>e DEF TypesInv, Held
  <2>2. EntryOf(q) # NoEntry
    BY <2>1, NoEntryNotSound
  <2> QED BY <2>1, <2>2 DEF AllCharts, EntryOf
<1>f. Ok(EmptyIndex)
  BY DEF Shown, EmptyIndex
<1> HIDE DEF Ok, OkEntry
<1>g. ASSUME statefile' # NoIndex => Ok(statefile'),
             \A idx \in savers' : Ok(idx),
             cache' # NoEntry => OkEntry(cache'),
             \A q \in Requests : mine'[q] # NoEntry => OkEntry(mine'[q]),
             \A q \in Requests : Ok(response'[q].raw)
      PROVE  AllCharts'
  BY <1>g DEF AllCharts, Ok, OkEntry
<1>1. ASSUME UNCHANGED <<statefile, savers, cache, mine, response>> PROVE AllCharts'
  BY <1>1, <1>d, <1>g
<1>2. ASSUME NEW f \in Files, PutsObject(f) \/ DeleteObject(f) PROVE AllCharts'
  BY <1>1, <1>2 DEF PutsObject, PutObject, DeleteObject, Change, cacheVars, requestVars
<1>3. ASSUME NEW r \in Requests, NEW ok \in BOOLEAN,
             GetChartList(r) \/ FetchChartsInStorage(r, ok) \/ RegenerateRepositoryIndex(r)
      PROVE  AllCharts'
  BY <1>1, <1>3 DEF GetChartList, FetchChartsInStorage, RegenerateRepositoryIndex,
      cacheVars, worldVars
<1>h. ASSUME NEW r \in Requests, GetIndexFile(r) PROVE AllCharts'
  <2>1. /\ UNCHANGED <<statefile, savers, cache, mine>>
        /\ response' = [response EXCEPT ![r] = NoResponse]
    BY <1>h DEF GetIndexFile, worldVars, cacheVars
  <2>2. \A q \in Requests : Ok(response'[q].raw)
    BY <1>d, <1>f, <2>1 DEF NoResponse, TypesInv, RequestTypes
  <2> QED BY <1>d, <1>g, <2>1, <2>2
<1>4. ASSUME NEW r \in Requests, NEW ok \in BOOLEAN, NEW saved \in BOOLEAN,
             \/ InitInternal(r, ok) \/ InitExternal(r, ok) \/ InitStore(r, ok, saved)
      PROVE  AllCharts'
  <2> DEFINE e == NewEntry(ok)
  <2>1. OkEntry(e)
    BY <1>c, NewShown
  <2>2. /\ UNCHANGED <<statefile, savers, response>>
        /\ cache' \in {cache, e}
        /\ \/ mine' = mine
           \/ mine' = [mine EXCEPT ![r] = cache]
           \/ mine' = [mine EXCEPT ![r] = e]
    BY <1>4 DEF InitInternal, InitExternal, InitStore, worldVars
  <2> HIDE DEF e
  <2>3. \A q \in Requests : mine'[q] \in {mine[q], cache, e}
    BY <1>0, <2>2
  <2> QED BY <1>d, <1>g, <2>1, <2>2, <2>3
<1>5. ASSUME NEW R, NEW from, NEW raw, Answer(R, from, raw), Ok(raw),
             UNCHANGED <<statefile, cache>>, savers' \subseteq savers \cup {raw}
      PROVE  AllCharts'
  <2>1. \A q \in Requests : /\ mine'[q] \in {mine[q], NoEntry}
                            /\ response'[q].raw \in {response[q].raw, raw}
    BY <1>5 DEF Answer
  <2> QED BY <1>5, <1>d, <1>g, <2>1
<1>6. ASSUME NEW r \in Requests, FlushChartList(r) PROVE AllCharts'
  <2>1. UNCHANGED <<statefile, cache, savers>>
    BY <1>6 DEF FlushChartList, worldVars, cacheVars
  <2>2. Answer(fetchChans, "error", EmptyIndex) \/ UNCHANGED <<response, mine>>
    BY <1>6 DEF FlushChartList
  <2> QED BY <1>1, <1>5, <1>f, <2>1, <2>2
<1>7. ASSUME NEW r \in Requests, CompareWithStorage(r) PROVE AllCharts'
  <2>1. UNCHANGED <<statefile, cache, savers>> /\ pc[r] = "compare"
    BY <1>7 DEF CompareWithStorage, worldVars, cacheVars
  <2>2. Answer({r}, "cache", EntryOf(r).raw) \/ UNCHANGED <<response, mine>>
    BY <1>7 DEF CompareWithStorage
  <2>3. Ok(EntryOf(r).raw)
    BY <1>b, <1>e, <2>1 DEF Holding, ShownEntry
  <2> QED BY <1>1, <1>5, <2>1, <2>2, <2>3
<1>8. ASSUME NEW r \in Requests, NEW f \in Files, NEW ok \in BOOLEAN,
             \/ RemoveIndexObject(r, f) \/ UpdateIndexObject(r, f, ok)
             \/ AddIndexObject(r, f, ok)
      PROVE  AllCharts'
  <2> DEFINE idx == EntryOf(r).index
  <2>1. /\ pc[r] = "working" /\ UNCHANGED <<statefile, savers, response>>
        /\ EntryOf(r) \in SoundEntry /\ idx \in SoundIndex
    BY <1>8, WorkFrame
  <2>2. ShownEntry(EntryOf(r), charts)
    BY <1>e, <2>1 DEF Holding
  <2>3. \/ UNCHANGED <<cache, mine>>
        \/ \E s, d : /\ Works(r, f, s, d)
                     /\ \/ s = LeftOf(f, idx[f])
                        \/ IsChart(f) /\ s \in {UpdateEntry(idx[f], storage[f]),
                                                AddEntry(idx[f], storage[f])}
    <3>1. CASE RemoveIndexObject(r, f)
      BY <3>1, RemoveWorks
    <3>2. CASE UpdateIndexObject(r, f, ok)
      BY <3>2, UpdateWorks
    <3>3. CASE AddIndexObject(r, f, ok)
      BY <3>3, AddWorks
    <3> QED BY <1>8, <3>1, <3>2, <3>3
  <2>4. ASSUME NEW s, NEW d, Works(r, f, s, d),
               \/ s = LeftOf(f, idx[f])
               \/ IsChart(f) /\ s \in {UpdateEntry(idx[f], storage[f]),
                                       AddEntry(idx[f], storage[f])}
        PROVE  AllCharts'
    <3> DEFINE i == [idx EXCEPT ![f] = s]
               e == [EntryOf(r) EXCEPT !.index = i]
    <3>1. i \in SoundIndex /\ SetEntry(r, e)
      BY <2>4 DEF Works
    <3>2. Shown(i, charts)
      BY <2>1, <2>2, <2>4, <3>1, WorkShown DEF ShownEntry
    <3> HIDE DEF i, idx
    <3>3. e.index = i /\ e.raw = EntryOf(r).raw
      BY <2>1, <3>1, EntryChanges
    <3> HIDE DEF e
    <3>4. OkEntry(e)
      BY <1>c, <2>2, <3>2, <3>3 DEF ShownEntry
    <3>5. /\ cache' \in {cache, e}
          /\ \A q \in Requests : mine'[q] \in {mine[q], e}
      BY <1>0, <3>1 DEF SetEntry
    <3> QED BY <1>d, <1>g, <2>1, <3>4, <3>5
  <2> QED BY <1>1, <2>1, <2>3, <2>4
<1>9. ASSUME NEW r \in Requests, NEW ok \in BOOLEAN, SaveCacheEntry(r, ok) PROVE AllCharts'
  <2> DEFINE e == Regenerate(EntryOf(r))
  <2>1. /\ pc[r] = "working" /\ UNCHANGED <<statefile, savers, response>>
        /\ cache' \in {cache, e} /\ mine' \in {mine, [mine EXCEPT ![r] = e]}
    BY <1>9 DEF SaveCacheEntry, Goto, worldVars
  <2>2. EntryOf(r) \in SoundEntry /\ ShownEntry(EntryOf(r), charts)
    BY <1>e, <2>1 DEF Holding
  <2>3. e.raw = EntryOf(r).index /\ e.index = EntryOf(r).index
    BY <2>2, EntryChanges, EmptySound
  <2> HIDE DEF e
  <2>4. OkEntry(e)
    BY <1>c, <2>2, <2>3 DEF ShownEntry
  <2>5. \A q \in Requests : mine'[q] \in {mine[q], e}
    BY <1>0, <2>1
  <2> QED BY <1>d, <1>g, <2>1, <2>4, <2>5
<1>10. ASSUME NEW r \in Requests, FlushIndex(r) PROVE AllCharts'
  <2>1. UNCHANGED <<statefile, cache>> /\ pc[r] \in {"worked", "workFailed"}
    BY <1>10 DEF FlushIndex, worldVars, cacheVars
  <2>2. \/ /\ Answer(regenChans, "regeneration", EntryOf(r).raw)
           /\ savers' \subseteq savers \cup {EntryOf(r).raw}
        \/ Answer(regenChans, "error", EmptyIndex) /\ savers' = savers
    BY <1>10 DEF FlushIndex
  <2>3. Ok(EntryOf(r).raw)
    BY <1>b, <1>e, <2>1 DEF Holding, ShownEntry
  <2> QED BY <1>5, <1>f, <2>1, <2>2, <2>3
<1>11. ASSUME NEW idx \in savers, NEW ok \in BOOLEAN, SaveStatefile(idx, ok) PROVE AllCharts'
  <2>1. /\ UNCHANGED <<cache, mine, response>> /\ savers' \subseteq savers
        /\ statefile' \in {idx, statefile}
    BY <1>11 DEF SaveStatefile, cacheVars, requestVars
  <2> QED BY <1>d, <1>g, <2>1
<1>12. ASSUME NEW file \in {statefile} \cup TornStatefiles, Restart(file) PROVE AllCharts'
  <2>1. file # NoIndex => Ok(file)
    BY <1>b, <1>d, TornShown
  <2>2. /\ statefile' = file /\ savers' = {} /\ response' = response
        /\ cache' \in {cache, NoEntry} /\ \A q \in Requests : mine'[q] = NoEntry
    BY <1>12 DEF Restart
  <2> QED BY <1>d, <1>g, <2>1, <2>2
<1>13. CASE UNCHANGED vars
  BY <1>1, <1>13 DEF vars, worldVars, cacheVars, requestVars
<1> QED BY <1>2, <1>h, <1>3, <1>4, <1>6, <1>7, <1>8, <1>9, <1>10, <1>11, <1>12, <1>13
      DEF Next, PutsObject, RequestStep, InitCacheEntry
----------------------------------------------------------------------------
FreshInv ==
    /\ ListedRight /\ DiffRight /\ WorkedRight /\ Rendered /\ AllCharts
    /\ FreshOf({"regeneration"})
    /\ ExternalCache => FreshOf({"cache", "regeneration"})

LEMMA FreshHolds == Spec => [](TypesInv /\ FreshInv)
<1>1. Init => FreshInv
  BY DEF Init, FreshInv, ListedRight, DiffRight, WorkedRight, Rendered, Early,
      FreshOf, NoResponse, AllCharts, Shown, EmptyIndex
<1>2. SharingInv /\ TypesInv /\ FreshInv /\ [Next]_vars => FreshInv'
  <2> SUFFICES ASSUME SharingInv, TypesInv, FreshInv, [Next]_vars PROVE FreshInv'
    OBVIOUS
  <2>1. ListedRight /\ DiffRight /\ WorkedRight /\ Rendered /\ AllCharts
    BY DEF FreshInv
  <2>2. ListedRight' /\ DiffRight' /\ WorkedRight' /\ Rendered' /\ AllCharts'
    BY <2>1, ListedStep, WorkStep, RenderedStep, AllChartsStep
  <2>3. FreshOf({"regeneration"})'
    BY <2>1, FreshStep DEF FreshInv
  <2>4. ExternalCache => FreshOf({"cache", "regeneration"})'
    BY <2>1, FreshStep DEF FreshInv
  <2> QED BY <2>2, <2>3, <2>4 DEF FreshInv
<1> QED BY <1>1, <1>2, TypesHold, PTL DEF Spec

\* A timely answer whose entries are charts is fresh.
LEMMA TimelyFresh ==
    ASSUME AllCharts, NEW r \in Requests, Timely(response[r])
    PROVE  Fresh(response[r])
BY DEF AllCharts, Shown, Timely, Fresh

\* Every answer that comes from a regeneration shows each package as storage
\* has it, unless the package changed after the server last became busy or is
\* one that the worker skips, and shows nothing that was not put into storage
\* as a chart: with either cache store, any number of requests that share the
\* listing and the regeneration, whatever is put into storage under whatever
\* name, and failures, torn statefiles and restarts on the way.
THEOREM RegeneratedIndexFresh == Spec => []FreshRegeneration
<1>1. FreshInv => FreshRegeneration
  BY TimelyFresh DEF FreshInv, FreshOf, FreshRegeneration
<1> QED BY <1>1, FreshHolds, PTL

\* With an external cache store the answers that come from the cache do so too.
THEOREM ExternalChartsFresh ==
    ASSUME ExternalCache
    PROVE  Spec => []FreshCharts
<1>1. FreshInv => FreshCharts
  BY TimelyFresh DEF FreshInv, FreshOf, FreshCharts
<1> QED BY <1>1, FreshHolds, PTL
=============================================================================
