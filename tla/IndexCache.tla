----------------------------- MODULE IndexCache -----------------------------
(***************************************************************************)
(* GET /index.yaml: getIndexFile (index.go) and the cache of one tenant's  *)
(* index (cache.go) in pkg/chartmuseum/server/multitenant.                 *)
(*                                                                         *)
(* A request takes the cached entry, lists the packages in storage,        *)
(* compares the two, and if they differ has the index regenerated.         *)
(* Concurrent requests share one listing (FetchedObjectsChans) and one     *)
(* regeneration (RegeneratedIndexesChans): the first to put its channel in *)
(* the empty list does the work and then hands the result to every channel *)
(* that has joined it.                                                     *)
(*                                                                         *)
(* With an external cache store each request unmarshals a copy of the      *)
(* entry.  Without one, every request holds a pointer to the same entry,   *)
(* whose IndexFile is changed in place by a regeneration, while its Raw    *)
(* bytes, the ones that are served, are replaced only at the end.          *)
(***************************************************************************)
EXTENDS Naturals, Sequences, FiniteSets

CONSTANTS
    Requests,        \* goroutines that serve GET /index.yaml
    Files,           \* chart packages (.tgz) that may be in storage
    Doubtful,        \* those whose content need not be a chart
    Misnamed,        \* those whose file name is not name and version of the chart
    ExternalCache,   \* TRUE: ExternalCacheStore, FALSE: InternalCacheStore
    UseStatefiles,   \* index-cache.yaml is saved and read
    NoEntry,         \* not a cache entry
    NoIndex,         \* not an index
    MaxTime,         \* bound on the changes of storage
    MaxFailures,     \* bound on the failures of storage and cache store
    MaxRestarts      \* bound on the restarts of the server

ASSUME ConstantsAssumption ==
    /\ Doubtful \subseteq Files /\ Misnamed \subseteq Files
    /\ ExternalCache \in BOOLEAN
    /\ UseStatefiles \in BOOLEAN
    /\ MaxTime \in Nat /\ MaxFailures \in Nat /\ MaxRestarts \in Nat

VARIABLES
    storage,        \* storage[f]: LastModified of f, 0 if it is not there
    charts,         \* <<f, t>>: what was put into f at time t is a chart
    statefile,      \* index-cache.yaml in storage
    clock,          \* number of changes of storage so far
    cache,          \* the entry in the cache store
    keyLock,        \* requests holding TenantCacheKeyLock
    fetchChans,     \* requests with a channel in FetchedObjectsChans
    regenChans,     \* requests with a channel in RegeneratedIndexesChans
    savers,         \* indexes that saveStatefile goroutines have to write
    pc,             \* pc[r]: where request r is in getIndexFile
    mine,           \* mine[r]: the entry r unmarshalled (external cache)
    listed,         \* listed[r]: the listing r works with
    diff,           \* diff[r]: the ObjectSliceDiff r has computed
    response,       \* response[r]: the answer of r, until it serves again
    failures, restarts,
    changedAt,      \* history: when f was last put or deleted
    busySince       \* history: clock when the server last became busy

cacheVars == <<cache, keyLock>>
chanVars == <<fetchChans, regenChans>>
requestVars == <<pc, mine, listed, diff, response>>
worldVars == <<storage, charts, statefile, clock, changedAt>>
countVars == <<failures, restarts>>
vars == <<worldVars, cacheVars, chanVars, savers, requestVars, countVars,
          busySince>>

\* The Created times of the entries an index has for each package.  AddEntry
\* does not look for an existing entry, so there may be several.
Index == [Files -> Seq(1..MaxTime)]
EmptyIndex == [f \in Files |-> <<>>]
Entry == [index : Index, raw : Index]

ASSUME NoEntryAssumption == NoEntry \notin Entry

Listing == [Files -> 0..MaxTime]
NoListing == [f \in Files |-> 0]
NoDiff == [removed |-> NoListing, updated |-> NoListing, added |-> {}]
NoResponse == [from |-> "none", raw |-> EmptyIndex, since |-> 0]

TypeOK ==
    /\ storage \in Listing /\ changedAt \in Listing
    /\ charts \subseteq Files \X (1..MaxTime)
    /\ statefile \in Index \cup {NoIndex}
    /\ clock \in 0..MaxTime /\ busySince \in 0..MaxTime
    /\ cache \in Entry \cup {NoEntry}
    /\ keyLock \subseteq Requests
    /\ fetchChans \subseteq Requests /\ regenChans \subseteq Requests
    /\ savers \subseteq Index
    /\ pc \in [Requests -> {"idle", "init", "initStore", "getList", "fetching",
                            "fetched", "fetchFailed", "waitList", "compare",
                            "regenerate", "working", "worked", "workFailed",
                            "waitIndex"}]
    /\ mine \in [Requests -> Entry \cup {NoEntry}]
    /\ listed \in [Requests -> Listing]
    /\ diff \in [Requests -> [removed : [Files -> Nat], updated : [Files -> Nat],
                              added : SUBSET Files]]
    /\ response \in [Requests ->
                        [from : {"none", "error", "cache", "regeneration"},
                         raw : Index, since : 0..MaxTime]]
    /\ failures \in 0..MaxFailures
    /\ restarts \in 0..MaxRestarts

Init ==
    /\ storage = NoListing /\ changedAt = NoListing
    /\ charts = {}
    /\ statefile = NoIndex
    /\ clock = 0 /\ busySince = 0
    /\ cache = NoEntry
    /\ keyLock = {}
    /\ fetchChans = {} /\ regenChans = {}
    /\ savers = {}
    /\ pc = [r \in Requests |-> "idle"]
    /\ mine = [r \in Requests |-> NoEntry]
    /\ listed = [r \in Requests |-> NoListing]
    /\ diff = [r \in Requests |-> NoDiff]
    /\ response = [r \in Requests |-> NoResponse]
    /\ failures = 0 /\ restarts = 0

----------------------------------------------------------------------------
\* Step r from one place of getIndexFile to another.
Goto(r, from, to) == pc[r] = from /\ pc' = [pc EXCEPT ![r] = to]

\* A call to storage or to the cache store succeeds, or it fails.
CallEnds(ok) ==
    \/ ok /\ UNCHANGED failures
    \/ ~ok /\ failures < MaxFailures /\ failures' = failures + 1

\* The entry that request r holds.
EntryOf(r) == IF ExternalCache THEN mine[r] ELSE cache

\* r changes the entry that it holds.
SetEntry(r, e) ==
    IF ExternalCache THEN mine' = [mine EXCEPT ![r] = e] /\ UNCHANGED cache
    ELSE cache' = e /\ UNCHANGED mine

\* The requests in R answer: with an error (500), with the Raw of the cached
\* entry or with that of a regenerated index (200).
Answer(R, from, raw) ==
    /\ pc' = [r \in Requests |-> IF r \in R THEN "idle" ELSE pc[r]]
    /\ response' = [r \in Requests |->
                       IF r \in R THEN [from |-> from, raw |-> raw,
                                        since |-> busySince]
                       ELSE response[r]]
    /\ mine' = [r \in Requests |-> IF r \in R THEN NoEntry ELSE mine[r]]
    /\ listed' = [r \in Requests |-> IF r \in R THEN NoListing ELSE listed[r]]
    /\ diff' = [r \in Requests |-> IF r \in R THEN NoDiff ELSE diff[r]]

\* What is in f is a chart.
IsChart(f) == <<f, storage[f]>> \in charts

\* Packages are put into and deleted from storage by uploads, deletes, other
\* servers and people.  A file holds the same chart each time, if it holds a
\* chart, and two files hold different ones.
Change(f, time, put) ==
    /\ clock < MaxTime
    /\ clock' = clock + 1
    /\ storage' = [storage EXCEPT ![f] = time]
    /\ charts' = charts \cup put
    /\ changedAt' = [changedAt EXCEPT ![f] = clock + 1]
    /\ UNCHANGED <<statefile, cacheVars, chanVars, savers, requestVars,
                   countVars, busySince>>

PutObject(f, chart) ==
    /\ chart \/ f \in Doubtful
    /\ Change(f, clock + 1, IF chart THEN {<<f, clock + 1>>} ELSE {})

DeleteObject(f) == storage[f] # 0 /\ Change(f, 0, {})

----------------------------------------------------------------------------
\* Mutants: each is a definition below with one plausible bug, and breaks one
\* of the properties at the end of the module.

\* Mutant: FetchedObjectsChans is not emptied.
FlushKeepsChannels(r) ==
    /\ pc[r] \in {"fetched", "fetchFailed"}
    /\ IF pc[r] = "fetchFailed"
       THEN Answer(fetchChans, "error", EmptyIndex)
       ELSE /\ pc' = [q \in Requests |-> IF q \in fetchChans THEN "compare"
                                         ELSE pc[q]]
            /\ listed' = [q \in Requests |-> IF q \in fetchChans THEN listed[r]
                                             ELSE listed[q]]
            /\ UNCHANGED <<response, mine, diff>>
    /\ UNCHANGED <<worldVars, cacheVars, chanVars, savers, countVars, busySince>>

\* Mutant: a package is found in the index only if its time is the same.
DiffFindsByTime(idx, list) ==
    [removed |-> [f \in Files |-> IF list[f] = 0 THEN Len(idx[f]) ELSE 0],
     updated |-> [f \in Files |->
                     IF list[f] = 0 THEN 0
                     ELSE Cardinality({i \in 1..Len(idx[f]) :
                                           idx[f][i] # list[f]})],
     added |-> {f \in Files : list[f] # 0 /\ ~\E i \in 1..Len(idx[f]) :
                                                 idx[f][i] = list[f]}]

\* Mutant: every request regenerates the index.
RegenerateAlways(r) ==
    /\ Goto(r, "regenerate", "working")
    /\ regenChans' = regenChans \cup {r}
    /\ UNCHANGED <<worldVars, cacheVars, fetchChans, savers, mine, listed,
                   diff, response, countVars, busySince>>

\* Mutant: the error of GetObject is not looked at.
AddUnchecked(r, f, ok) ==
    LET e == EntryOf(r)
    IN  /\ pc[r] = "working"
        /\ diff[r].removed = NoListing /\ diff[r].updated = NoListing
        /\ f \in diff[r].added
        /\ CallEnds(ok)
        /\ diff' = [diff EXCEPT ![r].added = @ \ {f}]
        /\ SetEntry(r, [e EXCEPT !.index[f] = Append(@, storage[f])])
        /\ UNCHANGED <<worldVars, keyLock, chanVars, savers, pc, listed,
                       response, restarts, busySince>>

\* Mutant: a package that cannot be read is skipped like an invalid one.
AddSkipsErrors(r, f, ok) ==
    LET e == EntryOf(r)
    IN  /\ pc[r] = "working"
        /\ diff[r].removed = NoListing /\ diff[r].updated = NoListing
        /\ f \in diff[r].added
        /\ CallEnds(ok)
        /\ diff' = [diff EXCEPT ![r].added = @ \ {f}]
        /\ IF ok /\ storage[f] # 0 /\ IsChart(f)
           THEN SetEntry(r, [e EXCEPT !.index[f] = Append(@, storage[f])])
           ELSE UNCHANGED <<cache, mine>>
        /\ UNCHANGED <<worldVars, keyLock, chanVars, savers, pc, listed,
                       response, restarts, busySince>>

\* Mutant: the entry is saved without index.Regenerate().
SaveWithoutRegenerate(r, ok) ==
    /\ Goto(r, "working", "worked")
    /\ diff[r] = NoDiff
    /\ CallEnds(ok)
    /\ cache' = IF ok THEN EntryOf(r) ELSE cache
    /\ UNCHANGED <<worldVars, keyLock, chanVars, savers, mine, listed, diff,
                   response, restarts, busySince>>

\* Mutant: a failed regeneration returns to its own caller only.
FlushIndexToSelf(r) ==
    /\ pc[r] \in {"worked", "workFailed"}
    /\ regenChans' = {}
    /\ IF pc[r] = "worked"
       THEN /\ Answer(regenChans, "regeneration", EntryOf(r).raw)
            /\ savers' = IF UseStatefiles THEN savers \cup {EntryOf(r).raw}
                         ELSE savers
       ELSE Answer({r}, "error", EmptyIndex) /\ UNCHANGED savers
    /\ UNCHANGED <<worldVars, cacheVars, fetchChans, countVars, busySince>>

----------------------------------------------------------------------------
\* GET /index.yaml arrives.
GetIndexFile(r) ==
    /\ Goto(r, "idle", "init")
    /\ busySince' = IF \A q \in Requests : pc[q] = "idle" THEN clock
                    ELSE busySince
    /\ response' = [response EXCEPT ![r] = NoResponse]
    /\ UNCHANGED <<worldVars, cacheVars, chanVars, savers, mine, listed, diff,
                   countVars>>

\* Index of pkg/repo, on the entries of one package.  RemoveEntry and
\* UpdateEntry stop at the first entry with the version they look for.
RemoveEntry(entries) == IF entries = <<>> THEN entries ELSE Tail(entries)

UpdateEntry(entries, time) ==
    IF entries = <<>> THEN entries ELSE [entries EXCEPT ![1] = time]

AddEntry(entries, time) == Append(entries, time)

\* Raw is the rendered IndexFile.
Regenerate(e) == [e EXCEPT !.raw = e.index]

\* newRepositoryIndex: what index-cache.yaml holds, if it can be read.
NewEntry(ok) ==
    LET idx == IF UseStatefiles /\ ok /\ statefile # NoIndex THEN statefile
               ELSE EmptyIndex
    IN  [index |-> idx, raw |-> idx]

\* initCacheEntry with the internal store, which cannot fail: the entry is
\* looked up or made under TenantCacheKeyLock.
InitInternal(r, ok) ==
    /\ ~ExternalCache
    /\ Goto(r, "init", "getList")
    /\ cache' = IF cache = NoEntry THEN NewEntry(ok) ELSE cache
    /\ IF cache = NoEntry /\ UseStatefiles THEN CallEnds(ok)
       ELSE ok /\ UNCHANGED failures
    /\ UNCHANGED <<worldVars, keyLock, chanVars, savers, mine, listed, diff,
                   response, restarts, busySince>>

\* initCacheEntry with the external store: a hit is unmarshalled; a miss or
\* an error of the store goes on, still under the lock, to make an entry.
InitExternal(r, ok) ==
    /\ ExternalCache
    /\ keyLock = {}
    /\ CallEnds(ok)
    /\ IF ok /\ cache # NoEntry
       THEN /\ Goto(r, "init", "getList")
            /\ mine' = [mine EXCEPT ![r] = cache]
            /\ UNCHANGED keyLock
       ELSE /\ Goto(r, "init", "initStore")
            /\ keyLock' = {r}
            /\ UNCHANGED mine
    /\ UNCHANGED <<worldVars, cache, chanVars, savers, listed, diff, response,
                   restarts, busySince>>

\* The new entry is saved in the store; a failure to do so is only logged.
InitStore(r, ok, saved) ==
    /\ Goto(r, "initStore", "getList")
    /\ UseStatefiles \/ ok
    /\ CallEnds(ok /\ saved)
    /\ mine' = [mine EXCEPT ![r] = NewEntry(ok)]
    /\ cache' = IF saved THEN NewEntry(ok) ELSE cache
    /\ keyLock' = {}
    /\ UNCHANGED <<worldVars, chanVars, savers, listed, diff, response,
                   restarts, busySince>>

\* getChartList: the request whose channel is the only one fetches the list.
GetChartList(r) ==
    /\ Goto(r, "getList", IF fetchChans = {} THEN "fetching" ELSE "waitList")
    /\ fetchChans' = fetchChans \cup {r}
    /\ UNCHANGED <<worldVars, cacheVars, regenChans, savers, mine, listed,
                   diff, response, countVars, busySince>>

\* fetchChartsInStorage, with FetchedObjectsLock released.
FetchChartsInStorage(r, ok) ==
    /\ Goto(r, "fetching", IF ok THEN "fetched" ELSE "fetchFailed")
    /\ CallEnds(ok)
    /\ listed' = [listed EXCEPT ![r] = IF ok THEN storage ELSE NoListing]
    /\ UNCHANGED <<worldVars, cacheVars, chanVars, savers, mine, diff,
                   response, restarts, busySince>>

\* The result is sent to every channel, and the list of channels emptied.
FlushChartList(r) ==
    /\ pc[r] \in {"fetched", "fetchFailed"}
    /\ fetchChans' = {}
    /\ IF pc[r] = "fetchFailed"
       THEN Answer(fetchChans, "error", EmptyIndex)
       ELSE /\ pc' = [q \in Requests |-> IF q \in fetchChans THEN "compare"
                                         ELSE pc[q]]
            /\ listed' = [q \in Requests |-> IF q \in fetchChans THEN listed[r]
                                             ELSE listed[q]]
            /\ UNCHANGED <<response, mine, diff>>
    /\ UNCHANGED <<worldVars, cacheVars, regenChans, savers, countVars,
                   busySince>>

\* GetObjectSliceDiff of the objects of an index and a listing: how many
\* times each package is in the slices Removed and Updated (once for each of
\* its entries), and the packages in Added.
ObjectSliceDiff(idx, list) ==
    [removed |-> [f \in Files |-> IF list[f] = 0 THEN Len(idx[f]) ELSE 0],
     updated |-> [f \in Files |->
                     IF list[f] = 0 THEN 0
                     ELSE Cardinality({i \in 1..Len(idx[f]) :
                                           idx[f][i] # list[f]})],
     added |-> {f \in Files : list[f] # 0 /\ idx[f] = <<>>}]

\* Without a change the cached Raw is the answer.
CompareWithStorage(r) ==
    LET d == ObjectSliceDiff(EntryOf(r).index, listed[r])
    IN  /\ pc[r] = "compare"
        /\ IF d = NoDiff
           THEN Answer({r}, "cache", EntryOf(r).raw)
           ELSE /\ Goto(r, "compare", "regenerate")
                /\ diff' = [diff EXCEPT ![r] = d]
                /\ UNCHANGED <<response, mine, listed>>
        /\ UNCHANGED <<worldVars, cacheVars, chanVars, savers, countVars,
                       busySince>>

\* regenerateRepositoryIndex: the request whose channel is the only one does
\* the work.
RegenerateRepositoryIndex(r) ==
    /\ Goto(r, "regenerate", IF regenChans = {} THEN "working" ELSE "waitIndex")
    /\ regenChans' = regenChans \cup {r}
    /\ UNCHANGED <<worldVars, cacheVars, fetchChans, savers, mine, listed,
                   diff, response, countVars, busySince>>

----------------------------------------------------------------------------
\* regenerateRepositoryIndexWorker, with RegenerationLock released.  It takes
\* the slices of the diff in this order; a package that cannot be read (one
\* that is gone since the listing, say) ends it with an error.

\* removeIndexObject: RemoveEntry takes out the first entry of the version that
\* the file name says.  A file name without name and version is logged and
\* skipped, and with another chart's there is no such entry: the entry stays.
RemoveIndexObject(r, f) ==
    LET e == EntryOf(r)
    IN  /\ pc[r] = "working"
        /\ diff[r].removed[f] # 0
        /\ diff' = [diff EXCEPT ![r].removed[f] = @ - 1]
        /\ SetEntry(r, IF f \in Misnamed THEN e
                       ELSE [e EXCEPT !.index[f] = RemoveEntry(@)])
        /\ UNCHANGED <<worldVars, keyLock, chanVars, savers, pc, listed,
                       response, countVars, busySince>>

\* updateIndexObject: UpdateEntry replaces the first entry of the version.  What
\* is no longer a chart is logged and skipped: the old entry stays.
UpdateIndexObject(r, f, ok) ==
    LET e == EntryOf(r)
        read == ok /\ storage[f] # 0
    IN  /\ pc[r] = "working"
        /\ diff[r].removed = NoListing
        /\ diff[r].updated[f] # 0
        /\ CallEnds(ok)
        /\ pc' = [pc EXCEPT ![r] = IF read THEN @ ELSE "workFailed"]
        /\ diff' = [diff EXCEPT ![r].updated[f] = @ - 1]
        /\ IF read /\ IsChart(f)
           THEN SetEntry(r, [e EXCEPT !.index[f] = UpdateEntry(@, storage[f])])
           ELSE UNCHANGED <<cache, mine>>
        /\ UNCHANGED <<worldVars, keyLock, chanVars, savers, listed, response,
                       restarts, busySince>>

\* addIndexObjectsAsync, as BatchLoad specifies it: the packages come in any
\* order, and AddEntry appends an entry for each that is a chart.
AddIndexObject(r, f, ok) ==
    LET e == EntryOf(r)
        read == ok /\ storage[f] # 0
    IN  /\ pc[r] = "working"
        /\ diff[r].removed = NoListing /\ diff[r].updated = NoListing
        /\ f \in diff[r].added
        /\ CallEnds(ok)
        /\ pc' = [pc EXCEPT ![r] = IF read THEN @ ELSE "workFailed"]
        /\ diff' = [diff EXCEPT ![r].added = @ \ {f}]
        /\ IF read /\ IsChart(f)
           THEN SetEntry(r, [e EXCEPT !.index[f] = AddEntry(@, storage[f])])
           ELSE UNCHANGED <<cache, mine>>
        /\ UNCHANGED <<worldVars, keyLock, chanVars, savers, listed, response,
                       restarts, busySince>>

\* Regenerate renders Raw, and saveCacheEntry saves the entry; a failure to
\* do so is only logged.
SaveCacheEntry(r, ok) ==
    LET e == Regenerate(EntryOf(r))
    IN  /\ Goto(r, "working", "worked")
        /\ diff[r] = NoDiff
        /\ IF ExternalCache
           THEN /\ mine' = [mine EXCEPT ![r] = e]
                /\ CallEnds(ok)
                /\ cache' = IF ok THEN e ELSE cache
           ELSE ok /\ cache' = e /\ UNCHANGED <<mine, failures>>
        /\ UNCHANGED <<worldVars, keyLock, chanVars, savers, listed, diff,
                       response, restarts, busySince>>

\* The new index or the error goes to every channel, and the list of channels
\* is emptied; each request that got an index starts saveStatefile.
FlushIndex(r) ==
    /\ pc[r] \in {"worked", "workFailed"}
    /\ regenChans' = {}
    /\ IF pc[r] = "worked"
       THEN /\ Answer(regenChans, "regeneration", EntryOf(r).raw)
            /\ savers' = IF UseStatefiles THEN savers \cup {EntryOf(r).raw}
                         ELSE savers
       ELSE Answer(regenChans, "error", EmptyIndex) /\ UNCHANGED savers
    /\ UNCHANGED <<worldVars, cacheVars, fetchChans, countVars, busySince>>

\* saveStatefile runs in the background and only logs a failure; nothing
\* orders the writes of several regenerations.
SaveStatefile(idx, ok) ==
    /\ CallEnds(ok)
    /\ savers' = savers \ {idx}
    /\ statefile' = IF ok THEN idx ELSE statefile
    /\ UNCHANGED <<storage, charts, clock, changedAt, cacheVars, chanVars, requestVars,
                   restarts, busySince>>

\* What a statefile may be that was being written when the server stopped: it
\* does not parse, or it does and lacks some entries.  Files that end within
\* an entry, or have none (AddEntry panics then), are left out.
TornStatefiles ==
    {NoIndex : idx \in savers} \cup
    {cut \in {[f \in Files |-> IF f \in S THEN idx[f] ELSE <<>>] :
                 idx \in savers, S \in SUBSET Files} : cut # EmptyIndex}

\* The server stops and starts again: requests, channels and the internal
\* store are gone.
Restart(file) ==
    /\ restarts < MaxRestarts
    /\ restarts' = restarts + 1
    /\ statefile' = file
    /\ savers' = {}
    /\ cache' = IF ExternalCache THEN cache ELSE NoEntry
    /\ keyLock' = {} /\ fetchChans' = {} /\ regenChans' = {}
    /\ pc' = [r \in Requests |-> "idle"]
    /\ mine' = [r \in Requests |-> NoEntry]
    /\ listed' = [r \in Requests |-> NoListing]
    /\ diff' = [r \in Requests |-> NoDiff]
    /\ UNCHANGED <<storage, charts, clock, changedAt, response, failures, busySince>>

----------------------------------------------------------------------------
InitCacheEntry(r) ==
    \E ok \in BOOLEAN :
        \/ InitInternal(r, ok)
        \/ InitExternal(r, ok)

RequestStep(r) ==
    \/ \E ok, saved \in BOOLEAN : InitStore(r, ok, saved)
    \/ GetChartList(r)
    \/ \E ok \in BOOLEAN : FetchChartsInStorage(r, ok)
    \/ FlushChartList(r)
    \/ CompareWithStorage(r)
    \/ RegenerateRepositoryIndex(r)
    \/ \E f \in Files : RemoveIndexObject(r, f)
    \/ \E f \in Files, ok \in BOOLEAN : UpdateIndexObject(r, f, ok)
    \/ \E f \in Files, ok \in BOOLEAN : AddIndexObject(r, f, ok)
    \/ \E ok \in BOOLEAN : SaveCacheEntry(r, ok)
    \/ FlushIndex(r)

Next ==
    \/ \E f \in Files, chart \in BOOLEAN : PutObject(f, chart)
    \/ \E f \in Files : DeleteObject(f)
    \/ \E r \in Requests : GetIndexFile(r) \/ InitCacheEntry(r) \/ RequestStep(r)
    \/ \E idx \in savers, ok \in BOOLEAN : SaveStatefile(idx, ok)
    \/ \E file \in {statefile} \cup TornStatefiles : Restart(file)

Spec == Init /\ [][Next]_vars

\* Goroutines that can run are run and calls to storage and store return.
\* The mutex hands itself to a goroutine that has waited for long.
Fairness ==
    \A r \in Requests : WF_vars(RequestStep(r)) /\ SF_vars(InitCacheEntry(r))

FairSpec == Spec /\ Fairness

----------------------------------------------------------------------------
Fetchers == {r \in Requests : pc[r] \in {"fetching", "fetched", "fetchFailed"}}

Workers == {r \in Requests : pc[r] \in {"working", "worked", "workFailed"}}

\* getChartList: the requests whose channel is in FetchedObjectsChans are the
\* ones waiting for a listing and the one, never two, that fetches it: no
\* request waits for a listing that nobody will deliver.
OneListing ==
    /\ fetchChans = Fetchers \cup {r \in Requests : pc[r] = "waitList"}
    /\ fetchChans # {} => \E r \in Requests : Fetchers = {r}

\* regenerateRepositoryIndex: likewise, so that one request at a time changes
\* the index it shares with the others.
OneRegeneration ==
    /\ regenChans = Workers \cup {r \in Requests : pc[r] = "waitIndex"}
    /\ regenChans # {} => \E r \in Requests : Workers = {r}

\* An index shows package f as storage has it.
Shows(idx, f) ==
    IF IsChart(f) THEN idx[f] # <<>> /\ Head(idx[f]) = storage[f]
    ELSE idx[f] = <<>>

\* Package f has not changed since the server last had no request to serve
\* before the answer (requests share listings, so that one may get a listing
\* that is older than itself).
Unchanged(resp, f) == changedAt[f] <= resp.since

\* "If you manually add/remove a .tgz package from storage, it will be
\* immediately reflected in GET /index.yaml": a successful answer shows every
\* unchanged package as it is in storage.
FreshIndex ==
    \A r \in Requests : response[r].from \in {"cache", "regeneration"} =>
        \A f \in Files : Unchanged(response[r], f) => Shows(response[r].raw, f)

\* The worker skips f and leaves its entries: a package that is gone under a
\* misleading name, or something in the place of a package that is no chart.
Skipped(f) == IF storage[f] = 0 THEN f \in Misnamed ELSE ~IsChart(f)

\* An answer shows the unchanged packages that are not skipped, and whatever
\* it shows was put into storage, at that time, as a chart.
Fresh(resp) ==
    \A f \in Files :
        /\ Unchanged(resp, f) /\ ~Skipped(f) => Shows(resp.raw, f)
        /\ \A i \in 1..Len(resp.raw[f]) : <<f, resp.raw[f][i]>> \in charts

\* What of FreshIndex is true whatever is put into storage under whatever name:
\* after any sequence of puts, deletes, failures, restarts and shared listings
\* the charts in storage are all shown, as they are, and what has been deleted
\* is not, unless its file name misled the worker.
FreshCharts ==
    \A r \in Requests : response[r].from \in {"cache", "regeneration"}
                            => Fresh(response[r])

\* The same of the answers that come from a regeneration.
FreshRegeneration ==
    \A r \in Requests : response[r].from = "regeneration" => Fresh(response[r])

\* "The repository index (index.yaml) is dynamically generated based on
\* packages found in storage": it has at most one entry for a package.
NoDuplicateEntries ==
    \A r \in Requests, f \in Files : Len(response[r].raw[f]) <= 1

\* Every request for the index is answered, whatever fails on the way.
RequestsServed == \A r \in Requests : pc[r] # "idle" ~> pc[r] = "idle"
=============================================================================
