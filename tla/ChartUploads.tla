---------------------------- MODULE ChartUploads ----------------------------
(***************************************************************************)
(* The requests that change storage: POST /api/charts (a package as the    *)
(* body, or a multipart form with a package and a provenance file), POST   *)
(* /api/prov and DELETE /api/charts/<name>/<version>.  handlers.go and     *)
(* api.go of pkg/chartmuseum/server/multitenant.                           *)
(*                                                                         *)
(* A handler makes several calls to the storage backend and holds no lock  *)
(* between them, so that every call is a step of its own.  A PutObject     *)
(* that fails writes nothing, as with the object stores.                   *)
(***************************************************************************)
EXTENDS Naturals, FiniteSets

CONSTANTS
    Uploaders,           \* goroutines that serve these requests
    Charts,              \* chart versions
    Repos,               \* repos of the tenants, Root among them or not
    Root,                \* the empty repo: the top of the storage
    AllowOverwrite,      \* --allow-overwrite
    MaxStorageObjects,   \* --max-storage-objects; 0 means no limit
    UseStatefiles,       \* index-cache.yaml is saved in storage
    FormRepos,           \* repos that clients send multipart forms to
    Absent,              \* no content
    Old,                 \* content of a request that is over
    MaxFailures          \* bound on the failures of storage

Packages == Charts \X {"tgz"}
Statefile == <<"index-cache", "yaml">>
Files == (Charts \X {"tgz", "prov"}) \cup {Statefile}
Paths == (Repos \cup {Root}) \X Files

ASSUME ConstantsAssumption ==
    /\ IsFiniteSet(Uploaders) /\ Uploaders # {}
    /\ IsFiniteSet(Charts)
    /\ AllowOverwrite \in BOOLEAN
    /\ UseStatefiles \in BOOLEAN
    /\ FormRepos \subseteq Repos
    /\ MaxStorageObjects \in Nat
    /\ MaxFailures \in Nat
    /\ Absent \notin Uploaders \cup {Old}
    /\ Old \notin Uploaders
    /\ Statefile \notin Charts \X {"tgz", "prov"}

VARIABLES
    storage,      \* storage[p]: whose content is at path p
    pc,           \* pc[u]: where u is in its handler
    req,          \* req[u]: the request of u and how far its files are
    status,       \* status[u]: the answer of u, 0 while it has none
    undone,       \* history: every DeleteObject of u's rollback succeeded
    failures

vars == <<storage, pc, req, status, undone, failures>>

Request == [repo : Repos \cup {Root},
            unchecked : SUBSET Files,   \* not checked for a conflict yet
            unsaved : SUBSET Files,     \* not put into storage yet
            saved : SUBSET Files]       \* storedFiles: put into storage
NoRequest == [repo |-> Root, unchecked |-> {}, unsaved |-> {}, saved |-> {}]

TypeOK ==
    /\ storage \in [Paths -> Uploaders \cup {Old, Absent}]
    /\ pc \in [Uploaders -> {"idle", "check", "limit", "put", "form", "formPut",
                             "rollback", "delete", "deleteProv"}]
    /\ req \in [Uploaders -> Request]
    /\ status \in [Uploaders -> {0, 200, 201, 404, 409, 500, 507}]
    /\ undone \in [Uploaders -> BOOLEAN]
    /\ failures \in 0..MaxFailures

Init ==
    /\ storage = [p \in Paths |-> Absent]
    /\ pc = [u \in Uploaders |-> "idle"]
    /\ req = [u \in Uploaders |-> NoRequest]
    /\ status = [u \in Uploaders |-> 0]
    /\ undone = [u \in Uploaders |-> TRUE]
    /\ failures = 0

----------------------------------------------------------------------------
Exists(rp, f) == storage[<<rp, f>>] # Absent

\* ListObjects: every file of a repo, charts or not.
Objects(rp) == {f \in Files : Exists(rp, f)}

\* A call to storage succeeds, or it fails.
CallEnds(ok) ==
    \/ ok /\ UNCHANGED failures
    \/ ~ok /\ failures < MaxFailures /\ failures' = failures + 1

Goto(u, to) == pc' = [pc EXCEPT ![u] = to]

Answer(u, code) ==
    /\ Goto(u, "idle")
    /\ req' = [req EXCEPT ![u] = NoRequest]
    /\ status' = [status EXCEPT ![u] = code]

\* A request for files fs arrives.  From now on what u wrote before is Old.
Begin(u, rp, fs, to) ==
    /\ pc[u] = "idle"
    /\ Goto(u, to)
    /\ storage' = [p \in Paths |-> IF storage[p] = u THEN Old ELSE storage[p]]
    /\ req' = [req EXCEPT ![u] = [repo |-> rp, unchecked |-> fs,
                                  unsaved |-> fs, saved |-> {}]]
    /\ status' = [status EXCEPT ![u] = 0]
    /\ undone' = [undone EXCEPT ![u] = TRUE]
    /\ UNCHANGED failures

\* POST of one package or one provenance file, as the body of the request.
PostFile(u, rp, f) ==
    Begin(u, rp, {f}, IF AllowOverwrite THEN "limit" ELSE "check")

\* POST of a multipart form with a package, a provenance file or both.
PostForm(u, rp, fs) ==
    /\ rp \in FormRepos
    /\ Begin(u, rp, fs, IF AllowOverwrite THEN "formPut" ELSE "form")

\* DELETE of a chart version: its package, and then its provenance file.
DeleteChartVersion(u, rp, c) ==
    Begin(u, rp, {<<c, "tgz">>, <<c, "prov">>}, "delete")

----------------------------------------------------------------------------
\* Mutants: each is a definition below with one plausible bug, and breaks one
\* of the properties at the end of the module.

\* Mutant: the limit is compared with > instead of >=.
LimitPassed(u, f) ==
    /\ MaxStorageObjects > 0
    /\ Cardinality(Objects(req[u].repo)) > MaxStorageObjects
    /\ ~(AllowOverwrite /\ Exists(req[u].repo, f))

\* Mutant: storedFiles is not kept.
PutFormForgets(u, f, ok) ==
    /\ pc[u] = "formPut"
    /\ f \in req[u].unsaved
    /\ CallEnds(ok)
    /\ IF ok
       THEN /\ storage' = [storage EXCEPT ![<<req[u].repo, f>>] = u]
            /\ IF req[u].unsaved = {f} THEN Answer(u, 201)
               ELSE /\ req' = [req EXCEPT ![u].unsaved = @ \ {f}]
                    /\ UNCHANGED <<pc, status>>
       ELSE Answer(u, 500) /\ UNCHANGED storage
    /\ UNCHANGED undone

----------------------------------------------------------------------------
\* uploadChartPackage and uploadProvenanceFile.

\* Any error of GetObject is taken to mean that the file does not exist.
CheckExists(u, f, ok) ==
    /\ pc[u] = "check"
    /\ f \in req[u].unchecked
    /\ CallEnds(ok)
    /\ IF ok /\ Exists(req[u].repo, f)
       THEN Answer(u, 409)
       ELSE /\ Goto(u, "limit")
            /\ req' = [req EXCEPT ![u].unchecked = {}]
            /\ UNCHANGED status
    /\ UNCHANGED <<storage, undone>>

\* checkStorageLimit: with AllowOverwrite, a file that is there may still be
\* replaced.
LimitReached(u, f) ==
    /\ MaxStorageObjects > 0
    /\ Cardinality(Objects(req[u].repo)) >= MaxStorageObjects
    /\ ~(AllowOverwrite /\ Exists(req[u].repo, f))

CheckStorageLimit(u, f, ok) ==
    /\ pc[u] = "limit"
    /\ f \in req[u].unsaved
    /\ ok \/ MaxStorageObjects > 0
    /\ CallEnds(ok)
    /\ IF ~ok THEN Answer(u, 500)
       ELSE IF LimitReached(u, f) THEN Answer(u, 507)
       ELSE Goto(u, "put") /\ UNCHANGED <<req, status>>
    /\ UNCHANGED <<storage, undone>>

PutFile(u, f, ok) ==
    /\ pc[u] = "put"
    /\ f \in req[u].unsaved
    /\ CallEnds(ok)
    /\ Answer(u, IF ok THEN 201 ELSE 500)
    /\ storage' = IF ok THEN [storage EXCEPT ![<<req[u].repo, f>>] = u]
                  ELSE storage
    /\ UNCHANGED undone

----------------------------------------------------------------------------
\* postPackageAndProvenanceRequestHandler.

\* getChartAndProvFiles checks the package before the provenance file.
ValidateChartOrProv(u, f, ok) ==
    /\ pc[u] = "form"
    /\ f \in req[u].unchecked
    /\ f \in Packages \/ req[u].unchecked \cap Packages = {}
    /\ CallEnds(ok)
    /\ IF ok /\ Exists(req[u].repo, f)
       THEN Answer(u, 409)
       ELSE /\ req' = [req EXCEPT ![u].unchecked = @ \ {f}]
            /\ IF req[u].unchecked = {f} THEN Goto(u, "formPut")
               ELSE UNCHANGED pc
            /\ UNCHANGED status
    /\ UNCHANGED <<storage, undone>>

\* The files are in a map: they are put in any order.
PutFormFile(u, f, ok) ==
    /\ pc[u] = "formPut"
    /\ f \in req[u].unsaved
    /\ CallEnds(ok)
    /\ IF ok
       THEN /\ storage' = [storage EXCEPT ![<<req[u].repo, f>>] = u]
            /\ IF req[u].unsaved = {f} THEN Answer(u, 201)
               ELSE /\ req' = [req EXCEPT ![u].unsaved = @ \ {f},
                                         ![u].saved = @ \cup {f}]
                    /\ UNCHANGED <<pc, status>>
       ELSE /\ IF req[u].saved = {} THEN Answer(u, 500)
               ELSE Goto(u, "rollback") /\ UNCHANGED <<req, status>>
            /\ UNCHANGED storage
    /\ UNCHANGED undone

\* The rollback deletes what has been saved, by its filename: the path lacks
\* the repo.  The result of DeleteObject is ignored.
RollbackPath(u, f) == <<Root, f>>

RollbackFile(u, f, ok) ==
    /\ pc[u] = "rollback"
    /\ f \in req[u].saved
    /\ CallEnds(ok)
    /\ storage' = IF ok THEN [storage EXCEPT ![RollbackPath(u, f)] = Absent]
                  ELSE storage
    /\ undone' = [undone EXCEPT ![u] = @ /\ ok]
    /\ IF req[u].saved = {f} THEN Answer(u, 500)
       ELSE /\ req' = [req EXCEPT ![u].saved = @ \ {f}]
            /\ UNCHANGED <<pc, status>>

----------------------------------------------------------------------------
\* deleteChartVersion.  Deleting what is not there is an error with the local
\* filesystem, and succeeds with the object stores.
DeletePackage(u, f, ok) ==
    /\ pc[u] = "delete"
    /\ f \in req[u].unsaved \cap Packages
    /\ CallEnds(ok)
    /\ \/ ok /\ Goto(u, "deleteProv") /\ UNCHANGED <<req, status>>
       \/ (ok => ~Exists(req[u].repo, f)) /\ Answer(u, 404)
    /\ storage' = IF ok THEN [storage EXCEPT ![<<req[u].repo, f>>] = Absent]
                  ELSE storage
    /\ UNCHANGED undone

\* The error of the second DeleteObject is ignored.
DeleteProvenance(u, f, ok) ==
    /\ pc[u] = "deleteProv"
    /\ f \in req[u].unsaved \ Packages
    /\ CallEnds(ok)
    /\ Answer(u, 200)
    /\ storage' = IF ok THEN [storage EXCEPT ![<<req[u].repo, f>>] = Absent]
                  ELSE storage
    /\ UNCHANGED undone

\* saveStatefile of a regeneration of the index puts index-cache.yaml without
\* looking at the limit.
SaveStatefile(rp) ==
    /\ UseStatefiles
    /\ storage' = [storage EXCEPT ![<<rp, Statefile>>] = Old]
    /\ UNCHANGED <<pc, req, status, undone, failures>>

Step(u, f, ok) ==
    \/ CheckExists(u, f, ok)
    \/ CheckStorageLimit(u, f, ok)
    \/ PutFile(u, f, ok)
    \/ ValidateChartOrProv(u, f, ok)
    \/ PutFormFile(u, f, ok)
    \/ RollbackFile(u, f, ok)
    \/ DeletePackage(u, f, ok)
    \/ DeleteProvenance(u, f, ok)

Arrive(u, rp, c) ==
    \/ PostFile(u, rp, <<c, "tgz">>)
    \/ PostFile(u, rp, <<c, "prov">>)
    \/ \E fs \in SUBSET {<<c, "tgz">>, <<c, "prov">>} \ {{}} : PostForm(u, rp, fs)
    \/ DeleteChartVersion(u, rp, c)

Next ==
    \/ \E u \in Uploaders, rp \in Repos, c \in Charts : Arrive(u, rp, c)
    \/ \E u \in Uploaders, f \in Files, ok \in BOOLEAN : Step(u, f, ok)
    \/ \E rp \in Repos : SaveStatefile(rp)

Spec == Init /\ [][Next]_vars

----------------------------------------------------------------------------
\* Files that requests for repo rp are past the checks for and will put.
Pending(rp) ==
    {f \in Files : \E u \in Uploaders : /\ pc[u] = "put" /\ req[u].repo = rp
                                        /\ f \in req[u].unsaved}

Statefiles == IF UseStatefiles THEN {Statefile} ELSE {}

\* "maximum number of objects allowed in storage (per tenant)": the limit is
\* checked some steps before the file is put, and statefiles are not subject
\* to it.  A repo that gets no multipart form goes over the limit by at most
\* the uploads in flight but one, and its statefile, whatever is done to the
\* other repos.
LimitOvershoot ==
    MaxStorageObjects > 0 =>
        \A rp \in Repos \ FormRepos :
            Cardinality(Objects(rp) \cup Pending(rp) \cup Statefiles)
                <= MaxStorageObjects + Cardinality(Uploaders) - 1
                       + Cardinality(Statefiles)

\* "Undo transaction if there is an error": when a form upload has failed,
\* and no DeleteObject of its rollback did, nothing it wrote is in storage.
FailedLeavesNothing ==
    \A u \in Uploaders : status[u] = 500 /\ undone[u] =>
        \A p \in Paths : storage[p] # u
=============================================================================
