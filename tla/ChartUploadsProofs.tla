------------------------- MODULE ChartUploadsProofs -------------------------
(***************************************************************************)
(* For any number of requests, charts and tenants: by how much             *)
(* check-then-put can exceed --max-storage-objects, and that the rollback  *)
(* of a form sent to the top of the storage is complete.                   *)
(***************************************************************************)
EXTENDS ChartUploads, FiniteSetTheorems, FunctionTheorems, TLAPS

\* A request that puts a single file has one file to put.
SingleFile ==
    \A u \in Uploaders : pc[u] \in {"check", "limit", "put"} =>
        \E f \in Files : req[u].unsaved = {f}

\* A request in the handler of forms is for a repo that forms are sent to.
FormsInFormRepos ==
    \A u \in Uploaders :
        pc[u] \in {"form", "formPut", "rollback"} => req[u].repo \in FormRepos

LInv == TypeOK /\ SingleFile /\ FormsInFormRepos /\ LimitOvershoot

----------------------------------------------------------------------------
\* A chart version has a package and a provenance file, none a statefile.
LEMMA FileFacts ==
    /\ IsFiniteSet(Files)
    /\ \A c \in Charts : <<c, "tgz">> \in Files /\ <<c, "prov">> \in Files
    /\ Statefile \in Files
  <1>1. IsFiniteSet({"tgz", "prov"})
    <2>1. IsFiniteSet({"tgz"}) /\ {"tgz", "prov"} = {"tgz"} \cup {"prov"}
      BY FS_Singleton
    <2> QED BY <2>1, FS_AddElement
  <1>2. IsFiniteSet(Charts \X {"tgz", "prov"})
    BY <1>1, FS_Product, ConstantsAssumption
  <1>3. IsFiniteSet(Files)
    BY <1>2, FS_AddElement DEF Files
  <1> QED BY <1>3 DEF Files

\* The files of a form are files.
LEMMA FormFiles ==
    ASSUME NEW c \in Charts, NEW fs \in SUBSET {<<c, "tgz">>, <<c, "prov">>}
    PROVE  fs \in SUBSET Files
  <1>1. SUFFICES ASSUME NEW f \in fs PROVE f \in Files
    OBVIOUS
  <1>2. f = <<c, "tgz">> \/ f = <<c, "prov">>
    OBVIOUS
  <1> QED BY <1>2, FileFacts

\* The steps of a request keep it a request.
LEMMA RequestUpdates ==
    ASSUME NEW q \in [Uploaders -> Request], NEW u \in Uploaders,
           NEW S \in SUBSET Files, NEW T \in SUBSET Files
    PROVE  /\ [q EXCEPT ![u].unchecked = S] \in [Uploaders -> Request]
           /\ [q EXCEPT ![u].saved = S] \in [Uploaders -> Request]
           /\ [q EXCEPT ![u].unsaved = S, ![u].saved = T]
                  \in [Uploaders -> Request]
  <1>1. [q EXCEPT ![u].unchecked = S] \in [Uploaders -> Request]
    BY DEF Request
  <1>2. [q EXCEPT ![u].saved = S] \in [Uploaders -> Request]
    BY DEF Request
  <1> DEFINE r == [q EXCEPT ![u].unsaved = S]
  <1>3. r \in [Uploaders -> Request]
    BY DEF Request
  <1>4. [r EXCEPT ![u].saved = T] \in [Uploaders -> Request]
    BY ZenonT(30), <1>3 DEF Request
  <1>5. [q EXCEPT ![u].unsaved = S, ![u].saved = T] = [r EXCEPT ![u].saved = T]
    OBVIOUS
  <1> QED BY <1>1, <1>2, <1>4, <1>5

\* Typing.
LEMMA TypeStep ==
    ASSUME TypeOK, [Next]_vars
    PROVE  TypeOK'
  <1> USE DEF TypeOK, Request
  <1>1. ASSUME NEW u \in Uploaders, NEW rp \in Repos, NEW fs \in SUBSET Files,
               NEW to \in {"check", "limit", "form", "formPut", "delete"},
               Begin(u, rp, fs, to)
        PROVE  TypeOK'
    BY <1>1 DEF Begin, Goto
  <1>2. ASSUME NEW u \in Uploaders, NEW rp \in Repos, NEW c \in Charts,
               Arrive(u, rp, c)
        PROVE  TypeOK'
    <2>1. {<<c, "tgz">>} \in SUBSET Files /\ {<<c, "prov">>} \in SUBSET Files
          /\ {<<c, "tgz">>, <<c, "prov">>} \in SUBSET Files
      BY FileFacts
    <2>2. CASE \E fs \in SUBSET {<<c, "tgz">>, <<c, "prov">>} \ {{}} :
                  PostForm(u, rp, fs)
      <3>1. PICK fs \in SUBSET {<<c, "tgz">>, <<c, "prov">>} : PostForm(u, rp, fs)
        BY <2>2
      <3>2. fs \in SUBSET Files
        BY FormFiles
      <3> QED BY <1>1, <3>1, <3>2, ConstantsAssumption DEF PostForm
    <2>3. CASE \/ PostFile(u, rp, <<c, "tgz">>) \/ PostFile(u, rp, <<c, "prov">>)
               \/ DeleteChartVersion(u, rp, c)
      BY <1>1, <2>1, <2>3, ConstantsAssumption DEF PostFile, DeleteChartVersion
    <2> QED BY <1>2, <2>2, <2>3 DEF Arrive
  <1>3. ASSUME NEW u \in Uploaders, NEW f \in Files, NEW ok \in BOOLEAN,
               Step(u, f, ok)
        PROVE  TypeOK'
    <2>1. <<req[u].repo, f>> \in Paths /\ <<Root, f>> \in Paths
      BY DEF Paths
    <2>2. CallEnds(ok) => failures' \in 0..MaxFailures
      BY ConstantsAssumption DEF CallEnds
    <2> DEFINE R == [Uploaders -> Request]
    <2>n. [req EXCEPT ![u] = NoRequest] \in R
      BY DEF NoRequest
    <2>s. /\ req[u].unchecked \in SUBSET Files
          /\ req[u].unsaved \in SUBSET Files /\ req[u].saved \in SUBSET Files
          /\ req \in R
      OBVIOUS
    <2>r. ASSUME NEW S \in SUBSET Files, NEW T \in SUBSET Files
          PROVE  /\ [req EXCEPT ![u].unchecked = S] \in [Uploaders -> Request]
                 /\ [req EXCEPT ![u].saved = S] \in [Uploaders -> Request]
                 /\ [req EXCEPT ![u].unsaved = S, ![u].saved = T]
                        \in [Uploaders -> Request]
      <3> HIDE DEF Request, TypeOK
      <3> QED BY <2>s, RequestUpdates
    <2>q. Step(u, f, ok) => req' \in R
      <3> HIDE DEF Request, TypeOK, R
      <3>1. CASE CheckExists(u, f, ok)
        <4>1. [req EXCEPT ![u].unchecked = {}] \in R
          BY <2>r DEF R
        <4> QED BY <3>1, <4>1, <2>n DEF CheckExists, Answer
      <3>2. CASE CheckStorageLimit(u, f, ok)
        BY <3>2, <2>n, <2>s DEF CheckStorageLimit, Answer
      <3>3. CASE PutFile(u, f, ok) \/ DeleteProvenance(u, f, ok)
        BY <3>3, <2>n DEF PutFile, DeleteProvenance, Answer
      <3>4. CASE ValidateChartOrProv(u, f, ok)
        <4>1. [req EXCEPT ![u].unchecked = @ \ {f}] \in R
          BY <2>r, <2>s DEF R
        <4> QED BY <3>4, <4>1, <2>n DEF ValidateChartOrProv, Answer
      <3>5. CASE PutFormFile(u, f, ok)
        <4>1. req[u].unsaved \ {f} \in SUBSET Files
              /\ req[u].saved \cup {f} \in SUBSET Files
          BY <2>s
        <4>2. [req EXCEPT ![u].unsaved = req[u].unsaved \ {f},
                          ![u].saved = req[u].saved \cup {f}] \in R
          BY <2>r, <4>1 DEF R
        <4>3. [req EXCEPT ![u].unsaved = @ \ {f}, ![u].saved = @ \cup {f}]
                  = [req EXCEPT ![u].unsaved = req[u].unsaved \ {f},
                                ![u].saved = req[u].saved \cup {f}]
          BY <2>s DEF R, Request
        <4> QED BY <3>5, <4>2, <4>3, <2>n, <2>s DEF PutFormFile, Answer
      <3>6. CASE RollbackFile(u, f, ok)
        <4>1. [req EXCEPT ![u].saved = @ \ {f}] \in R
          BY <2>r, <2>s DEF R
        <4> QED BY <3>6, <4>1, <2>n DEF RollbackFile, Answer
      <3>7. CASE DeletePackage(u, f, ok)
        BY <3>7, <2>n, <2>s DEF DeletePackage, Answer
      <3> QED BY <3>1, <3>2, <3>3, <3>4, <3>5, <3>6, <3>7 DEF Step
    <2>p. req' \in R
      BY <1>3, <2>q
    <2> HIDE DEF Request
    <2>3. CASE CheckExists(u, f, ok)
      BY <2>2, <2>p, <2>3 DEF CheckExists, Answer, Goto
    <2>4. CASE CheckStorageLimit(u, f, ok)
      BY <2>2, <2>p, <2>4 DEF CheckStorageLimit, Answer, Goto
    <2>5. CASE PutFile(u, f, ok)
      BY <2>1, <2>2, <2>p, <2>5 DEF PutFile, Answer, Goto
    <2>6. CASE ValidateChartOrProv(u, f, ok)
      BY <2>2, <2>p, <2>6 DEF ValidateChartOrProv, Answer, Goto
    <2>7. CASE PutFormFile(u, f, ok)
      BY <2>1, <2>2, <2>p, <2>7 DEF PutFormFile, Answer, Goto
    <2>8. CASE RollbackFile(u, f, ok)
      BY <2>1, <2>2, <2>p, <2>8 DEF RollbackFile, RollbackPath, Answer, Goto
    <2>9. CASE DeletePackage(u, f, ok)
      BY <2>1, <2>2, <2>p, <2>9 DEF DeletePackage, Answer, Goto
    <2>10. CASE DeleteProvenance(u, f, ok)
      BY <2>1, <2>2, <2>p, <2>10 DEF DeleteProvenance, Answer, Goto
    <2> QED BY <1>3, <2>3, <2>4, <2>5, <2>6, <2>7, <2>8, <2>9, <2>10 DEF Step
  <1>4. ASSUME NEW rp \in Repos, SaveStatefile(rp)
        PROVE  TypeOK'
    <2>1. <<rp, Statefile>> \in Paths
      BY FileFacts DEF Paths
    <2> QED BY <1>4, <2>1 DEF SaveStatefile
  <1>5. CASE UNCHANGED vars
    BY <1>5 DEF vars
  <1> QED BY <1>2, <1>3, <1>4, <1>5 DEF Next

\* A request keeps its one file until it puts it.
LEMMA SingleFileStep ==
    ASSUME TypeOK, SingleFile, [Next]_vars
    PROVE  SingleFile'
  <1> USE DEF TypeOK, Request
  <1>1. ASSUME NEW u \in Uploaders, NEW rp \in Repos, NEW c \in Charts,
               Arrive(u, rp, c)
        PROVE  SingleFile'
    <2>1. <<c, "tgz">> \in Files /\ <<c, "prov">> \in Files
      BY FileFacts
    <2>2. ASSUME NEW v \in Uploaders, v # u
          PROVE  pc'[v] = pc[v] /\ req'[v].unsaved = req[v].unsaved
      BY <1>1, <2>2 DEF Arrive, PostFile, PostForm, DeleteChartVersion, Begin, Goto
    <2>3. pc'[u] \in {"check", "limit", "put"} =>
              req'[u].unsaved = {<<c, "tgz">>} \/ req'[u].unsaved = {<<c, "prov">>}
      BY <1>1 DEF Arrive, PostFile, PostForm, DeleteChartVersion, Begin, Goto
    <2> QED BY <2>1, <2>2, <2>3 DEF SingleFile
  <1>2. ASSUME NEW u \in Uploaders, NEW f \in Files, NEW ok \in BOOLEAN,
               Step(u, f, ok)
        PROVE  SingleFile'
    <2>1. \A v \in Uploaders : v # u => pc'[v] = pc[v] /\ req'[v].unsaved = req[v].unsaved
      BY <1>2 DEF Step, CheckExists, CheckStorageLimit, PutFile,
           ValidateChartOrProv, PutFormFile, RollbackFile, DeletePackage,
           DeleteProvenance, Answer, NoRequest, Goto
    <2>2. pc'[u] \in {"check", "limit", "put"} =>
              pc[u] \in {"check", "limit", "put"} /\ req'[u].unsaved = req[u].unsaved
      BY <1>2 DEF Step, CheckExists, CheckStorageLimit, PutFile,
           ValidateChartOrProv, PutFormFile, RollbackFile, DeletePackage,
           DeleteProvenance, Answer, NoRequest, Goto
    <2> QED BY <2>1, <2>2 DEF SingleFile
  <1>3. ASSUME NEW rp \in Repos, SaveStatefile(rp)
        PROVE  SingleFile'
    BY <1>3 DEF SaveStatefile, SingleFile
  <1>4. CASE UNCHANGED vars
    BY <1>4 DEF vars, SingleFile
  <1> QED BY <1>1, <1>2, <1>3, <1>4 DEF Next

\* The union of one singleton for each member of U is no larger than U.
LEMMA SingletonUnion ==
    ASSUME NEW U, IsFiniteSet(U), NEW F, NEW g,
           \A u \in U : \E f \in F : g[u] = {f},
           NEW T, \A t : t \in T <=> t \in F /\ \E u \in U : t \in g[u]
    PROVE  IsFiniteSet(T) /\ Cardinality(T) <= Cardinality(U)
  <1> DEFINE h == [u \in U |-> CHOOSE f \in F : g[u] = {f}]
  <1>1. \A u \in U : h[u] \in F /\ g[u] = {h[u]}
    OBVIOUS
  <1>2. h \in [U -> T]
    BY <1>1
  <1>3. \A t \in T : \E u \in U : h[u] = t
    BY <1>1
  <1>4. h \in Surjection(U, T)
    BY <1>2, <1>3 DEF Surjection
  <1> QED BY <1>4, FS_Surjection

\* A union has at most as many members as its parts together.
LEMMA UnionBound ==
    ASSUME NEW S, IsFiniteSet(S), NEW T, IsFiniteSet(T)
    PROVE  /\ IsFiniteSet(S \cup T)
           /\ Cardinality(S \cup T) \in Nat
           /\ Cardinality(S \cup T) <= Cardinality(S) + Cardinality(T)
  <1>1. IsFiniteSet(S \cup T) /\ IsFiniteSet(S \cap T)
    BY FS_Union, FS_Intersection
  <1>2. /\ Cardinality(S) \in Nat /\ Cardinality(T) \in Nat
        /\ Cardinality(S \cup T) \in Nat /\ Cardinality(S \cap T) \in Nat
    BY <1>1, FS_CardinalityType
  <1>3. Cardinality(S \cup T) =
            Cardinality(S) + Cardinality(T) - Cardinality(S \cap T)
    BY FS_Union
  <1> QED BY <1>1, <1>2, <1>3

\* A repo has at most one statefile.
LEMMA StatefileFacts ==
    /\ IsFiniteSet(Statefiles) /\ Cardinality(Statefiles) \in Nat
    /\ Statefiles \subseteq Files
  <1>1. CASE UseStatefiles
    <2>1. Statefiles = {Statefile}
      BY <1>1 DEF Statefiles
    <2>2. IsFiniteSet({Statefile}) /\ Cardinality({Statefile}) = 1
      BY FS_Singleton
    <2> QED BY <2>1, <2>2, FileFacts
  <1>2. CASE ~UseStatefiles
    <2>1. Statefiles = {}
      BY <1>2 DEF Statefiles
    <2> QED BY <2>1, FS_EmptySet
  <1> QED BY <1>1, <1>2

\* Only a form takes a request to the handler of forms.
LEMMA FormReposStep ==
    ASSUME TypeOK, FormsInFormRepos, [Next]_vars
    PROVE  FormsInFormRepos'
  <1> SUFFICES ASSUME NEW v \in Uploaders,
                      pc'[v] \in {"form", "formPut", "rollback"}
               PROVE  req'[v].repo \in FormRepos
    BY DEF FormsInFormRepos
  <1>0. pc[v] \in {"form", "formPut", "rollback"} => req[v].repo \in FormRepos
    BY DEF FormsInFormRepos
  <1> USE DEF TypeOK, Request
  <1>1. ASSUME NEW u \in Uploaders, NEW rp \in Repos, NEW c \in Charts,
               Arrive(u, rp, c)
        PROVE  req'[v].repo \in FormRepos
    BY <1>0, <1>1 DEF Arrive, PostFile, PostForm, DeleteChartVersion, Begin, Goto
  <1>2. ASSUME NEW u \in Uploaders, NEW f \in Files, NEW ok \in BOOLEAN,
               Step(u, f, ok)
        PROVE  req'[v].repo \in FormRepos
    BY SMTT(30), <1>0, <1>2 DEF Step, CheckExists, CheckStorageLimit, PutFile,
         ValidateChartOrProv, PutFormFile, RollbackFile, DeletePackage,
         DeleteProvenance, Answer, NoRequest, Goto
  <1>3. CASE (\E rp \in Repos : SaveStatefile(rp)) \/ UNCHANGED vars
    BY <1>0, <1>3 DEF SaveStatefile, vars
  <1> QED BY <1>1, <1>2, <1>3 DEF Next

\* The objects of a repo and the files about to join them.
Claimed(rp) == Objects(rp) \cup Pending(rp) \cup Statefiles

\* The bound: a step either claims nothing new, or it is a check that found
\* room for an object, when what is claimed is at most the objects, one file
\* for each request and the statefile.
LEMMA LimitStep ==
    ASSUME LInv, [Next]_vars
    PROVE  LimitOvershoot'
  <1> SUFFICES ASSUME MaxStorageObjects > 0, NEW rp \in Repos \ FormRepos
               PROVE  Cardinality(Claimed(rp)') <= MaxStorageObjects
                          + Cardinality(Uploaders) - 1 + Cardinality(Statefiles)
    BY DEF LimitOvershoot, Claimed, Statefiles
  <1> USE DEF LInv, TypeOK, Request
  <1> DEFINE Bound == MaxStorageObjects + Cardinality(Uploaders) - 1
                          + Cardinality(Statefiles)
  <1>a. /\ IsFiniteSet(Statefiles) /\ Cardinality(Statefiles) \in Nat
        /\ Cardinality(Uploaders) \in Nat
        /\ MaxStorageObjects \in Nat
        /\ Statefiles \subseteq Files
    BY StatefileFacts, FS_CardinalityType, ConstantsAssumption
  <1>b. Cardinality(Claimed(rp)) <= Bound
    BY DEF LimitOvershoot, Claimed
  <1>c. IsFiniteSet(Claimed(rp)) /\ Cardinality(Claimed(rp)) \in Nat
    <2>1. Claimed(rp) \subseteq Files
      BY <1>a DEF Claimed, Objects, Pending
    <2> QED BY <2>1, FileFacts, FS_Subset, FS_CardinalityType
  <1>d. ASSUME Claimed(rp)' \subseteq Claimed(rp)
        PROVE  Cardinality(Claimed(rp)') <= Bound
    <2>1. IsFiniteSet(Claimed(rp)')
          /\ Cardinality(Claimed(rp)') <= Cardinality(Claimed(rp))
      BY <1>c, <1>d, FS_Subset
    <2>2. Cardinality(Claimed(rp)') \in Nat
      BY <2>1, FS_CardinalityType
    <2> QED BY <1>a, <1>b, <1>c, <2>1, <2>2
  <1>1. ASSUME NEW u \in Uploaders, NEW q \in Repos, NEW c \in Charts,
               Arrive(u, q, c)
        PROVE  Claimed(rp)' \subseteq Claimed(rp)
    <2>1. PICK fs, to : to # "put" /\ Begin(u, q, fs, to)
      BY <1>1 DEF Arrive, PostFile, PostForm, DeleteChartVersion
    <2>2. \A f \in Files : <<rp, f>> \in Paths
      BY DEF Paths
    <2>3. Objects(rp)' \subseteq Objects(rp)
      BY <2>1, <2>2, ConstantsAssumption DEF Begin, Objects, Exists
    <2>4. Pending(rp)' \subseteq Pending(rp)
      BY <2>1 DEF Begin, Goto, Pending
    <2> QED BY <2>3, <2>4 DEF Claimed, Statefiles
  <1>2. ASSUME NEW u \in Uploaders, NEW f \in Files, NEW ok \in BOOLEAN,
               \/ CheckExists(u, f, ok) \/ ValidateChartOrProv(u, f, ok)
               \/ RollbackFile(u, f, ok) \/ DeletePackage(u, f, ok)
               \/ DeleteProvenance(u, f, ok)
        PROVE  Claimed(rp)' \subseteq Claimed(rp)
    <2>1. \A g \in Files : <<rp, g>> \in Paths
      BY DEF Paths
    <2>2. Objects(rp)' \subseteq Objects(rp)
      <3>1. \A p \in Paths : storage'[p] \in {storage[p], Absent}
        BY <1>2 DEF CheckExists, ValidateChartOrProv, RollbackFile,
             DeletePackage, DeleteProvenance
      <3> QED BY <2>1, <3>1 DEF Objects, Exists
    <2>3. Pending(rp)' \subseteq Pending(rp)
      BY <1>2 DEF CheckExists, ValidateChartOrProv, RollbackFile,
           DeletePackage, DeleteProvenance, Answer, NoRequest, Goto, Pending
    <2> QED BY <2>2, <2>3 DEF Claimed, Statefiles
  <1>3. ASSUME NEW u \in Uploaders, NEW f \in Files, NEW ok \in BOOLEAN,
               PutFile(u, f, ok)
        PROVE  Claimed(rp)' \subseteq Claimed(rp)
    <2>1. \A g \in Files : <<rp, g>> \in Paths
      BY DEF Paths
    <2>2. req[u].repo = rp => f \in Pending(rp)
      BY <1>3 DEF PutFile, Pending
    <2>3. Objects(rp)' \subseteq Objects(rp) \cup Pending(rp)
      BY <1>3, <2>1, <2>2 DEF PutFile, Objects, Exists
    <2>4. Pending(rp)' \subseteq Pending(rp)
      BY <1>3 DEF PutFile, Answer, NoRequest, Goto, Pending
    <2> QED BY <2>3, <2>4 DEF Claimed, Statefiles
  <1>4. ASSUME NEW u \in Uploaders, NEW f \in Files, NEW ok \in BOOLEAN,
               CheckStorageLimit(u, f, ok)
        PROVE  Cardinality(Claimed(rp)') <= Bound
    <2>1. Objects(rp)' = Objects(rp)
      BY <1>4 DEF CheckStorageLimit, Objects, Exists
    <2>2. req[u].unsaved = {f}
      BY <1>4 DEF CheckStorageLimit, SingleFile
    <2>3. CASE req[u].repo # rp \/ pc'[u] # "put"
      <3>1. Pending(rp)' \subseteq Pending(rp)
        BY <1>4, <2>3 DEF CheckStorageLimit, Answer, NoRequest, Goto, Pending
      <3> QED BY <1>d, <2>1, <3>1 DEF Claimed, Statefiles
    <2>4. CASE f \in Objects(rp)
      <3>1. Pending(rp)' \subseteq Pending(rp) \cup {f}
        BY <1>4, <2>2 DEF CheckStorageLimit, Answer, NoRequest, Goto, Pending
      <3> QED BY <1>d, <2>1, <2>4, <3>1 DEF Claimed, Statefiles
    <2>5. CASE req[u].repo = rp /\ pc'[u] = "put" /\ f \notin Objects(rp)
      <3>1. ~LimitReached(u, f)
        BY <1>4, <2>5 DEF CheckStorageLimit, Answer, NoRequest, Goto
      <3>2. IsFiniteSet(Objects(rp)) /\ Cardinality(Objects(rp)) \in Nat
        <4>1. Objects(rp) \subseteq Files
          BY DEF Objects
        <4> QED BY <4>1, FileFacts, FS_Subset, FS_CardinalityType
      <3>3. Cardinality(Objects(rp)) <= MaxStorageObjects - 1
        BY <1>a, <2>5, <3>1, <3>2 DEF LimitReached, Objects
      <3> DEFINE U == {v \in Uploaders : pc'[v] = "put" /\ req'[v].repo = rp}
                 toPut == [v \in Uploaders |-> req'[v].unsaved]
                 T == {g \in Files : \E v \in U : g \in toPut[v]}
      <3>4. IsFiniteSet(U) /\ Cardinality(U) <= Cardinality(Uploaders)
            /\ Cardinality(U) \in Nat
        <4>1. U \subseteq Uploaders
          OBVIOUS
        <4> QED BY <4>1, ConstantsAssumption, FS_Subset, FS_CardinalityType
      <3>5. \A v \in U : \E g \in Files : toPut[v] = {g}
        BY SingleFileStep DEF SingleFile
      <3>6. IsFiniteSet(T) /\ Cardinality(T) <= Cardinality(U)
        <4>1. \A t : t \in T <=> t \in Files /\ \E v \in U : t \in toPut[v]
          OBVIOUS
        <4> HIDE DEF U, T, toPut
        <4> QED BY <3>4, <3>5, <4>1, SingletonUnion
      <3>7. Pending(rp)' = T
        BY DEF Pending
      <3>8. Cardinality(T) \in Nat
        BY <3>6, FS_CardinalityType
      <3> HIDE DEF U, T
      <3>9. /\ IsFiniteSet(Objects(rp) \cup T)
            /\ Cardinality(Objects(rp) \cup T) \in Nat
            /\ Cardinality(Objects(rp) \cup T)
                   <= Cardinality(Objects(rp)) + Cardinality(T)
        BY <3>2, <3>6, UnionBound
      <3>10. /\ Cardinality((Objects(rp) \cup T) \cup Statefiles) \in Nat
             /\ Cardinality((Objects(rp) \cup T) \cup Statefiles)
                    <= Cardinality(Objects(rp) \cup T) + Cardinality(Statefiles)
        BY <1>a, <3>9, UnionBound
      <3>11. Claimed(rp)' = (Objects(rp) \cup T) \cup Statefiles
        BY <2>1, <3>7 DEF Claimed, Statefiles
      <3> QED BY <1>a, <3>2, <3>3, <3>4, <3>6, <3>8, <3>9, <3>10, <3>11
    <2> QED BY <2>3, <2>4, <2>5
  <1>5. ASSUME NEW u \in Uploaders, NEW f \in Files, NEW ok \in BOOLEAN,
               PutFormFile(u, f, ok)
        PROVE  Claimed(rp)' \subseteq Claimed(rp)
    <2>1. req[u].repo # rp
      BY <1>5 DEF PutFormFile, FormsInFormRepos
    <2>2. \A g \in Files : storage'[<<rp, g>>] = storage[<<rp, g>>]
      BY <1>5, <2>1 DEF PutFormFile, Paths
    <2>3. Objects(rp)' = Objects(rp)
      BY <2>2 DEF Objects, Exists
    <2>4. Pending(rp)' \subseteq Pending(rp)
      BY <1>5, <2>1 DEF PutFormFile, Answer, NoRequest, Goto, Pending
    <2> QED BY <2>3, <2>4 DEF Claimed, Statefiles
  <1>6. ASSUME NEW q \in Repos, SaveStatefile(q)
        PROVE  Claimed(rp)' \subseteq Claimed(rp)
    <2>1. Objects(rp)' \subseteq Objects(rp) \cup Statefiles
      <3>1. \A g \in Files : <<rp, g>> \in Paths
        BY DEF Paths
      <3> QED BY <1>6, <3>1 DEF SaveStatefile, Objects, Exists, Statefiles
    <2>2. Pending(rp)' = Pending(rp)
      BY <1>6 DEF SaveStatefile, Pending
    <2> QED BY <2>1, <2>2 DEF Claimed, Statefiles
  <1>7. ASSUME UNCHANGED vars
        PROVE  Claimed(rp)' \subseteq Claimed(rp)
    BY <1>7 DEF vars, Claimed, Objects, Exists, Pending, Statefiles
  <1> QED BY <1>d, <1>1, <1>2, <1>3, <1>4, <1>5, <1>6, <1>7 DEF Next, Step

----------------------------------------------------------------------------
\* Storage is empty and no request is running.
LEMMA InitInv == Init => LInv
  <1> SUFFICES ASSUME Init PROVE LInv
    OBVIOUS
  <1>1. TypeOK
    BY ConstantsAssumption DEF Init, TypeOK, Request, NoRequest
  <1>2. SingleFile /\ FormsInFormRepos
    BY DEF Init, SingleFile, FormsInFormRepos
  <1>3. LimitOvershoot
    <2>1. \A rp \in Repos : Objects(rp) = {} /\ Pending(rp) = {}
      BY DEF Init, Objects, Exists, Pending, Paths
    <2>2. Cardinality(Uploaders) \in Nat /\ Cardinality(Uploaders) # 0
      BY FS_CardinalityType, FS_EmptySet, ConstantsAssumption
    <2>3. Cardinality(Statefiles) \in Nat
      BY StatefileFacts
    <2>4. \A rp \in Repos : Objects(rp) \cup Pending(rp) \cup Statefiles = Statefiles
      BY <2>1
    <2>5. MaxStorageObjects > 0 =>
              Cardinality(Statefiles) <= MaxStorageObjects
                  + Cardinality(Uploaders) - 1 + Cardinality(Statefiles)
      BY <2>2, <2>3, ConstantsAssumption
    <2> QED BY <2>4, <2>5 DEF LimitOvershoot
  <1> QED BY <1>1, <1>2, <1>3 DEF LInv

\* --max-storage-objects is exceeded by at most one object for every upload
\* in flight but one, and the statefile, whatever the requests do.
THEOREM LimitHolds == Spec => []LimitOvershoot
  <1>1. LInv /\ [Next]_vars => LInv'
    BY TypeStep, SingleFileStep, FormReposStep, LimitStep DEF LInv
  <1>2. LInv => LimitOvershoot
    BY DEF LInv
  <1> QED BY InitInv, <1>1, <1>2, PTL DEF Spec

\* The variables of the upload handlers keep their types.
THEOREM UploadTypeCorrect == Spec => []TypeOK
  <1>1. Init => TypeOK
    BY InitInv DEF LInv
  <1>2. TypeOK /\ [Next]_vars => TypeOK'
    BY TypeStep
  <1> QED BY <1>1, <1>2, PTL DEF Spec

----------------------------------------------------------------------------
\* The rollback of forms sent to Root.  A request has no answer while it runs,
\* and what it has written until then are files that its rollback will delete.
Undoable(u) ==
    /\ pc[u] # "idle" => status[u] = 0
    /\ pc[u] # "idle" /\ undone[u] =>
           \A p \in Paths : storage[p] = u =>
               /\ pc[u] \in {"formPut", "rollback"}
               /\ \E f \in req[u].saved : p = <<Root, f>>
    /\ status[u] = 500 /\ undone[u] => \A p \in Paths : storage[p] # u

UInv == TypeOK /\ FormsInFormRepos /\ \A u \in Uploaders : Undoable(u)

\* Nobody but v writes what is v's.
LEMMA OthersWrites ==
    ASSUME TypeOK, NEW v \in Uploaders, Undoable(v),
           UNCHANGED <<pc[v], req[v], status[v], undone[v]>>,
           \A p \in Paths : storage'[p] = v => storage[p] = v
    PROVE  Undoable(v)'
  BY DEF Undoable

LEMMA OthersSteps ==
    ASSUME TypeOK, NEW v \in Uploaders, NEW u \in Uploaders \ {v}, NEW f \in Files,
           NEW ok \in BOOLEAN, Step(u, f, ok)
    PROVE  /\ UNCHANGED <<pc[v], req[v], status[v], undone[v]>>
           /\ \A p \in Paths : storage'[p] = v => storage[p] = v
  <1> USE DEF TypeOK
  <1>1. UNCHANGED <<pc[v], status[v], undone[v]>>
    BY DEF Step, CheckExists, CheckStorageLimit, PutFile, ValidateChartOrProv,
         PutFormFile, RollbackFile, DeletePackage, DeleteProvenance, Answer, Goto
  <1>2. req'[v] = req[v]
    BY DEF Step, CheckExists, CheckStorageLimit, PutFile, ValidateChartOrProv,
         PutFormFile, RollbackFile, DeletePackage, DeleteProvenance, Answer
  <1>3. PICK path \in {<<req[u].repo, f>>, <<Root, f>>} :
            storage' \in {storage, [storage EXCEPT ![path] = u],
                          [storage EXCEPT ![path] = Absent]}
    BY DEF Step, CheckExists, CheckStorageLimit, PutFile, ValidateChartOrProv,
         PutFormFile, RollbackFile, RollbackPath, DeletePackage, DeleteProvenance
  <1>4. \A p \in Paths : storage'[p] = v => storage[p] = v
    BY <1>3, ConstantsAssumption
  <1> QED BY <1>1, <1>2, <1>4

\* A new request has written nothing.
LEMMA BeginUndoable ==
    ASSUME TypeOK, NEW v \in Uploaders, Undoable(v), NEW u \in Uploaders,
           NEW rp \in Repos, NEW c \in Charts, Arrive(u, rp, c)
    PROVE  Undoable(v)'
  <1> USE DEF TypeOK
  <1>1. PICK fs, to : Begin(u, rp, fs, to)
    BY DEF Arrive, PostFile, PostForm, DeleteChartVersion
  <1>2. CASE v = u
    <2>1. status'[u] = 0
      BY <1>1 DEF Begin
    <2>2. \A p \in Paths : storage'[p] # u
      BY <1>1, ConstantsAssumption DEF Begin
    <2> QED BY <1>2, <2>1, <2>2 DEF Undoable
  <1>3. CASE v # u
    <2>1. UNCHANGED <<pc[v], req[v], status[v], undone[v]>>
      BY <1>1, <1>3 DEF Begin, Goto
    <2>2. \A p \in Paths : storage'[p] = v => storage[p] = v
      BY <1>1, <1>3, ConstantsAssumption DEF Begin
    <2> QED BY <2>1, <2>2, OthersWrites
  <1> QED BY <1>2, <1>3

\* The steps of a request.
LEMMA StepUndoable ==
    ASSUME UInv, FormRepos \subseteq {Root}, NEW u \in Uploaders, NEW f \in Files,
           NEW ok \in BOOLEAN, Step(u, f, ok)
    PROVE  Undoable(u)'
  <1>0. /\ pc \in [Uploaders -> {"idle", "check", "limit", "put", "form", "formPut",
                                 "rollback", "delete", "deleteProv"}]
        /\ status \in [Uploaders -> {0, 200, 201, 404, 409, 500, 507}]
        /\ req \in [Uploaders -> Request] /\ undone \in [Uploaders -> BOOLEAN]
        /\ storage \in [Paths -> Uploaders \cup {Old, Absent}]
    BY DEF UInv, TypeOK
  <1>1. Undoable(u)
    BY DEF UInv
  <1>2. pc[u] # "idle" /\ status[u] = 0
    BY <1>1 DEF Undoable, Step, CheckExists, CheckStorageLimit, PutFile,
         ValidateChartOrProv, PutFormFile, RollbackFile, DeletePackage, DeleteProvenance
  <1>3. \A p \in Paths : undone[u] /\ storage[p] = u =>
            /\ pc[u] \in {"formPut", "rollback"}
            /\ \E g \in req[u].saved : p = <<Root, g>>
    BY <1>1, <1>2 DEF Undoable
  \* An answer: after a 500 nothing is left, unless the rollback failed.
  <1>4. ASSUME NEW code, Answer(u, code),
               code = 500 /\ undone'[u] => \A p \in Paths : storage'[p] # u
        PROVE  Undoable(u)'
    <2>1. pc'[u] = "idle" /\ status'[u] = code
      BY <1>0, <1>4 DEF Answer, Goto
    <2> QED BY <1>4, <2>1 DEF Undoable
  \* A step within the handler.
  <1>5. ASSUME status' = status,
               \A p \in Paths : undone'[u] /\ storage'[p] = u =>
                   /\ pc'[u] \in {"formPut", "rollback"}
                   /\ \E g \in req'[u].saved : p = <<Root, g>>
        PROVE  Undoable(u)'
    BY <1>2, <1>5 DEF Undoable
  <1>6. ASSUME UNCHANGED <<storage, undone>>, pc[u] \notin {"formPut", "rollback"}
        PROVE  /\ \A p \in Paths : undone'[u] /\ storage'[p] = u => FALSE
               /\ (\E code : Answer(u, code)) \/ status' = status => Undoable(u)'
    <2>1. \A p \in Paths : undone'[u] /\ storage'[p] = u => FALSE
      BY <1>3, <1>6
    <2> QED BY <1>4, <1>5, <2>1
  <1>7. CASE CheckExists(u, f, ok)
    BY <1>6, <1>7 DEF CheckExists
  <1>8. CASE CheckStorageLimit(u, f, ok)
    BY <1>6, <1>8 DEF CheckStorageLimit
  <1>9. CASE PutFile(u, f, ok)
    <2>1. /\ pc[u] = "put" /\ UNCHANGED undone /\ Answer(u, IF ok THEN 201 ELSE 500)
          /\ ~ok => storage' = storage
      BY <1>9 DEF PutFile
    <2> QED BY <1>3, <1>4, <2>1
  <1>10. CASE ValidateChartOrProv(u, f, ok)
    BY <1>6, <1>10 DEF ValidateChartOrProv
  <1>11. CASE PutFormFile(u, f, ok)
    <2>1. pc[u] = "formPut" /\ undone' = undone
      BY <1>11 DEF PutFormFile
    <2>2. req[u].repo = Root
      BY <2>1 DEF UInv, FormsInFormRepos
    <2>3. CASE ok /\ req[u].unsaved = {f}
      <3>1. Answer(u, 201)
        BY <1>11, <2>3 DEF PutFormFile
      <3> QED BY <1>4, <3>1
    <2>4. CASE ok /\ req[u].unsaved # {f}
      <3>1. /\ storage' = [storage EXCEPT ![<<Root, f>>] = u] /\ UNCHANGED <<pc, status>>
            /\ req' = [req EXCEPT ![u].unsaved = @ \ {f}, ![u].saved = @ \cup {f}]
        BY <1>11, <2>2, <2>4 DEF PutFormFile
      <3>2. req'[u].saved = req[u].saved \cup {f}
        BY <1>0, <3>1 DEF Request
      <3>3. \A p \in Paths : storage'[p] = u => p = <<Root, f>> \/ storage[p] = u
        BY <1>0, <3>1
      <3>4. \A p \in Paths : undone'[u] /\ storage'[p] = u =>
                /\ pc'[u] \in {"formPut", "rollback"}
                /\ \E g \in req'[u].saved : p = <<Root, g>>
        BY <1>3, <2>1, <3>1, <3>2, <3>3
      <3> QED BY <1>5, <3>1, <3>4
    <2>5. CASE ~ok /\ req[u].saved = {}
      <3>1. Answer(u, 500) /\ storage' = storage
        BY <1>11, <2>5 DEF PutFormFile
      <3> QED BY <1>3, <1>4, <2>1, <2>5, <3>1
    <2>6. CASE ~ok /\ req[u].saved # {}
      <3>1. pc' = [pc EXCEPT ![u] = "rollback"] /\ UNCHANGED <<req, status, storage>>
        BY <1>11, <2>6 DEF PutFormFile, Goto
      <3> QED BY <1>0, <1>3, <1>5, <2>1, <3>1
    <2> QED BY <2>3, <2>4, <2>5, <2>6
  <1>12. CASE RollbackFile(u, f, ok)
    <2>1. /\ pc[u] = "rollback" /\ undone'[u] = (undone[u] /\ ok)
          /\ storage' = IF ok THEN [storage EXCEPT ![<<Root, f>>] = Absent] ELSE storage
      BY <1>0, <1>12 DEF RollbackFile, RollbackPath
    <2>2. <<Root, f>> \in Paths
      BY DEF Paths
    <2>3. \A p \in Paths : undone'[u] /\ storage'[p] = u =>
              undone[u] /\ storage[p] = u /\ p # <<Root, f>>
      BY <1>0, <2>1, <2>2, ConstantsAssumption
    <2>4. CASE req[u].saved = {f}
      <3>1. Answer(u, 500)
        BY <1>12, <2>4 DEF RollbackFile
      <3> QED BY <1>3, <1>4, <2>3, <2>4, <3>1
    <2>5. CASE req[u].saved # {f}
      <3>1. req' = [req EXCEPT ![u].saved = @ \ {f}] /\ UNCHANGED <<pc, status>>
        BY <1>12, <2>5 DEF RollbackFile
      <3>2. req'[u].saved = req[u].saved \ {f}
        BY <1>0, <3>1 DEF Request
      <3> QED BY <1>3, <1>5, <2>1, <2>3, <3>1, <3>2
    <2> QED BY <2>4, <2>5
  <1>13. CASE DeletePackage(u, f, ok)
    <2>1. /\ pc[u] = "delete" /\ undone' = undone
          /\ Answer(u, 404) \/ status' = status
          /\ storage' = storage \/ storage' = [storage EXCEPT ![<<req[u].repo, f>>] = Absent]
      BY <1>13 DEF DeletePackage
    <2>2. \A p \in Paths : storage'[p] = u => storage[p] = u
      BY <1>0, <2>1, ConstantsAssumption
    <2> QED BY <1>3, <1>4, <1>5, <2>1, <2>2
  <1>14. CASE DeleteProvenance(u, f, ok)
    BY <1>4, <1>14 DEF DeleteProvenance
  <1> QED BY <1>7, <1>8, <1>9, <1>10, <1>11, <1>12, <1>13, <1>14 DEF Step

\* "Undo transaction if there is an error": if forms are only sent to Root,
\* a request that has failed, and whose rollback deleted what it tried to, has
\* left nothing in storage, whatever the other requests do.  (Forms sent to
\* another repo do leave files: the rollback's path lacks the repo.)
THEOREM RootRollbackComplete ==
    ASSUME FormRepos \subseteq {Root}
    PROVE  Spec => []FailedLeavesNothing
  <1>1. Init => UInv
    <2> SUFFICES ASSUME Init PROVE UInv
      OBVIOUS
    <2>1. TypeOK /\ FormsInFormRepos
      BY InitInv DEF LInv
    <2>2. \A u \in Uploaders : Undoable(u)
      BY DEF Init, Undoable
    <2> QED BY <2>1, <2>2 DEF UInv
  <1>2. UInv /\ [Next]_vars => UInv'
    <2> SUFFICES ASSUME UInv, [Next]_vars, NEW v \in Uploaders PROVE Undoable(v)'
      BY TypeStep, FormReposStep DEF UInv
    <2>0. TypeOK /\ Undoable(v)
      BY DEF UInv
    <2>1. ASSUME NEW u \in Uploaders, NEW rp \in Repos, NEW c \in Charts, Arrive(u, rp, c)
          PROVE  Undoable(v)'
      BY <2>0, <2>1, BeginUndoable
    <2>2. ASSUME NEW u \in Uploaders, NEW f \in Files, NEW ok \in BOOLEAN, Step(u, f, ok)
          PROVE  Undoable(v)'
      <3>1. CASE u = v
        BY <2>2, <3>1, StepUndoable
      <3>2. CASE u # v
        BY <2>0, <2>2, <3>2, OthersSteps, OthersWrites
      <3> QED BY <3>1, <3>2
    <2>3. ASSUME NEW rp \in Repos, SaveStatefile(rp) PROVE Undoable(v)'
      <3>1. \A p \in Paths : storage'[p] = v => storage[p] = v
        BY <2>0, <2>3, ConstantsAssumption DEF SaveStatefile, TypeOK
      <3> QED BY <2>0, <2>3, <3>1, OthersWrites DEF SaveStatefile
    <2>4. CASE UNCHANGED vars
      BY <2>0, <2>4, OthersWrites DEF vars
    <2> QED BY <2>1, <2>2, <2>3, <2>4 DEF Next
  <1>3. UInv => FailedLeavesNothing
    BY DEF UInv, Undoable, FailedLeavesNothing
  <1> QED BY <1>1, <1>2, <1>3, PTL DEF Spec
=============================================================================
