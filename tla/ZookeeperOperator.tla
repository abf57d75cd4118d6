------------------------- MODULE ZookeeperOperator -------------------------
(***************************************************************************)
(* The zookeeper-operator: zookeepercluster_controller.go reconciles       *)
(* ZookeeperCluster resources whose volumes have the reclaim policy        *)
(* Delete.                                                                 *)
(*                                                                         *)
(* One reconcile runs at a time.  It works with the copy of the resource   *)
(* that it read at its start, calls the API server some seven times, and   *)
(* ends at the first call that fails.  Users change the resource and the   *)
(* StatefulSet controller starts and stops pods meanwhile.  An Update of   *)
(* the resource with a copy that is not the latest one is a conflict.      *)
(*                                                                         *)
(* A StatefulSet is made smaller only after the config map has had the new *)
(* size for some reconciles, which skipSTSReconcile counts; the claims of  *)
(* the members that are gone are then deleted.                             *)
(***************************************************************************)
EXTENDS Integers, FiniteSets

CONSTANTS
    Clusters,          \* ZookeeperCluster resources
    None,              \* not a cluster
    MaxReplicas,       \* bound on Spec.Replicas
    DefaultReplicas,   \* Spec.Replicas if it is not given
    SkipLimit,         \* reconciles a scale-down waits for
    MaxChanges,        \* bound on what users change
    MaxFailures,       \* bound on failed calls and pods that fail
    MaxRestarts        \* bound on restarts of the operator

ASSUME ConstantsAssumption ==
    /\ None \notin Clusters
    /\ MaxReplicas \in Nat /\ SkipLimit \in Nat
    /\ DefaultReplicas \in 1..MaxReplicas
    /\ MaxChanges \in Nat /\ MaxFailures \in Nat /\ MaxRestarts \in Nat

VARIABLES
    zk,         \* zk[c]: the ZookeeperCluster resource
    config,     \* config[c]: CLUSTER_SIZE in the config map, 0: there is none
    sts,        \* sts[c]: Spec.Replicas of the StatefulSet, 0: there is none
    pods,       \* pods[c]: the ordinals of its pods
    ready,      \* ready[c]: those that are ready
    pvc,        \* pvc[c]: the ordinals of the claims
    dying,      \* dying[c]: claims that are deleted, once no pod uses them
    skip,       \* skipSTSReconcile
    rec,        \* the reconcile that is running
    asked,      \* history: the smallest size of the resource since a
                \* reconcile last read it
    changes, failures, restarts

world == <<pods, ready, pvc, dying>>
counts == <<changes, failures, restarts>>
vars == <<zk, config, sts, world, skip, rec, asked, counts>>

Sizes == 0..MaxReplicas
Ordinals == 0..(MaxReplicas - 1)

\* Spec.Replicas, the finalizer and Status.ReadyReplicas of a resource.  It
\* is "raw" until WithDefaults has been saved.
Resource == [state : {"raw", "live", "deleting", "gone"}, replicas : Sizes,
             finalizer : BOOLEAN, ready : Sizes]
NewResource == [state |-> "raw", replicas |-> 0, finalizer |-> FALSE, ready |-> 0]

\* The copy of the resource that a reconcile works with, and whether it is
\* still the latest version.
NoReconcile == [cluster |-> None, at |-> "idle", inst |-> NewResource,
                latest |-> TRUE]

TypeOK ==
    /\ zk \in [Clusters -> Resource]
    /\ config \in [Clusters -> Sizes] /\ sts \in [Clusters -> Sizes]
    /\ pods \in [Clusters -> SUBSET Ordinals]
    /\ ready \in [Clusters -> SUBSET Ordinals]
    /\ pvc \in [Clusters -> SUBSET Ordinals]
    /\ dying \in [Clusters -> SUBSET Ordinals]
    /\ skip \in Nat
    /\ rec \in [cluster : Clusters \cup {None},
                at : {"idle", "finalizers", "dropFinalizer", "config", "sts",
                      "services", "status"},
                inst : Resource, latest : BOOLEAN]
    /\ asked \in [Clusters -> Sizes]
    /\ changes \in 0..MaxChanges /\ failures \in 0..MaxFailures
    /\ restarts \in 0..MaxRestarts

Init ==
    /\ zk = [c \in Clusters |-> NewResource]
    /\ config = [c \in Clusters |-> 0] /\ sts = [c \in Clusters |-> 0]
    /\ pods = [c \in Clusters |-> {}] /\ ready = [c \in Clusters |-> {}]
    /\ pvc = [c \in Clusters |-> {}] /\ dying = [c \in Clusters |-> {}]
    /\ skip = 0
    /\ rec = NoReconcile
    /\ asked = [c \in Clusters |-> 0]
    /\ changes = 0 /\ failures = 0 /\ restarts = 0

----------------------------------------------------------------------------
\* A call to the API server succeeds, or it fails.
CallEnds(ok) ==
    /\ ok \/ failures < MaxFailures
    /\ failures' = IF ok THEN failures ELSE failures + 1
    /\ UNCHANGED <<changes, restarts>>

\* The reconcile is in the function at the place p.
At(p) == rec.at = p

\* It goes on to the next function with the copy inst, or ends.
GoOn(p, inst) == rec' = [rec EXCEPT !.at = p, !.inst = inst]
End == rec' = NoReconcile

\* The copy of the reconcile that is running is no longer the latest one.
Outdated(c) == rec' = [rec EXCEPT !.latest = @ /\ rec.cluster # c]

----------------------------------------------------------------------------
\* Mutants: each is a definition below with one plausible bug, and breaks one
\* of the properties at the end of the module.

\* Mutant: ordinals are taken to start at 1.
OrphanFromOne(i, replicas) == i + 1 >= replicas

\* Mutant: the status of the StatefulSet is not copied.
UpdateKeepsStatus(ok) ==
    IF ok THEN /\ sts' = [sts EXCEPT ![rec.cluster] = rec.inst.replicas]
               /\ skip' = 0
               /\ GoOn("services", rec.inst)
    ELSE sts' = sts /\ End

\* Mutant: the config map is compared with the StatefulSet.
InSyncWithStatefulSet == config[rec.cluster] = sts[rec.cluster]

\* Mutant: the finalizer is not taken off the copy.
RemoveNothing(ok) ==
    /\ At("dropFinalizer")
    /\ CallEnds(ok)
    /\ IF ok /\ rec.latest THEN GoOn("config", rec.inst) ELSE End
    /\ UNCHANGED <<zk, config, sts, world, skip, asked>>

----------------------------------------------------------------------------
\* Reconcile reads the resource.  If that has to be given its defaults, it is
\* updated and the reconcile ends.
WithDefaults(c) ==
    /\ At("idle")
    /\ zk[c].state = "raw"
    /\ zk' = [zk EXCEPT ![c].state = "live",
                        ![c].replicas = IF @ = 0 THEN DefaultReplicas ELSE @]
    /\ UNCHANGED <<config, sts, world, skip, rec, asked, counts>>

Reconcile(c) ==
    /\ At("idle")
    /\ zk[c].state \in {"live", "deleting"}
    /\ rec' = [cluster |-> c, at |-> "finalizers", inst |-> zk[c], latest |-> TRUE]
    /\ asked' = [asked EXCEPT ![c] = zk[c].replicas]
    /\ UNCHANGED <<zk, config, sts, world, skip, counts>>

\* reconcileFinalizers of a resource without the finalizer: it is added.
AddFinalizer(ok) ==
    LET c == rec.cluster
    IN  /\ At("finalizers")
        /\ rec.inst.state = "live" /\ ~rec.inst.finalizer
        /\ CallEnds(ok)
        /\ IF ok /\ rec.latest
           THEN /\ zk' = [zk EXCEPT ![c].finalizer = TRUE]
                /\ GoOn("finalizers", [rec.inst EXCEPT !.finalizer = TRUE])
           ELSE zk' = zk /\ End
        /\ UNCHANGED <<config, sts, world, skip, asked>>

\* deletePVC for the claims in D.  A failure is logged and nothing else.
DeletePVCs(c, D, kept) ==
    /\ kept \subseteq D
    /\ CallEnds(kept = {})
    /\ dying' = [dying EXCEPT ![c] = @ \cup (D \ kept)]

\* ordinal >= replicas
IsPVCOrphan(i, replicas) == i >= replicas

\* cleanupOrphanPVCs, with the status of the copy.
CleanupOrphanPVCs(kept) ==
    LET c == rec.cluster
        n == rec.inst.replicas
    IN  /\ At("finalizers")
        /\ rec.inst.state = "live" /\ rec.inst.finalizer
        /\ DeletePVCs(c, IF rec.inst.ready = n /\ Cardinality(pvc[c]) > n
                         THEN {i \in pvc[c] : IsPVCOrphan(i, n)} ELSE {}, kept)
        /\ GoOn("config", rec.inst)
        /\ UNCHANGED <<zk, config, sts, pods, ready, pvc, skip, asked>>

\* reconcileFinalizers of a resource that is being deleted: cleanUpAllPVCs ...
CleanUpAllPVCs(kept) ==
    LET c == rec.cluster
    IN  /\ At("finalizers")
        /\ rec.inst.state = "deleting"
        /\ DeletePVCs(c, pvc[c], kept)
        /\ GoOn("dropFinalizer", rec.inst)
        /\ UNCHANGED <<zk, config, sts, pods, ready, pvc, skip, asked>>

\* ... and the finalizer is removed, after which the resource is gone.  The
\* reconcile goes on with its copy.
RemoveFinalizer(ok) ==
    LET c == rec.cluster
    IN  /\ At("dropFinalizer")
        /\ CallEnds(ok)
        /\ IF ok /\ rec.latest
           THEN /\ zk' = [zk EXCEPT ![c].state = "gone", ![c].finalizer = FALSE]
                /\ GoOn("config", [rec.inst EXCEPT !.finalizer = FALSE])
           ELSE zk' = zk /\ End
        /\ UNCHANGED <<config, sts, world, skip, asked>>

\* reconcileConfigMap creates or updates the config map.
ReconcileConfigMap(ok) ==
    /\ At("config")
    /\ CallEnds(ok)
    /\ IF ok THEN /\ config' = [config EXCEPT ![rec.cluster] = rec.inst.replicas]
                  /\ GoOn("sts", rec.inst)
       ELSE config' = config /\ End
    /\ UNCHANGED <<zk, sts, world, skip, asked>>

\* updateStatefulSet.  The status is the one of the StatefulSet as it was
\* before its controller has looked at the new size.
UpdateStatefulSet(ok) ==
    LET c == rec.cluster
    IN  IF ok THEN /\ sts' = [sts EXCEPT ![c] = rec.inst.replicas]
                   /\ skip' = 0
                   /\ GoOn("services", [rec.inst EXCEPT
                                           !.ready = Cardinality(ready[c])])
        ELSE sts' = sts /\ End

IsConfigMapInSync == config[rec.cluster] = rec.inst.replicas

\* reconcileStatefulSet of a cluster without one.
CreateStatefulSet(ok) ==
    /\ At("sts")
    /\ sts[rec.cluster] = 0
    /\ CallEnds(ok)
    /\ IF ok THEN /\ sts' = [sts EXCEPT ![rec.cluster] = rec.inst.replicas]
                  /\ GoOn("services", rec.inst)
       ELSE sts' = sts /\ End
    /\ UNCHANGED <<zk, config, world, skip, asked>>

\* A StatefulSet that stays as it is or grows.
SyncStatefulSet(ok) ==
    /\ At("sts")
    /\ sts[rec.cluster] \in 1..rec.inst.replicas
    /\ CallEnds(ok)
    /\ UpdateStatefulSet(ok)
    /\ ~ok => skip' = skip
    /\ UNCHANGED <<zk, config, world, asked>>

\* A StatefulSet that shrinks: skipSTSReconcile is shared by all clusters.  A
\* config map that cannot be read is taken not to be in sync.
ScaleDown(ok) ==
    /\ At("sts")
    /\ rec.inst.replicas < sts[rec.cluster]
    /\ CallEnds(ok)
    /\ \/ /\ ok => ~IsConfigMapInSync
          /\ GoOn("services", rec.inst)
          /\ UNCHANGED <<sts, skip>>
       \/ /\ IsConfigMapInSync /\ skip + 1 < SkipLimit
          /\ ok
          /\ skip' = skip + 1
          /\ GoOn("services", rec.inst)
          /\ UNCHANGED sts
       \/ /\ IsConfigMapInSync /\ skip + 1 >= SkipLimit
          /\ UpdateStatefulSet(ok)
          /\ ~ok => skip' = skip + 1
    /\ UNCHANGED <<zk, config, world, asked>>

\* The reads of the claims and of the StatefulSet may fail as well.
ReadFails ==
    /\ At("sts") \/ At("finalizers")
    /\ CallEnds(FALSE)
    /\ End
    /\ UNCHANGED <<zk, config, sts, world, skip, asked>>

\* reconcileClientService, reconcileHeadlessService and
\* reconcilePodDisruptionBudget: what matters here is that they may fail.
ReconcileServices(ok) ==
    /\ At("services")
    /\ CallEnds(ok)
    /\ IF ok THEN GoOn("status", rec.inst) ELSE End
    /\ UNCHANGED <<zk, config, sts, world, skip, asked>>

\* reconcileClusterStatus saves the status of the copy.
ReconcileClusterStatus(ok) ==
    LET c == rec.cluster
    IN  /\ At("status")
        /\ CallEnds(ok)
        /\ End
        /\ zk' = IF ok /\ rec.latest /\ zk[c].state # "gone"
                 THEN [zk EXCEPT ![c].ready = rec.inst.ready] ELSE zk
        /\ UNCHANGED <<config, sts, world, skip, asked>>

Step ==
    \/ \E ok \in BOOLEAN :
          \/ AddFinalizer(ok) \/ RemoveFinalizer(ok)
          \/ ReconcileConfigMap(ok)
          \/ CreateStatefulSet(ok) \/ SyncStatefulSet(ok) \/ ScaleDown(ok)
          \/ ReconcileServices(ok) \/ ReconcileClusterStatus(ok)
    \/ \E kept \in SUBSET Ordinals : CleanupOrphanPVCs(kept) \/ CleanUpAllPVCs(kept)
    \/ ReadFails

\* The operator is restarted: its counter and the reconcile are lost.
Restart ==
    /\ restarts < MaxRestarts
    /\ restarts' = restarts + 1
    /\ End /\ skip' = 0
    /\ UNCHANGED <<zk, config, sts, world, asked, changes, failures>>

----------------------------------------------------------------------------
\* Users.
Change(c) ==
    /\ changes < MaxChanges
    /\ changes' = changes + 1
    /\ zk[c].state \in {"raw", "live"}
    /\ Outdated(c)
    /\ UNCHANGED <<config, sts, world, skip, failures, restarts>>

Resize(c, n) ==
    /\ Change(c)
    /\ zk' = [zk EXCEPT ![c].replicas = n]
    /\ asked' = [asked EXCEPT ![c] = IF n < @ THEN n ELSE @]

DeleteCluster(c) ==
    /\ Change(c)
    /\ zk' = [zk EXCEPT ![c].state = IF zk[c].finalizer THEN "deleting" ELSE "gone"]
    /\ UNCHANGED asked

----------------------------------------------------------------------------
\* The StatefulSet controller, with PodManagementPolicy OrderedReady: a pod is
\* created with its claim when all before it are ready, and the last pod is
\* stopped first.
CreatePod(c, i) ==
    /\ i < sts[c] /\ i \notin pods[c]
    /\ \A j \in Ordinals : j < i => j \in ready[c]
    /\ i \notin dying[c]
    /\ pods' = [pods EXCEPT ![c] = @ \cup {i}]
    /\ pvc' = [pvc EXCEPT ![c] = @ \cup {i}]
    /\ UNCHANGED <<zk, config, sts, ready, dying, skip, rec, asked, counts>>

PodReady(c, i) ==
    /\ i \in pods[c] \ ready[c]
    /\ ready' = [ready EXCEPT ![c] = @ \cup {i}]
    /\ UNCHANGED <<zk, config, sts, pods, pvc, dying, skip, rec, asked, counts>>

PodUnready(c, i) ==
    /\ i \in ready[c]
    /\ CallEnds(FALSE)
    /\ ready' = [ready EXCEPT ![c] = @ \ {i}]
    /\ UNCHANGED <<zk, config, sts, pods, pvc, dying, skip, rec, asked>>

DeletePod(c, i) ==
    /\ i \in pods[c] /\ i >= sts[c]
    /\ \A j \in pods[c] : j <= i
    /\ pods' = [pods EXCEPT ![c] = @ \ {i}]
    /\ ready' = [ready EXCEPT ![c] = @ \ {i}]
    /\ UNCHANGED <<zk, config, sts, pvc, dying, skip, rec, asked, counts>>

\* A claim that is deleted goes when no pod uses it.
RemoveClaim(c, i) ==
    /\ i \in dying[c] \ pods[c]
    /\ pvc' = [pvc EXCEPT ![c] = @ \ {i}]
    /\ dying' = [dying EXCEPT ![c] = @ \ {i}]
    /\ UNCHANGED <<zk, config, sts, pods, ready, skip, rec, asked, counts>>

\* What a resource that is gone owned is collected.
CollectGarbage(c) ==
    /\ zk[c].state = "gone"
    /\ sts[c] # 0 \/ config[c] # 0
    /\ config' = [config EXCEPT ![c] = 0] /\ sts' = [sts EXCEPT ![c] = 0]
    /\ UNCHANGED <<zk, world, skip, rec, asked, counts>>

Kubernetes(c) ==
    \/ \E i \in Ordinals : \/ CreatePod(c, i) \/ PodReady(c, i)
                           \/ DeletePod(c, i) \/ RemoveClaim(c, i)
    \/ CollectGarbage(c)

Next ==
    \/ Step \/ Restart
    \/ \E c \in Clusters :
          \/ WithDefaults(c) \/ Reconcile(c) \/ Kubernetes(c)
          \/ DeleteCluster(c)
          \/ \E n \in 1..MaxReplicas : Resize(c, n)
          \/ \E i \in Ordinals : PodUnready(c, i)

Spec == Init /\ [][Next]_vars

\* A reconcile that has begun goes on; every resource that is there is
\* reconciled again and again, since the work queue is a FIFO and every
\* reconcile ends with RequeueAfter or an error; Kubernetes does its part.
FairSpec ==
    /\ Spec
    /\ WF_vars(Step)
    /\ \A c \in Clusters : /\ WF_vars(Kubernetes(c))
                           /\ SF_vars(WithDefaults(c) \/ Reconcile(c))

----------------------------------------------------------------------------
\* cleanupOrphanPVCs works with a size and a status that may be outdated when
\* it deletes.  Still, it goes by a size that the resource has had since the
\* reconcile began: the claim of a member that is asked for again before that,
\* or all the time, is not deleted while the resource is there.
\* The comment in cleanupOrphanPVCs promises more, "we do not delete the PVCs
\* before the STS has scaled down".  That is not so: the status says how many
\* members were ready, and if that is the new size already, the claims go while
\* the StatefulSet has the old one.
ReclaimedUnwanted ==
    [][\A c \in Clusters : zk[c].state \in {"raw", "live"} =>
           \A i \in dying'[c] \ dying[c] : i >= asked[c]]_vars

\* "The pravega-operator will eventually make the size of the running cluster
\* equal to the expected size": once users leave a resource alone, its
\* StatefulSet gets the size asked for and all its pods are ready.
Resized ==
    \A c \in Clusters :
        <>[](\/ zk[c].state = "gone"
             \/ /\ sts[c] = zk[c].replicas
                /\ ready[c] = 0..(zk[c].replicas - 1) /\ pods[c] = ready[c])

\* The claims of members that are gone are reclaimed in the end, whatever
\* status the reconciles on the way have saved.
OrphansReclaimed ==
    \A c \in Clusters :
        <>[](zk[c].state = "gone" \/ pvc[c] = 0..(zk[c].replicas - 1))

\* The finalizer does not keep a deleted resource for ever.
DeletionEnds ==
    \A c \in Clusters : zk[c].state = "deleting" ~> zk[c].state = "gone"
=============================================================================
