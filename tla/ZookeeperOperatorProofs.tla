---------------------- MODULE ZookeeperOperatorProofs ----------------------
(***************************************************************************)
(* Proofs about ZookeeperOperator, for any number of clusters, any sizes   *)
(* and any number of changes, failures and restarts.                       *)
(*                                                                         *)
(* ReclaimedUnwanted is about a deletion whose size comes from a copy of   *)
(* the resource that may be outdated.  One has to know that the copy has   *)
(* no size below the smallest one that the resource has had since the copy *)
(* was made (CopyAsked), of whichever cluster it is (CopyOfOne), and that  *)
(* a copy that is being deleted is one of a resource that has left         *)
(* (CopyLeaving).                                                          *)
(***************************************************************************)
EXTENDS ZookeeperOperator, FiniteSetTheorems, TLAPS

\* A reconcile works with a copy of a resource that exists, or has existed.
CopyOfOne ==
    ~At("idle") => rec.cluster \in Clusters /\ rec.inst.state \in {"live", "deleting"}

CopyAsked ==
    ~At("idle") /\ rec.inst.state = "live" => asked[rec.cluster] <= rec.inst.replicas

CopyLeaving ==
    ~At("idle") /\ rec.inst.state = "deleting" =>
        zk[rec.cluster].state \in {"deleting", "gone"}

IInv ==
    /\ TypeOK
    /\ CopyOfOne
    /\ CopyAsked
    /\ CopyLeaving

----------------------------------------------------------------------------
\* A StatefulSet never has more ready pods than there are ordinals.
LEMMA ReadyBounded ==
    ASSUME TypeOK, NEW c \in Clusters
    PROVE  Cardinality(ready[c]) \in Sizes
<1>1. ready[c] \subseteq 0..(MaxReplicas - 1)
  BY DEF TypeOK, Ordinals
<1>2. MaxReplicas \in Nat /\ MaxReplicas >= 1
  BY ConstantsAssumption
<1>3. /\ IsFiniteSet(0..(MaxReplicas - 1))
      /\ Cardinality(0..(MaxReplicas - 1)) = MaxReplicas
  <2>1. /\ IsFiniteSet(0..(MaxReplicas - 1))
        /\ Cardinality(0..(MaxReplicas - 1)) =
              IF 0 > MaxReplicas - 1 THEN 0 ELSE (MaxReplicas - 1) - 0 + 1
    BY <1>2, FS_Interval, 0 \in Int, MaxReplicas - 1 \in Int
  <2> QED BY <2>1, <1>2
<1>4. Cardinality(ready[c]) <= MaxReplicas /\ IsFiniteSet(ready[c])
  BY ZenonT(30), <1>1, <1>3, FS_Subset
<1>5. Cardinality(ready[c]) \in Nat
  BY <1>4, FS_CardinalityType
<1> QED BY <1>2, <1>4, <1>5 DEF Sizes

LEMMA InitIInv == Init => IInv
<1> SUFFICES ASSUME Init PROVE IInv
  OBVIOUS
<1> USE ConstantsAssumption
<1>1. TypeOK
  BY DEF Init, TypeOK, Resource, NewResource, NoReconcile, Sizes, Ordinals
<1>2. CopyOfOne /\ CopyAsked /\ CopyLeaving
  BY DEF Init, CopyOfOne, CopyAsked, CopyLeaving, NoReconcile, At
<1> QED BY <1>1, <1>2 DEF IInv

----------------------------------------------------------------------------
\* What the reconcile does to its copy never changes the size or the state of
\* it, and a resource never comes back.
SameCopy ==
    /\ ~At("idle")
    /\ rec'.cluster = rec.cluster
    /\ rec'.inst.state = rec.inst.state
    /\ rec'.inst.replicas = rec.inst.replicas

\* Steps of a reconcile.
LEMMA CopyKept ==
    ASSUME IInv, TypeOK', asked' = asked,
           rec' = NoReconcile \/ SameCopy,
           \A c \in Clusters : zk'[c].state \in {zk[c].state, "gone"}
    PROVE  IInv'
<1> USE DEF IInv
<1>1. CASE rec' = NoReconcile
  BY <1>1 DEF CopyOfOne, CopyAsked, CopyLeaving, NoReconcile, At
<1>2. CASE SameCopy
  BY <1>2 DEF SameCopy, CopyOfOne, CopyAsked, CopyLeaving, At
<1> QED BY <1>1, <1>2

\* What happens outside of the reconcile and does not touch the resources.
LEMMA OutsideKept ==
    ASSUME IInv, TypeOK', asked' = asked, zk' = zk, rec' = rec
    PROVE  IInv'
BY DEF IInv, CopyOfOne, CopyAsked, CopyLeaving, At

LEMMA BeginIInv ==
    ASSUME IInv, NEW c \in Clusters, WithDefaults(c) \/ Reconcile(c)
    PROVE  IInv'
<1> USE ConstantsAssumption DEF IInv, Sizes
<1>1. CASE WithDefaults(c)
  <2>0. DefaultReplicas \in Sizes /\ zk[c].replicas \in Sizes /\ zk[c] \in Resource
    BY DEF TypeOK, Resource
  <2>1. TypeOK'
    BY <1>1, <2>0 DEF WithDefaults, TypeOK, Resource, world, counts
  <2>2. CopyOfOne' /\ CopyAsked' /\ CopyLeaving'
    BY <1>1 DEF WithDefaults, CopyOfOne, CopyAsked, CopyLeaving, At
  <2> QED BY <2>1, <2>2
<1>2. CASE Reconcile(c)
  <2>0. zk[c] \in Resource /\ zk[c].replicas \in Sizes
    BY DEF TypeOK, Resource
  <2>1. TypeOK'
    BY <1>2, <2>0 DEF Reconcile, TypeOK, world, counts
  <2>2. /\ rec'.cluster = c /\ rec'.inst = zk[c] /\ zk' = zk
        /\ asked'[c] = zk[c].replicas /\ zk[c].state \in {"live", "deleting"}
    BY <1>2 DEF Reconcile, TypeOK
  <2>3. CopyOfOne' /\ CopyAsked' /\ CopyLeaving'
    BY <2>0, <2>2 DEF CopyOfOne, CopyAsked, CopyLeaving, At
  <2> QED BY <2>1, <2>3
<1> QED BY <1>1, <1>2

\* The types of what the steps of a reconcile have in common.
Places == {"idle", "finalizers", "dropFinalizer", "config", "sts", "services",
           "status"}
CountsOK ==
    changes \in 0..MaxChanges /\ failures \in 0..MaxFailures
        /\ restarts \in 0..MaxRestarts
RecOK == rec \in [cluster : Clusters \cup {None}, at : Places, inst : Resource,
                  latest : BOOLEAN]

LEMMA CallEndsTyped ==
    ASSUME TypeOK, NEW ok \in BOOLEAN, CallEnds(ok)
    PROVE  CountsOK'
BY ConstantsAssumption DEF TypeOK, CallEnds, CountsOK

LEMMA EndTyped ==
    ASSUME End PROVE RecOK'
<1>1. NewResource \in Resource
  BY ConstantsAssumption DEF NewResource, Resource, Sizes
<1> QED BY <1>1 DEF End, NoReconcile, RecOK, Places

LEMMA GoOnTyped ==
    ASSUME TypeOK, NEW p \in Places, NEW inst \in Resource, GoOn(p, inst)
    PROVE  RecOK' /\ rec'.cluster = rec.cluster /\ rec'.inst = inst
BY DEF TypeOK, GoOn, RecOK, Places

LEMMA FinalizerIInv ==
    ASSUME IInv, NEW ok \in BOOLEAN, AddFinalizer(ok) \/ RemoveFinalizer(ok)
    PROVE  IInv'
<1> USE DEF IInv
<1>0. rec.cluster \in Clusters /\ rec.inst \in Resource /\ ~At("idle")
  BY DEF AddFinalizer, RemoveFinalizer, CopyOfOne, At, TypeOK
<1>1. /\ UNCHANGED <<config, sts, pods, ready, pvc, dying, skip, asked>>
      /\ CallEnds(ok)
  BY DEF AddFinalizer, RemoveFinalizer, world
<1>2. /\ zk' \in [Clusters -> Resource]
      /\ \A c \in Clusters : zk'[c].state \in {zk[c].state, "gone"}
  <2> DEFINE c == rec.cluster
  <2>1. zk[c] \in Resource /\ zk \in [Clusters -> Resource]
    BY <1>0 DEF TypeOK
  <2>2. \/ zk' = zk
        \/ zk' = [zk EXCEPT ![c] = [zk[c] EXCEPT !.finalizer = TRUE]]
        \/ zk' = [zk EXCEPT ![c] = [zk[c] EXCEPT !.state = "gone", !.finalizer = FALSE]]
    BY <1>0, <2>1 DEF AddFinalizer, RemoveFinalizer
  <2>3. /\ [zk[c] EXCEPT !.finalizer = TRUE] \in Resource
        /\ [zk[c] EXCEPT !.finalizer = TRUE].replicas = zk[c].replicas
        /\ [zk[c] EXCEPT !.finalizer = TRUE].state = zk[c].state
    BY <2>1 DEF Resource
  <2>4. /\ [zk[c] EXCEPT !.state = "gone", !.finalizer = FALSE] \in Resource
        /\ [zk[c] EXCEPT !.state = "gone", !.finalizer = FALSE].replicas = zk[c].replicas
        /\ [zk[c] EXCEPT !.state = "gone", !.finalizer = FALSE].state = "gone"
    BY <2>1 DEF Resource
  <2> QED BY <1>0, <2>1, <2>2, <2>3, <2>4
<1>3. \/ End
      \/ \E p \in Places, b \in BOOLEAN : GoOn(p, [rec.inst EXCEPT !.finalizer = b])
  BY DEF AddFinalizer, RemoveFinalizer, Places
<1>4. RecOK' /\ (rec' = NoReconcile \/ SameCopy)
  <2>1. CASE End
    BY <2>1, EndTyped DEF End
  <2>2. ASSUME NEW p \in Places, NEW b \in BOOLEAN,
               GoOn(p, [rec.inst EXCEPT !.finalizer = b])
        PROVE  RecOK' /\ SameCopy
    <3> DEFINE inst == [rec.inst EXCEPT !.finalizer = b]
    <3>1. inst \in Resource /\ inst.state = rec.inst.state
             /\ inst.replicas = rec.inst.replicas
      BY <1>0 DEF Resource
    <3> QED BY <1>0, <3>1, <2>2, GoOnTyped DEF SameCopy
  <2> QED BY <1>3, <2>1, <2>2
<1>5. TypeOK'
  BY <1>1, <1>2, <1>4, CallEndsTyped DEF TypeOK, RecOK, Places, CountsOK
<1> QED BY <1>1, <1>2, <1>4, <1>5, CopyKept

\* The deletion of claims.
LEMMA ClaimsIInv ==
    ASSUME IInv, NEW kept \in SUBSET Ordinals,
           CleanupOrphanPVCs(kept) \/ CleanUpAllPVCs(kept)
    PROVE  IInv'
<1> USE ConstantsAssumption DEF IInv
<1>0. rec.cluster \in Clusters /\ rec.inst \in Resource /\ ~At("idle")
  BY DEF CleanupOrphanPVCs, CleanUpAllPVCs, CopyOfOne, At, TypeOK
<1>1. SameCopy /\ rec'.inst = rec.inst /\ zk' = zk /\ asked' = asked
  BY <1>0 DEF CleanupOrphanPVCs, CleanUpAllPVCs, GoOn, SameCopy, TypeOK
<1>2. TypeOK'
  <2>1. RecOK'
    BY <1>0, GoOnTyped DEF CleanupOrphanPVCs, CleanUpAllPVCs, Places
  <2>2. dying' \in [Clusters -> SUBSET Ordinals] /\ CallEnds(kept = {})
    BY <1>0 DEF CleanupOrphanPVCs, CleanUpAllPVCs, DeletePVCs, TypeOK
  <2>3. UNCHANGED <<zk, config, sts, pods, ready, pvc, skip, asked>>
    BY DEF CleanupOrphanPVCs, CleanUpAllPVCs
  <2> QED BY <2>1, <2>2, <2>3, CallEndsTyped DEF TypeOK, RecOK, Places, CountsOK
<1>3. CopyOfOne' /\ CopyAsked' /\ CopyLeaving'
  BY <1>1 DEF SameCopy, CopyOfOne, CopyAsked, CopyLeaving, At
<1> QED BY <1>2, <1>3

\* reconcileConfigMap, reconcileStatefulSet and the functions after it.
LEMMA FunctionsIInv ==
    ASSUME IInv, NEW ok \in BOOLEAN,
           \/ ReconcileConfigMap(ok)
           \/ CreateStatefulSet(ok) \/ SyncStatefulSet(ok) \/ ScaleDown(ok)
           \/ ReconcileServices(ok)
    PROVE  IInv'
<1> USE DEF IInv
<1>0. rec.cluster \in Clusters /\ rec.inst \in Resource /\ ~At("idle")
  BY DEF ReconcileConfigMap, CreateStatefulSet, SyncStatefulSet, ScaleDown,
      ReconcileServices, CopyOfOne, At, TypeOK
<1>1. UNCHANGED <<zk, pods, ready, pvc, dying, asked>> /\ CallEnds(ok)
  BY DEF ReconcileConfigMap, CreateStatefulSet, SyncStatefulSet, ScaleDown,
      ReconcileServices, world
<1>2. \/ End
      \/ \E p \in Places, n \in Sizes : GoOn(p, [rec.inst EXCEPT !.ready = n])
  <2>1. rec.inst = [rec.inst EXCEPT !.ready = rec.inst.ready] /\ rec.inst.ready \in Sizes
    BY <1>0 DEF Resource
  <2>2. Cardinality(ready[rec.cluster]) \in Sizes
    BY <1>0, ReadyBounded
  <2>3. CASE ReconcileConfigMap(ok)
    BY <2>1, <2>3 DEF ReconcileConfigMap, Places
  <2>4. CASE CreateStatefulSet(ok)
    BY <2>1, <2>4 DEF CreateStatefulSet, Places
  <2>5. CASE SyncStatefulSet(ok)
    BY <2>2, <2>5 DEF SyncStatefulSet, UpdateStatefulSet, Places
  <2>6. CASE ScaleDown(ok)
    BY <2>1, <2>2, <2>6 DEF ScaleDown, UpdateStatefulSet, Places
  <2>7. CASE ReconcileServices(ok)
    BY <2>1, <2>7 DEF ReconcileServices, Places
  <2> QED BY <2>3, <2>4, <2>5, <2>6, <2>7
<1>3. RecOK' /\ (rec' = NoReconcile \/ SameCopy)
  <2>1. CASE End
    BY <2>1, EndTyped DEF End
  <2>2. ASSUME NEW p \in Places, NEW n \in Sizes,
               GoOn(p, [rec.inst EXCEPT !.ready = n])
        PROVE  RecOK' /\ SameCopy
    <3> DEFINE inst == [rec.inst EXCEPT !.ready = n]
    <3>1. inst \in Resource /\ inst.state = rec.inst.state
             /\ inst.replicas = rec.inst.replicas
      BY <1>0 DEF Resource
    <3> QED BY <1>0, <3>1, <2>2, GoOnTyped DEF SameCopy
  <2> QED BY <1>2, <2>1, <2>2
<1>4. /\ config' \in [Clusters -> Sizes] /\ sts' \in [Clusters -> Sizes]
      /\ skip' \in Nat
  <2>1. rec.inst.replicas \in Sizes
    BY <1>0 DEF Resource
  <2>2. CASE ReconcileConfigMap(ok)
    BY <2>1, <2>2 DEF ReconcileConfigMap, TypeOK
  <2>3. CASE CreateStatefulSet(ok)
    BY <2>1, <2>3 DEF CreateStatefulSet, TypeOK
  <2>4. CASE SyncStatefulSet(ok)
    BY <2>1, <2>4 DEF SyncStatefulSet, UpdateStatefulSet, TypeOK
  <2>5. CASE ScaleDown(ok)
    BY <2>1, <2>5 DEF ScaleDown, UpdateStatefulSet, TypeOK
  <2>6. CASE ReconcileServices(ok)
    BY <2>6 DEF ReconcileServices, TypeOK
  <2> QED BY <2>2, <2>3, <2>4, <2>5, <2>6
<1>5. TypeOK'
  BY <1>1, <1>3, <1>4, CallEndsTyped DEF TypeOK, RecOK, Places, CountsOK
<1>6. \A c \in Clusters : zk'[c].state \in {zk[c].state, "gone"}
  BY <1>1
<1> QED BY <1>1, <1>3, <1>5, <1>6, CopyKept

\* The ends of a reconcile.
LEMMA EndIInv ==
    ASSUME IInv,
           \/ \E ok \in BOOLEAN : ReconcileClusterStatus(ok)
           \/ ReadFails \/ Restart
    PROVE  IInv'
<1> USE DEF IInv
<1>1. RecOK' /\ rec' = NoReconcile /\ UNCHANGED <<config, sts, pods, ready, pvc, dying, asked>>
  BY EndTyped DEF ReconcileClusterStatus, ReadFails, Restart, End, world
<1>2. CountsOK' /\ skip' \in Nat
  <2>1. CASE \E ok \in BOOLEAN : ReconcileClusterStatus(ok)
    BY <2>1, CallEndsTyped DEF ReconcileClusterStatus, TypeOK
  <2>2. CASE ReadFails
    BY <2>2, CallEndsTyped DEF ReadFails, TypeOK
  <2>3. CASE Restart
    BY <2>3, ConstantsAssumption DEF Restart, TypeOK, CountsOK
  <2> QED BY <2>1, <2>2, <2>3
<1>3. /\ zk' \in [Clusters -> Resource]
      /\ \A c \in Clusters : zk'[c].state \in {zk[c].state, "gone"}
  <2>1. CASE \E ok \in BOOLEAN : ReconcileClusterStatus(ok)
    <3> DEFINE c == rec.cluster
    <3>1. rec.inst.ready \in Sizes /\ c \in Clusters
      BY <2>1 DEF TypeOK, Resource, CopyOfOne, ReconcileClusterStatus, At
    <3>2. zk[c] \in Resource /\ zk \in [Clusters -> Resource]
      BY <3>1 DEF TypeOK
    <3>3. zk' = zk \/ zk' = [zk EXCEPT ![c] = [zk[c] EXCEPT !.ready = rec.inst.ready]]
      BY <2>1, <3>1, <3>2 DEF ReconcileClusterStatus
    <3>4. /\ [zk[c] EXCEPT !.ready = rec.inst.ready] \in Resource
          /\ [zk[c] EXCEPT !.ready = rec.inst.ready].replicas = zk[c].replicas
          /\ [zk[c] EXCEPT !.ready = rec.inst.ready].state = zk[c].state
      BY <3>1, <3>2 DEF Resource
    <3> QED BY <3>1, <3>2, <3>3, <3>4
  <2>2. CASE ReadFails \/ Restart
    BY <2>2 DEF ReadFails, Restart, TypeOK
  <2> QED BY <2>1, <2>2
<1>4. TypeOK'
  BY <1>1, <1>2, <1>3 DEF TypeOK, RecOK, Places, CountsOK
<1> QED BY <1>1, <1>3, <1>4, CopyKept

LEMMA UsersIInv ==
    ASSUME IInv, NEW c \in Clusters,
           DeleteCluster(c) \/ \E n \in 1..MaxReplicas : Resize(c, n)
    PROVE  IInv'
<1> USE ConstantsAssumption DEF IInv
<1>1. /\ Change(c)
      /\ UNCHANGED <<config, sts, pods, ready, pvc, dying, skip, failures, restarts>>
      /\ changes' \in 0..MaxChanges
      /\ zk[c].state \in {"raw", "live"}
  BY DEF DeleteCluster, Resize, Change, world, TypeOK
<1>2. /\ RecOK' /\ rec'.cluster = rec.cluster
      /\ rec'.inst = rec.inst /\ rec'.at = rec.at
  <2>1. (rec.latest /\ rec.cluster # c) \in BOOLEAN
    OBVIOUS
  <2> QED BY <1>1, <2>1 DEF Change, Outdated, TypeOK, RecOK, Places
<1>3. CASE DeleteCluster(c)
  <2>1. /\ asked' = asked /\ zk' \in [Clusters -> Resource]
        /\ zk'[c].state \in {"deleting", "gone"} /\ zk'[c].replicas = zk[c].replicas
        /\ \A d \in Clusters : d # c => zk'[d] = zk[d]
    BY <1>3 DEF DeleteCluster, TypeOK, Resource
  <2>2. TypeOK'
    BY <1>1, <1>2, <2>1 DEF TypeOK, RecOK, Places
  <2>3. CopyOfOne' /\ CopyAsked' /\ CopyLeaving'
    BY <1>2, <2>1 DEF CopyOfOne, CopyAsked, CopyLeaving, At
  <2> QED BY <2>2, <2>3
<1>4. ASSUME NEW n \in 1..MaxReplicas, Resize(c, n) PROVE IInv'
  <2>1. /\ zk' \in [Clusters -> Resource]
        /\ zk'[c].state = zk[c].state /\ zk'[c].replicas = n
        /\ \A d \in Clusters : d # c => zk'[d] = zk[d]
    <3>1. zk[c] \in Resource /\ zk \in [Clusters -> Resource] /\ n \in Sizes
      BY DEF TypeOK, Sizes
    <3>2. zk' = [zk EXCEPT ![c] = [zk[c] EXCEPT !.replicas = n]]
      BY <1>4, <3>1 DEF Resize
    <3>3. /\ [zk[c] EXCEPT !.replicas = n] \in Resource
          /\ [zk[c] EXCEPT !.replicas = n].replicas = n
          /\ [zk[c] EXCEPT !.replicas = n].state = zk[c].state
      BY <3>1 DEF Resource
    <3> QED BY <3>1, <3>2, <3>3
  <2>2. /\ asked' \in [Clusters -> Sizes]
        /\ asked'[c] <= n /\ asked'[c] <= asked[c]
        /\ \A d \in Clusters : d # c => asked'[d] = asked[d]
    BY <1>4 DEF Resize, TypeOK, Sizes
  <2>3. TypeOK'
    BY <1>1, <1>2, <2>1, <2>2 DEF TypeOK, RecOK, Places
  <2>4. \A d \in Clusters : asked'[d] <= asked[d] /\ asked[d] \in Int /\ asked'[d] \in Int
    BY <2>2 DEF TypeOK, Sizes
  <2>5. CopyOfOne' /\ CopyLeaving'
    BY <1>2, <2>1 DEF CopyOfOne, CopyLeaving, At
  <2>6. CopyAsked'
    BY <1>2, <2>4 DEF CopyAsked, CopyOfOne, TypeOK, Resource, Sizes, At
  <2> QED BY <2>3, <2>5, <2>6
<1> QED BY <1>3, <1>4

LEMMA KubernetesIInv ==
    ASSUME IInv, NEW c \in Clusters,
           Kubernetes(c) \/ \E i \in Ordinals : PodUnready(c, i)
    PROVE  IInv'
<1> USE DEF IInv
<1>1. UNCHANGED <<zk, rec, asked, skip>>
  BY DEF Kubernetes, CreatePod, PodReady, PodUnready, DeletePod, RemoveClaim,
      CollectGarbage
<1>2. TypeOK'
  <2>1. CASE \E i \in Ordinals : CreatePod(c, i)
    BY <2>1 DEF CreatePod, TypeOK, counts
  <2>2. CASE \E i \in Ordinals : PodReady(c, i)
    BY <2>2 DEF PodReady, TypeOK, counts
  <2>3. CASE \E i \in Ordinals : DeletePod(c, i)
    BY <2>3 DEF DeletePod, TypeOK, counts
  <2>4. CASE \E i \in Ordinals : RemoveClaim(c, i)
    BY <2>4 DEF RemoveClaim, TypeOK, counts
  <2>5. CASE CollectGarbage(c)
    BY <2>5, ConstantsAssumption DEF CollectGarbage, TypeOK, world, counts, Sizes
  <2>6. CASE \E i \in Ordinals : PodUnready(c, i)
    <3>1. PICK i \in Ordinals : PodUnready(c, i)
      BY <2>6
    <3>2. CountsOK'
      BY <3>1, CallEndsTyped, FALSE \in BOOLEAN DEF PodUnready
    <3> QED BY <3>1, <3>2 DEF PodUnready, TypeOK, CountsOK
  <2> QED BY <2>1, <2>2, <2>3, <2>4, <2>5, <2>6 DEF Kubernetes
<1> QED BY <1>1, <1>2, OutsideKept

LEMMA NextIInv == IInv /\ [Next]_vars => IInv'
<1> SUFFICES ASSUME IInv, [Next]_vars PROVE IInv'
  OBVIOUS
<1>1. CASE Step
  BY <1>1, FinalizerIInv, ClaimsIInv, FunctionsIInv, EndIInv DEF Step
<1>2. CASE Restart
  BY <1>2, EndIInv
<1>3. ASSUME NEW c \in Clusters, WithDefaults(c) \/ Reconcile(c) PROVE IInv'
  BY <1>3, BeginIInv
<1>4. ASSUME NEW c \in Clusters,
             Kubernetes(c) \/ \E i \in Ordinals : PodUnready(c, i)
      PROVE  IInv'
  BY <1>4, KubernetesIInv
<1>5. ASSUME NEW c \in Clusters,
             DeleteCluster(c) \/ \E n \in 1..MaxReplicas : Resize(c, n)
      PROVE  IInv'
  BY <1>5, UsersIInv
<1>6. CASE UNCHANGED vars
  BY <1>6 DEF vars, world, counts, IInv, TypeOK, CopyOfOne, CopyAsked,
      CopyLeaving, At
<1> QED BY <1>1, <1>2, <1>3, <1>4, <1>5, <1>6 DEF Next

----------------------------------------------------------------------------
\* The variables of the operator and of its world keep their types; the ready
\* replicas saved in a status are a size.
THEOREM OperatorTypeCorrect == Spec => []TypeOK
<1>1. IInv => TypeOK
  BY DEF IInv
<1> QED BY <1>1, InitIInv, NextIInv, PTL DEF Spec

\* Only cleanupOrphanPVCs and cleanUpAllPVCs delete claims.
LEMMA OnlyCleanupDeletes ==
    ASSUME IInv, [Next]_vars,
           ~\E kept \in SUBSET Ordinals : CleanupOrphanPVCs(kept) \/ CleanUpAllPVCs(kept)
    PROVE  \A c \in Clusters : dying'[c] \subseteq dying[c]
<1>1. CASE Step \/ Restart
  BY <1>1 DEF Step, Restart, AddFinalizer, RemoveFinalizer, ReconcileConfigMap,
      CreateStatefulSet, SyncStatefulSet, ScaleDown, ReconcileServices,
      ReconcileClusterStatus, ReadFails, world
<1>2. ASSUME NEW c \in Clusters, NEW i \in Ordinals, RemoveClaim(c, i)
      PROVE  \A d \in Clusters : dying'[d] \subseteq dying[d]
  BY <1>2 DEF RemoveClaim, IInv, TypeOK
<1>3. ASSUME NEW c \in Clusters, NEW i \in Ordinals, NEW n,
             \/ WithDefaults(c) \/ Reconcile(c) \/ DeleteCluster(c) \/ Resize(c, n)
             \/ CreatePod(c, i) \/ PodReady(c, i) \/ PodUnready(c, i)
             \/ DeletePod(c, i) \/ CollectGarbage(c)
      PROVE  dying' = dying
  BY <1>3 DEF WithDefaults, Reconcile, DeleteCluster, Resize, Change, CreatePod,
      PodReady, PodUnready, DeletePod, CollectGarbage, world
<1>4. CASE UNCHANGED vars
  BY <1>4 DEF vars, world
<1>5. 0 \in Ordinals
  BY ConstantsAssumption DEF Ordinals
<1> QED BY <1>1, <1>2, <1>3, <1>4, <1>5 DEF Next, Kubernetes

LEMMA DeletesUnwanted ==
    ASSUME IInv, [Next]_vars, NEW c \in Clusters, zk[c].state \in {"raw", "live"},
           NEW i \in dying'[c] \ dying[c]
    PROVE  i >= asked[c]
<1> USE DEF IInv
<1>1. PICK kept \in SUBSET Ordinals : CleanupOrphanPVCs(kept) \/ CleanUpAllPVCs(kept)
  BY OnlyCleanupDeletes
<1>2. rec.cluster \in Clusters /\ rec.inst \in Resource /\ ~At("idle")
  BY <1>1 DEF CleanupOrphanPVCs, CleanUpAllPVCs, CopyOfOne, At, TypeOK
<1>3. c = rec.cluster
  BY <1>1, <1>2 DEF CleanupOrphanPVCs, CleanUpAllPVCs, DeletePVCs, TypeOK
<1>4. CASE CleanupOrphanPVCs(kept)
  <2>1. PICK D \in SUBSET pvc[rec.cluster] :
            /\ \A j \in D : j >= rec.inst.replicas
            /\ dying' = [dying EXCEPT ![rec.cluster] = @ \cup (D \ kept)]
    BY <1>4 DEF CleanupOrphanPVCs, DeletePVCs, IsPVCOrphan
  <2>2. asked[c] <= rec.inst.replicas
    BY <1>2, <1>3, <1>4 DEF CleanupOrphanPVCs, CopyAsked
  <2>3. asked[c] \in Int /\ rec.inst.replicas \in Int
    BY <1>2 DEF TypeOK, Sizes, Resource
  <2>4. i \in D /\ i \in Int
    BY <1>2, <1>3, <2>1 DEF TypeOK, Ordinals
  <2>5. i >= rec.inst.replicas
    BY <2>1, <2>4
  <2> QED BY <2>2, <2>3, <2>4, <2>5
<1>5. CASE CleanUpAllPVCs(kept)
  BY <1>2, <1>3, <1>5 DEF CleanUpAllPVCs, CopyLeaving
<1> QED BY <1>1, <1>4, <1>5

\* cleanupOrphanPVCs deletes no claim of a member that is asked for all the
\* time since the reconcile began, however outdated its copy of the resource
\* is, and cleanUpAllPVCs none of a resource that is in use.
THEOREM OnlyUnwantedReclaimed == Spec => ReclaimedUnwanted
<1>1. IInv /\ [Next]_vars =>
          [\A c \in Clusters : zk[c].state \in {"raw", "live"} =>
              \A i \in dying'[c] \ dying[c] : i >= asked[c]]_vars
  BY DeletesUnwanted
<1> QED BY <1>1, InitIInv, NextIInv, PTL DEF Spec, ReclaimedUnwanted
=============================================================================
