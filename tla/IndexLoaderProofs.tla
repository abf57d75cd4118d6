------------------------- MODULE IndexLoaderProofs -------------------------
(***************************************************************************)
(* The loader is correct for any finite number of calls and objects and    *)
(* any --index-limit: its safety properties, and that it implements        *)
(* BatchLoad.                                                              *)
(***************************************************************************)
EXTENDS IndexLoader, FiniteSetTheorems, TLAPS

----------------------------------------------------------------------------
(***************************************************************************)
(* The inductive invariant.                                                *)
(***************************************************************************)

\* What a call has received, counted and put in its index agree, and it has
\* returned if and only if nothing is outstanding.
CallOK(c) ==
    /\ collector[c] = "idle" => objects[c] = {} /\ ~cancelled[c]
    /\ collector[c] = "failed" => cancelled[c]
    /\ collector[c] = "collecting" => Settled(c) # objects[c]
    /\ collector[c] = "returned" => Settled(c) = objects[c]
    /\ validCount[c] = Cardinality(Settled(c))
    /\ index[c] = {o \in Settled(c) : result[<<c, o>>] = "chart"}

CallInv == \A c \in Calls : CallOK(c)

\* A goroutine exists for each object of the batch; it leaves without a
\* result only under a cancelled context, and its error ends the call.
WorkerOK(c, o) ==
    /\ worker[<<c, o>>] = "none" <=> o \notin objects[c]
    /\ worker[<<c, o>>] \in {"none", "started", "acquired", "loading"}
           => result[<<c, o>>] = "none"
    /\ worker[<<c, o>>] = "sending" => result[<<c, o>>] \in Outcomes
    /\ worker[<<c, o>>] \in {"releasing", "exited"} =>
           /\ result[<<c, o>>] = "none" => cancelled[c]
           /\ result[<<c, o>>] = "error" => collector[c] = "failed"

WorkerInv == \A c \in Calls, o \in Objects : WorkerOK(c, o)

\* A context cancelled while its call is collecting has an error in flight.
CancelInv ==
    \A c \in Calls : cancelled[c] /\ collector[c] = "collecting" =>
        \E o \in objects[c] : /\ worker[<<c, o>>] = "sending"
                              /\ result[<<c, o>>] = "error"

\* The Limiter counts the goroutines that hold one of its items.
LimiterInv ==
    IndexLimit # 0 => /\ limiter = Cardinality(Holders)
                      /\ limiter <= IndexLimit

IInv ==
    /\ TypeOK
    /\ CallInv
    /\ WorkerInv
    /\ CancelInv
    /\ LimiterInv
    /\ SlotSurvives

----------------------------------------------------------------------------
(***************************************************************************)
(* Finiteness.                                                             *)
(***************************************************************************)

\* The sets of goroutines and of objects the proofs count are finite.
LEMMA Finiteness ==
    /\ IsFiniteSet(Workers)
    /\ IsFiniteSet(Holders) /\ Cardinality(Holders) \in Nat
    /\ IsFiniteSet(Doomed) /\ Cardinality(Doomed) \in Nat
    /\ \A c \in Calls : IsFiniteSet(Settled(c)) /\ Cardinality(Settled(c)) \in Nat
  <1>1. IsFiniteSet(Workers)
    BY FS_Product, ConstantsAssumption DEF Workers
  <1>2. Holders \in SUBSET Workers /\ Doomed \in SUBSET Workers
    BY DEF Holders, Doomed
  <1>3. \A c \in Calls : Settled(c) \in SUBSET Objects
    BY DEF Settled
  <1>4. IsFiniteSet(Objects)
    BY ConstantsAssumption
  <1>5. IsFiniteSet(Holders) /\ IsFiniteSet(Doomed)
    BY <1>1, <1>2, FS_Subset
  <1>6. \A c \in Calls : IsFiniteSet(Settled(c))
    BY <1>3, <1>4, FS_Subset
  <1> QED BY <1>1, <1>5, <1>6, FS_CardinalityType

----------------------------------------------------------------------------
(***************************************************************************)
(* Typing.                                                                 *)
(***************************************************************************)

\* Every step of the loader keeps the types of its variables; the Limiter
\* stays a natural number because only a goroutine that put an item in takes
\* one out.
LEMMA TypeStep ==
    ASSUME IInv, [Next]_vars
    PROVE  TypeOK'
  <1> USE DEF IInv, TypeOK, Outcomes
  <1>1. ASSUME NEW c \in Calls, NEW objs \in SUBSET Objects,
               AddIndexObjectsAsync(c, objs)
        PROVE  TypeOK'
    BY <1>1 DEF AddIndexObjectsAsync
  <1>2. ASSUME NEW w \in Workers, Acquire(w)
        PROVE  TypeOK'
    BY <1>2 DEF Acquire, callVars
  <1>3. ASSUME NEW w \in Workers, CheckDone(w)
        PROVE  TypeOK'
    BY <1>3 DEF CheckDone, callVars
  <1>4. ASSUME NEW w \in Workers, NEW res \in Outcomes, LoadObject(w, res)
        PROVE  TypeOK'
    <2>1. w[1] \in Calls
      BY DEF Workers
    <2> QED BY <1>4, <2>1 DEF LoadObject, callVars
  <1>5. ASSUME NEW w \in Workers, ReceiveResult(w)
        PROVE  TypeOK'
    <2>1. w[1] \in Calls /\ w[2] \in Objects
      BY DEF Workers
    <2>2. cancelled' \in [Calls -> BOOLEAN]
      BY <1>5, <2>1 DEF ReceiveResult
    <2> QED BY <1>5, <2>1, <2>2 DEF ReceiveResult
  <1>6. ASSUME NEW w \in Workers, Release(w)
        PROVE  TypeOK'
    <2>1. w \in Holders
      BY <1>6 DEF Release, Holders
    <2>2. Cardinality(Holders) # 0
      BY <2>1, Finiteness, FS_EmptySet
    <2>3. IndexLimit # 0 => limiter - 1 \in Nat
      BY <2>2, Finiteness DEF LimiterInv
    <2> QED BY <1>6, <2>3 DEF Release, callVars
  <1>7. CASE UNCHANGED vars
    BY <1>7 DEF vars
  <1> QED BY <1>1, <1>2, <1>3, <1>4, <1>5, <1>6, <1>7 DEF Next, WorkerStep

----------------------------------------------------------------------------
(***************************************************************************)
(* Preservation, one lemma per part of the invariant.                      *)
(***************************************************************************)

\* An item goes into the Limiter when its holder joins Holders and comes out
\* when it leaves.
LEMMA LimiterStep ==
    ASSUME IInv, [Next]_vars
    PROVE  LimiterInv'
  <1> SUFFICES ASSUME IndexLimit # 0
               PROVE  /\ limiter' = Cardinality(Holders)'
                      /\ limiter' <= IndexLimit
    BY DEF LimiterInv
  <1> USE DEF IInv, TypeOK, LimiterInv
  <1>a. limiter = Cardinality(Holders) /\ limiter <= IndexLimit
    OBVIOUS
  <1>b. IsFiniteSet(Holders) /\ limiter \in Nat /\ IndexLimit \in Nat
    BY Finiteness, ConstantsAssumption
  <1>1. ASSUME NEW c \in Calls, NEW objs \in SUBSET Objects,
               AddIndexObjectsAsync(c, objs)
        PROVE  Holders' = Holders /\ limiter' = limiter
    <2>1. \A o \in Objects : worker[<<c, o>>] = "none"
      BY <1>1 DEF AddIndexObjectsAsync, CallInv, CallOK, WorkerInv, WorkerOK
    <2>2. \A w \in Workers : w[1] = c => worker[w] = "none"
      BY <2>1 DEF Workers
    <2> QED BY <1>1, <2>2 DEF AddIndexObjectsAsync, Holders
  <1>2. ASSUME NEW w \in Workers, Acquire(w)
        PROVE  /\ Holders' = Holders \cup {w} /\ w \notin Holders
               /\ limiter' = limiter + 1 /\ limiter < IndexLimit
    BY <1>2 DEF Acquire, Holders
  <1>3. ASSUME NEW w \in Workers,
               \/ CheckDone(w)
               \/ \E res \in Outcomes : LoadObject(w, res)
               \/ ReceiveResult(w)
        PROVE  Holders' = Holders /\ limiter' = limiter
    BY <1>3 DEF CheckDone, LoadObject, ReceiveResult, Holders
  <1>4. ASSUME NEW w \in Workers, Release(w)
        PROVE  /\ Holders' = Holders \ {w} /\ w \in Holders
               /\ limiter' = limiter - 1
    BY <1>4 DEF Release, Holders
  <1>5. ASSUME UNCHANGED vars
        PROVE  Holders' = Holders /\ limiter' = limiter
    BY <1>5 DEF vars, Holders
  <1>6. ASSUME Holders' = Holders, limiter' = limiter
        PROVE  limiter' = Cardinality(Holders)' /\ limiter' <= IndexLimit
    BY <1>6, <1>a
  <1>7. ASSUME NEW w \in Workers, Acquire(w)
        PROVE  limiter' = Cardinality(Holders)' /\ limiter' <= IndexLimit
    BY <1>2, <1>7, <1>a, <1>b, FS_AddElement
  <1>8. ASSUME NEW w \in Workers, Release(w)
        PROVE  limiter' = Cardinality(Holders)' /\ limiter' <= IndexLimit
    BY <1>4, <1>8, <1>a, <1>b, FS_RemoveElement
  <1> QED BY <1>1, <1>3, <1>5, <1>6, <1>7, <1>8 DEF Next, WorkerStep

\* Goroutines are doomed only by the step that ends their call, and the
\* goroutine whose result ends it is not: it returns its item.
LEMMA DoomedStep ==
    ASSUME IInv, [Next]_vars
    PROVE  SlotSurvives'
  <1> SUFFICES ASSUME IndexLimit # 0
               PROVE  Cardinality(Doomed') < IndexLimit
    BY DEF SlotSurvives
  <1> USE DEF IInv, TypeOK
  <1>a. /\ IsFiniteSet(Doomed) /\ Cardinality(Doomed) \in Nat
        /\ IsFiniteSet(Holders) /\ Cardinality(Holders) \in Nat
        /\ Cardinality(Holders) <= IndexLimit
        /\ Cardinality(Doomed) < IndexLimit
        /\ IndexLimit \in Nat
    BY Finiteness, ConstantsAssumption DEF LimiterInv, SlotSurvives
  <1>b. ASSUME NEW w \in Workers
        PROVE  /\ w[1] \in Calls /\ w[2] \in Objects
               /\ w = <<w[1], w[2]>>
    BY DEF Workers
  <1>1. ASSUME NEW c \in Calls, NEW objs \in SUBSET Objects,
               AddIndexObjectsAsync(c, objs)
        PROVE  Doomed' \subseteq Doomed
    <2>1. \A o \in Objects : worker[<<c, o>>] = "none"
      BY <1>1 DEF AddIndexObjectsAsync, CallInv, CallOK, WorkerInv, WorkerOK
    <2>2. \A w \in Workers : w[1] = c => worker[w] = "none"
      BY <2>1 DEF Workers
    <2>3. \A w \in Workers : w[1] # c => /\ worker'[w] = worker[w]
                                         /\ collector'[w[1]] = collector[w[1]]
      BY <1>1, <1>b DEF AddIndexObjectsAsync
    <2>4. \A w \in Workers : w[1] = c => worker'[w] \in {"none", "started"}
      BY <1>1, <2>2 DEF AddIndexObjectsAsync
    <2> QED BY <2>3, <2>4 DEF Doomed
  <1>2. ASSUME NEW w \in Workers, Acquire(w)
        PROVE  Doomed' \subseteq Doomed
    BY <1>2 DEF Acquire, callVars, Doomed
  <1>3. ASSUME NEW w \in Workers, CheckDone(w)
        PROVE  Doomed' \subseteq Doomed
    <2>1. ASSUME ~cancelled[w[1]]
          PROVE  collector[w[1]] = "collecting"
      <3>1. worker[<<w[1], w[2]>>] = "acquired"
        BY <1>3, <1>b DEF CheckDone
      <3>2. w[2] \in objects[w[1]] /\ w[2] \notin Settled(w[1])
        BY <1>b, <3>1 DEF WorkerInv, WorkerOK, Settled
      <3> QED BY <1>b, <2>1, <3>2 DEF CallInv, CallOK
    <2> QED BY <1>3, <2>1 DEF CheckDone, callVars, Doomed
  <1>4. ASSUME NEW w \in Workers, NEW res \in Outcomes, LoadObject(w, res)
        PROVE  Doomed' \subseteq Doomed
    BY <1>4 DEF LoadObject, callVars, Doomed
  <1>5. ASSUME NEW w \in Workers, ReceiveResult(w)
        PROVE  Cardinality(Doomed') < IndexLimit
    <2>1. w \in Holders
      BY <1>5 DEF ReceiveResult, Holders
    <2>2. Doomed' \subseteq Holders \ {w}
      BY <1>5 DEF ReceiveResult, Holders, Doomed
    <2>3. /\ IsFiniteSet(Holders \ {w})
          /\ Cardinality(Holders \ {w}) = Cardinality(Holders) - 1
      BY <2>1, <1>a, FS_RemoveElement
    <2>4. /\ IsFiniteSet(Doomed')
          /\ Cardinality(Doomed') <= Cardinality(Holders \ {w})
      BY <2>2, <2>3, FS_Subset
    <2>5. Cardinality(Doomed') \in Nat
      BY <2>4, FS_CardinalityType
    <2> QED BY <1>a, <2>3, <2>4, <2>5
  <1>6. ASSUME NEW w \in Workers, Release(w)
        PROVE  Doomed' \subseteq Doomed
    BY <1>6 DEF Release, callVars, Doomed
  <1>7. ASSUME UNCHANGED vars
        PROVE  Doomed' \subseteq Doomed
    BY <1>7 DEF vars, Doomed
  <1>8. ASSUME Doomed' \subseteq Doomed
        PROVE  Cardinality(Doomed') < IndexLimit
    <2>1. IsFiniteSet(Doomed') /\ Cardinality(Doomed') <= Cardinality(Doomed)
      BY <1>8, <1>a, FS_Subset
    <2>2. Cardinality(Doomed') \in Nat
      BY <2>1, FS_CardinalityType
    <2> QED BY <1>a, <2>1, <2>2
  <1> QED BY <1>1, <1>2, <1>3, <1>4, <1>5, <1>6, <1>7, <1>8
          DEF Next, WorkerStep

\* Only a receive changes what a call has dealt with: not its start,
LEMMA SettledByStart ==
    ASSUME IInv, NEW c \in Calls, NEW objs \in SUBSET Objects,
           AddIndexObjectsAsync(c, objs)
    PROVE  \A d \in Calls : Settled(d)' = Settled(d)
  <1> USE DEF IInv, TypeOK
  <1>1. \A o \in Objects : worker[<<c, o>>] = "none"
    BY DEF AddIndexObjectsAsync, CallInv, CallOK, WorkerInv, WorkerOK
  <1>2. \A d \in Calls, o \in Objects :
            worker'[<<d, o>>] = IF d = c /\ o \in objs THEN "started"
                                ELSE worker[<<d, o>>]
    BY DEF AddIndexObjectsAsync, Workers
  <1> QED BY <1>1, <1>2 DEF AddIndexObjectsAsync, Settled

\* and not the other steps of a goroutine,
LEMMA SettledByOthers ==
    ASSUME IInv, NEW w \in Workers,
           \/ Acquire(w) \/ CheckDone(w) \/ Release(w)
           \/ \E res \in Outcomes : LoadObject(w, res)
    PROVE  \A d \in Calls : Settled(d)' = Settled(d)
  <1> USE DEF IInv, TypeOK
  <1>1. PICK c \in Calls, o \in Objects : w = <<c, o>>
    BY DEF Workers
  <1>2. CASE Acquire(w)
    BY <1>1, <1>2 DEF Acquire, Settled, Workers
  <1>3. CASE CheckDone(w)
    BY <1>1, <1>3 DEF CheckDone, Settled, Workers, WorkerInv, WorkerOK
  <1>4. CASE Release(w)
    BY <1>1, <1>4 DEF Release, Settled, Workers
  <1>5. ASSUME NEW res \in Outcomes, LoadObject(w, res)
        PROVE  \A d \in Calls : Settled(d)' = Settled(d)
    BY <1>1, <1>5 DEF LoadObject, Settled, Workers
  <1> QED BY <1>2, <1>3, <1>4, <1>5

\* and a receive adds its object to its own call, unless it is an error.
LEMMA SettledByReceive ==
    ASSUME IInv, NEW c \in Calls, NEW o \in Objects, ReceiveResult(<<c, o>>)
    PROVE  /\ \A d \in Calls \ {c} : Settled(d)' = Settled(d)
           /\ o \in objects[c] \ Settled(c)
           /\ result[<<c, o>>] \in Outcomes
           /\ Settled(c)' = IF result[<<c, o>>] = "error" THEN Settled(c)
                            ELSE Settled(c) \cup {o}
  <1> USE DEF IInv, TypeOK
  <1>1. worker[<<c, o>>] = "sending" /\ <<c, o>> \in Workers
    BY DEF ReceiveResult, Workers
  <1>2. o \in objects[c] \ Settled(c)
    BY <1>1 DEF Settled, WorkerInv, WorkerOK
  <1>3. result' = result /\ result[<<c, o>>] \in Outcomes
    BY <1>1 DEF ReceiveResult, WorkerInv, WorkerOK
  <1>4. \A d \in Calls, p \in Objects :
            worker'[<<d, p>>] = IF d = c /\ p = o THEN "releasing"
                                ELSE worker[<<d, p>>]
    BY <1>1 DEF ReceiveResult, Workers
  <1>5. \A d \in Calls \ {c} : Settled(d)' = Settled(d)
    BY <1>3, <1>4 DEF Settled
  <1>6. Settled(c)' = IF result[<<c, o>>] = "error" THEN Settled(c)
                      ELSE Settled(c) \cup {o}
    BY <1>1, <1>3, <1>4 DEF Settled, Outcomes
  <1> QED BY <1>2, <1>3, <1>5, <1>6

\* The loop counts results, and its count reaches the length of the batch
\* exactly when the whole batch is settled.
LEMMA LastResult ==
    ASSUME IInv, NEW c \in Calls, NEW o \in Objects, o \in objects[c] \ Settled(c)
    PROVE  /\ Cardinality(Settled(c) \cup {o}) = validCount[c] + 1
           /\ validCount[c] + 1 = Cardinality(objects[c])
                  <=> Settled(c) \cup {o} = objects[c]
  <1> USE DEF IInv, TypeOK
  <1>1. IsFiniteSet(Settled(c)) /\ o \notin Settled(c)
    BY Finiteness
  <1>2. Cardinality(Settled(c) \cup {o}) = Cardinality(Settled(c)) + 1
    BY <1>1, FS_AddElement
  <1>3. validCount[c] = Cardinality(Settled(c))
    BY DEF CallInv, CallOK
  <1>4. IsFiniteSet(objects[c])
    BY ConstantsAssumption, FS_Subset
  <1>5. Settled(c) \cup {o} \subseteq objects[c]
    BY DEF WorkerInv, WorkerOK, Settled
  <1>6. Cardinality(objects[c]) = Cardinality(Settled(c) \cup {o})
            => objects[c] = Settled(c) \cup {o}
    BY <1>4, <1>5, FS_Subset
  <1> QED BY <1>2, <1>3, <1>6

\* Each goroutine keeps its part of the protocol.
LEMMA WorkerStepInv ==
    ASSUME IInv, [Next]_vars
    PROVE  WorkerInv'
  <1> USE DEF IInv, TypeOK
  <1>1. ASSUME NEW c \in Calls, NEW objs \in SUBSET Objects,
               AddIndexObjectsAsync(c, objs)
        PROVE  WorkerInv'
    <2>1. \A o \in Objects : worker[<<c, o>>] = "none"
      BY <1>1 DEF AddIndexObjectsAsync, CallInv, CallOK, WorkerInv, WorkerOK
    <2>2. \A d \in Calls, o \in Objects :
              worker'[<<d, o>>] = IF d = c /\ o \in objs THEN "started"
                                  ELSE worker[<<d, o>>]
      BY <1>1 DEF AddIndexObjectsAsync, Workers
    <2>3. /\ UNCHANGED <<cancelled, result>>
          /\ \A d \in Calls : d # c => /\ objects'[d] = objects[d]
                                      /\ collector'[d] = collector[d]
          /\ objects'[c] = objs
      BY <1>1 DEF AddIndexObjectsAsync
    <2>4. \A d \in Calls, o \in Objects : d # c => WorkerOK(d, o)'
      BY <2>2, <2>3 DEF WorkerInv, WorkerOK
    <2>5. \A o \in Objects : WorkerOK(c, o)'
      BY <2>1, <2>2, <2>3 DEF WorkerInv, WorkerOK
    <2> QED BY <2>4, <2>5 DEF WorkerInv
  <1>2. ASSUME NEW w \in Workers, WorkerStep(w)
        PROVE  WorkerInv'
    <2>1. PICK c \in Calls, o \in Objects : w = <<c, o>>
      BY DEF Workers
    <2>2. /\ WorkerOK(c, o)
          /\ worker'[<<c, o>>] # "none"
          /\ o \in objects[c]
          /\ objects' = objects
      <3>1. WorkerOK(c, o)
        BY DEF WorkerInv
      <3> DEFINE Goal == worker[w] # "none" /\ worker'[w] # "none" /\ objects' = objects
      <3>2. ASSUME Acquire(w) PROVE Goal
        BY <3>2 DEF Acquire, callVars
      <3>3. ASSUME CheckDone(w) PROVE Goal
        BY <3>3 DEF CheckDone, callVars
      <3>4. ASSUME NEW res \in Outcomes, LoadObject(w, res)
            PROVE  Goal
        BY <3>4 DEF LoadObject, callVars
      <3>5. ASSUME ReceiveResult(w) PROVE Goal
        BY <3>5 DEF ReceiveResult
      <3>6. ASSUME Release(w) PROVE Goal
        BY <3>6 DEF Release, callVars
      <3>7. Goal
        BY <1>2, <3>2, <3>3, <3>4, <3>5, <3>6 DEF WorkerStep
      <3> QED BY <2>1, <3>1, <3>7 DEF WorkerOK
    <2>3. \A d \in Calls, p \in Objects : d # c \/ p # o =>
              /\ worker'[<<d, p>>] = worker[<<d, p>>]
              /\ result'[<<d, p>>] = result[<<d, p>>]
      <3>1. CASE Acquire(w) \/ CheckDone(w) \/ ReceiveResult(w) \/ Release(w)
        BY <2>1, <3>1 DEF Acquire, CheckDone, ReceiveResult, Release, Workers
      <3>2. ASSUME NEW res \in Outcomes, LoadObject(w, res)
            PROVE  \A d \in Calls, p \in Objects : d # c \/ p # o =>
                       /\ worker'[<<d, p>>] = worker[<<d, p>>]
                       /\ result'[<<d, p>>] = result[<<d, p>>]
        BY <2>1, <3>2 DEF LoadObject, Workers
      <3> QED BY <1>2, <3>1, <3>2 DEF WorkerStep
    <2>4. \A d \in Calls : cancelled[d] => cancelled'[d]
      <3>1. CASE UNCHANGED cancelled
        BY <3>1
      <3>2. ASSUME NEW e \in BOOLEAN,
                   cancelled' = [cancelled EXCEPT ![c] = @ \/ e]
            PROVE  \A d \in Calls : cancelled[d] => cancelled'[d]
        BY <3>2
      <3> QED BY <1>2, <2>1, <3>1, <3>2 DEF WorkerStep, Acquire, CheckDone,
                LoadObject, ReceiveResult, Release
    <2>5. \A d \in Calls : collector[d] = "failed" => collector'[d] = "failed"
      BY <1>2, <2>1 DEF WorkerStep, Acquire, CheckDone, LoadObject,
           ReceiveResult, Release, callVars
    <2>6. \A d \in Calls, p \in Objects : d # c \/ p # o => WorkerOK(d, p)'
      BY <2>2, <2>3, <2>4, <2>5 DEF WorkerInv, WorkerOK
    <2>7. WorkerOK(c, o)'
      <3>1. CASE Acquire(w)
        BY <2>1, <2>2, <3>1 DEF Acquire, callVars, WorkerOK, Workers
      <3>2. CASE CheckDone(w)
        BY <2>1, <2>2, <3>2 DEF CheckDone, callVars, WorkerOK, Workers
      <3>3. ASSUME NEW res \in Outcomes, LoadObject(w, res)
            PROVE  WorkerOK(c, o)'
        BY <2>1, <2>2, <3>3 DEF LoadObject, callVars, WorkerOK, Workers
      <3>4. CASE ReceiveResult(w)
        <4>1. result[<<c, o>>] \in Outcomes /\ result' = result
          BY <2>1, <2>2, <3>4 DEF ReceiveResult, WorkerOK
        <4>2. result[<<c, o>>] = "error" => collector'[c] = "failed"
          BY <2>1, <3>4 DEF ReceiveResult
        <4>3. worker'[<<c, o>>] = "releasing"
          BY <2>1, <3>4 DEF ReceiveResult, Workers
        <4> QED BY <2>2, <4>1, <4>2, <4>3 DEF WorkerOK, Outcomes
      <3>5. CASE Release(w)
        BY <2>1, <2>2, <3>5 DEF Release, callVars, WorkerOK, Workers
      <3> QED BY <1>2, <3>1, <3>2, <3>3, <3>4, <3>5 DEF WorkerStep
    <2> QED BY <2>6, <2>7 DEF WorkerInv
  <1>3. CASE UNCHANGED vars
    BY <1>3 DEF vars, WorkerInv, WorkerOK
  <1> QED BY <1>1, <1>2, <1>3 DEF Next

\* A cancelled context keeps an error in flight until its call ends.
LEMMA CancelStep ==
    ASSUME IInv, [Next]_vars
    PROVE  CancelInv'
  <1> USE DEF IInv, TypeOK
  <1> DEFINE InFlight(d, p) == worker[<<d, p>>] = "sending"
                               /\ result[<<d, p>>] = "error"
  <1>1. ASSUME NEW c \in Calls, NEW objs \in SUBSET Objects,
               AddIndexObjectsAsync(c, objs)
        PROVE  CancelInv'
    <2>1. \A d \in Calls, o \in Objects :
              worker'[<<d, o>>] = IF d = c /\ o \in objs THEN "started"
                                  ELSE worker[<<d, o>>]
      BY <1>1 DEF AddIndexObjectsAsync, Workers
    <2>2. /\ UNCHANGED <<cancelled, result>>
          /\ \A d \in Calls : d # c => /\ objects'[d] = objects[d]
                                      /\ collector'[d] = collector[d]
          /\ collector[c] = "idle"
      BY <1>1 DEF AddIndexObjectsAsync
    <2>3. ~cancelled[c]
      BY <2>2 DEF CallInv, CallOK
    <2> QED BY <2>1, <2>2, <2>3 DEF CancelInv
  <1>2. ASSUME NEW w \in Workers, WorkerStep(w)
        PROVE  CancelInv'
    <2>1. PICK c \in Calls, o \in Objects : w = <<c, o>>
      BY DEF Workers
    <2>2. CASE Acquire(w) \/ CheckDone(w) \/ Release(w)
      BY SMTT(30), <2>1, <2>2 DEF Acquire, CheckDone, Release, callVars, CancelInv, Workers
    <2>3. ASSUME NEW res \in Outcomes, LoadObject(w, res)
          PROVE  CancelInv'
      <3>1. /\ objects' = objects /\ collector' = collector
            /\ worker[<<c, o>>] = "loading"
            /\ \A d \in Calls, p \in Objects : d # c \/ p # o =>
                   /\ worker'[<<d, p>>] = worker[<<d, p>>]
                   /\ result'[<<d, p>>] = result[<<d, p>>]
            /\ worker'[<<c, o>>] = "sending" /\ result'[<<c, o>>] = res
        BY <2>1, <2>3 DEF LoadObject, callVars, Workers
      <3>2. o \in objects[c]
        BY <3>1 DEF WorkerInv, WorkerOK
      <3>3. \A d \in Calls : cancelled'[d] =>
                cancelled[d] \/ (d = c /\ res = "error")
        BY <2>1, <2>3 DEF LoadObject
      <3>4. \A d \in Calls, p \in Objects : InFlight(d, p) => InFlight(d, p)'
        BY <3>1
      <3>5. res = "error" => InFlight(c, o)'
        BY <3>1
      <3>6. SUFFICES ASSUME NEW d \in Calls, cancelled'[d],
                            collector'[d] = "collecting"
                     PROVE  \E p \in objects'[d] : InFlight(d, p)'
        BY DEF CancelInv
      <3>7. CASE cancelled[d]
        <4>1. PICK p \in objects[d] : InFlight(d, p)
          BY <3>1, <3>6, <3>7 DEF CancelInv
        <4> QED BY <3>1, <3>4, <4>1
      <3>8. CASE ~cancelled[d]
        BY <3>1, <3>2, <3>3, <3>5, <3>6, <3>8
      <3> QED BY <3>7, <3>8
    <2>4. CASE ReceiveResult(w)
      <3>1. /\ objects' = objects /\ result' = result
            /\ \A d \in Calls, p \in Objects : d # c \/ p # o =>
                   worker'[<<d, p>>] = worker[<<d, p>>]
            /\ \A d \in Calls : d # c => /\ collector'[d] = collector[d]
                                         /\ cancelled'[d] = cancelled[d]
            /\ collector[c] = "collecting"
        BY <2>1, <2>4 DEF ReceiveResult, Workers
      <3>2. ASSUME collector'[c] = "collecting"
            PROVE  result[<<c, o>>] # "error" /\ (cancelled'[c] => cancelled[c])
        BY <2>1, <2>4, <3>2 DEF ReceiveResult
      <3> QED BY <3>1, <3>2 DEF CancelInv
    <2> QED BY <1>2, <2>2, <2>3, <2>4 DEF WorkerStep
  <1>3. CASE UNCHANGED vars
    BY <1>3 DEF vars, CancelInv
  <1> QED BY <1>1, <1>2, <1>3 DEF Next

\* A call counts what it settles, and returns with the last of its batch.
LEMMA CallStep ==
    ASSUME IInv, [Next]_vars
    PROVE  CallInv'
  <1> USE DEF IInv, TypeOK
  <1>1. ASSUME NEW c \in Calls, NEW objs \in SUBSET Objects,
               AddIndexObjectsAsync(c, objs)
        PROVE  CallInv'
    <2>1. \A d \in Calls : Settled(d)' = Settled(d)
      BY <1>1, SettledByStart
    <2>2. /\ UNCHANGED <<validCount, index, cancelled, result>>
          /\ \A d \in Calls : d # c => /\ objects'[d] = objects[d]
                                      /\ collector'[d] = collector[d]
          /\ objects'[c] = objs /\ collector[c] = "idle"
          /\ collector'[c] = IF objs = {} THEN "returned" ELSE "collecting"
      BY <1>1 DEF AddIndexObjectsAsync
    <2>3. Settled(c) = {}
      BY <2>2 DEF CallInv, CallOK, WorkerInv, WorkerOK, Settled
    <2>4. \A d \in Calls : d # c => CallOK(d)'
      BY <2>1, <2>2 DEF CallInv, CallOK
    <2>5. CallOK(c)'
      BY ZenonT(60), <2>1, <2>2, <2>3 DEF CallInv, CallOK
    <2> QED BY <2>4, <2>5 DEF CallInv
  <1>2. ASSUME NEW w \in Workers,
               \/ Acquire(w) \/ CheckDone(w) \/ Release(w)
               \/ \E res \in Outcomes : LoadObject(w, res)
        PROVE  CallInv'
    <2>1. \A d \in Calls : Settled(d)' = Settled(d)
      BY <1>2, SettledByOthers
    <2>2. UNCHANGED callVars
      BY <1>2 DEF Acquire, CheckDone, Release, LoadObject
    <2>3. \A d \in Calls : cancelled[d] => cancelled'[d]
      BY <1>2 DEF Acquire, CheckDone, Release, LoadObject
    <2>4. \A d \in Calls, p \in Objects :
              p \in Settled(d) => result'[<<d, p>>] = result[<<d, p>>]
      BY <1>2 DEF Acquire, CheckDone, Release, LoadObject, Settled, Workers
    <2>5. \A d \in Calls : {p \in Settled(d) : result'[<<d, p>>] = "chart"} =
                           {p \in Settled(d) : result[<<d, p>>] = "chart"}
      BY <2>4 DEF Settled
    <2>6. ASSUME NEW d \in Calls
          PROVE  CallOK(d)'
      <3>1. /\ collector'[d] = collector[d] /\ objects'[d] = objects[d]
            /\ validCount'[d] = validCount[d] /\ index'[d] = index[d]
        BY <2>2 DEF callVars
      <3>2. index[d] = {p \in Settled(d) : result'[<<d, p>>] = "chart"}
        BY <2>5 DEF CallInv, CallOK
      <3>3. collector[d] = "idle" => ~cancelled'[d]
        BY <1>2 DEF Acquire, CheckDone, Release, LoadObject, Workers,
                    CallInv, CallOK, WorkerInv, WorkerOK
      <3> QED BY <2>1, <2>3, <3>1, <3>2, <3>3 DEF CallInv, CallOK
    <2> QED BY <2>6 DEF CallInv
  <1>3. ASSUME NEW w \in Workers, ReceiveResult(w)
        PROVE  CallInv'
    <2>1. PICK c \in Calls, o \in Objects : w = <<c, o>>
      BY DEF Workers
    <2>2. /\ \A d \in Calls \ {c} : Settled(d)' = Settled(d)
          /\ o \in objects[c] \ Settled(c)
          /\ result[<<c, o>>] \in Outcomes
          /\ Settled(c)' = IF result[<<c, o>>] = "error" THEN Settled(c)
                           ELSE Settled(c) \cup {o}
      BY <1>3, <2>1, SettledByReceive
    <2>3. /\ objects' = objects /\ result' = result
          /\ \A d \in Calls : d # c => /\ collector'[d] = collector[d]
                                       /\ cancelled'[d] = cancelled[d]
                                       /\ validCount'[d] = validCount[d]
                                       /\ index'[d] = index[d]
          /\ collector[c] = "collecting"
      BY <1>3, <2>1 DEF ReceiveResult
    <2>4. ASSUME result[<<c, o>>] = "error"
          PROVE  CallOK(c)'
      <3>1. /\ collector'[c] = "failed" /\ cancelled'[c]
            /\ validCount'[c] = validCount[c] /\ index'[c] = index[c]
        BY <1>3, <2>1, <2>4 DEF ReceiveResult
      <3> QED BY <2>2, <2>3, <2>4, <3>1 DEF CallInv, CallOK
    <2>5. ASSUME result[<<c, o>>] # "error"
          PROVE  CallOK(c)'
      <3>1. /\ Settled(c)' = Settled(c) \cup {o}
            /\ validCount'[c] = validCount[c] + 1
            /\ index'[c] = IF result[<<c, o>>] = "chart" THEN index[c] \cup {o}
                           ELSE index[c]
            /\ collector'[c] = IF validCount[c] + 1 = Cardinality(objects[c])
                               THEN "returned" ELSE "collecting"
        BY <1>3, <2>1, <2>2, <2>5 DEF ReceiveResult
      <3>2. /\ Cardinality(Settled(c) \cup {o}) = validCount[c] + 1
            /\ validCount[c] + 1 = Cardinality(objects[c])
                   <=> Settled(c) \cup {o} = objects[c]
        BY <2>2, LastResult
      <3>3. index'[c] = {p \in Settled(c)' : result'[<<c, p>>] = "chart"}
        BY <2>3, <3>1 DEF CallInv, CallOK
      <3> QED BY <2>3, <3>1, <3>2, <3>3 DEF CallOK
    <2>6. \A d \in Calls : d # c => CallOK(d)'
      BY <2>2, <2>3 DEF CallInv, CallOK
    <2> QED BY <2>4, <2>5, <2>6 DEF CallInv
  <1>4. CASE UNCHANGED vars
    <2>1. \A d \in Calls : Settled(d)' = Settled(d)
      BY <1>4 DEF vars, Settled
    <2> QED BY <1>4, <2>1 DEF vars, CallInv, CallOK
  <1> QED BY <1>1, <1>2, <1>3, <1>4 DEF Next, WorkerStep

----------------------------------------------------------------------------
(***************************************************************************)
(* The theorems.                                                           *)
(***************************************************************************)

\* Nothing is running and the Limiter is empty when the server starts.
LEMMA InitInv == Init => IInv
  <1> SUFFICES ASSUME Init PROVE IInv
    OBVIOUS
  <1> USE DEF Init
  <1>1. TypeOK
    BY DEF TypeOK, Workers
  <1>2. \A c \in Calls : Settled(c) = {}
    BY DEF Settled, Workers
  <1>3. Holders = {} /\ Doomed = {}
    BY DEF Holders, Doomed
  <1>4. CallInv
    BY <1>2, FS_EmptySet DEF CallInv, CallOK
  <1>5. WorkerInv
    BY DEF WorkerInv, WorkerOK, Workers
  <1>6. CancelInv
    BY DEF CancelInv
  <1>7. LimiterInv /\ SlotSurvives
    BY <1>3, FS_EmptySet, ConstantsAssumption DEF LimiterInv, SlotSurvives
  <1> QED BY <1>1, <1>4, <1>5, <1>6, <1>7 DEF IInv

\* The invariant is inductive.
THEOREM Invariance == Spec => []IInv
  <1>1. IInv /\ [Next]_vars => IInv'
    BY TypeStep, CallStep, WorkerStepInv, CancelStep, LimiterStep, DoomedStep
    DEF IInv
  <1> QED BY InitInv, <1>1, PTL DEF Spec

\* The variables of addIndexObjectsAsync keep their types in every run of
\* every instance; in particular no receive empties the Limiter below zero.
THEOREM TypeCorrect == Spec => []TypeOK
  <1>1. IInv => TypeOK
    BY DEF IInv
  <1> QED BY Invariance, <1>1, PTL

\* --index-limit bounds the goroutines at work for all tenants together.
THEOREM ParallelismBounded == Spec => []LimitedParallelism
  <1>1. IInv => LimitedParallelism
    BY DEF IInv, LimiterInv, LimitedParallelism
  <1> QED BY Invariance, <1>1, PTL

\* However many calls fail and abandon goroutines that hold an item of the
\* Limiter, one item is always left for the others.
THEOREM SlotAlwaysSurvives == Spec => []SlotSurvives
  <1>1. IInv => SlotSurvives
    BY DEF IInv
  <1> QED BY Invariance, <1>1, PTL

\* The receive in the collecting loop always has a sender to come.
THEOREM NeverStranded == Spec => []CollectorNotStranded
  <1>1. IInv => CollectorNotStranded
    <2> SUFFICES ASSUME IInv, NEW c \in Calls, collector[c] = "collecting"
                 PROVE  \E o \in objects[c] :
                            \/ worker[<<c, o>>] = "sending"
                            \/ /\ ~cancelled[c]
                               /\ worker[<<c, o>>] \in {"started", "acquired",
                                                        "loading"}
      BY DEF CollectorNotStranded
    <2>1. CASE cancelled[c]
      BY <2>1 DEF IInv, CancelInv
    <2>2. CASE ~cancelled[c]
      <3>1. Settled(c) # objects[c] /\ objects[c] \subseteq Objects
        BY DEF IInv, CallInv, CallOK, TypeOK
      <3>2. Settled(c) \subseteq objects[c]
        BY DEF IInv, WorkerInv, WorkerOK, Settled
      <3>3. PICK o \in objects[c] : o \notin Settled(c)
        BY <3>1, <3>2
      <3>4. /\ worker[<<c, o>>] # "none"
            /\ worker[<<c, o>>] \notin {"releasing", "exited"}
        BY <2>2, <3>1, <3>3 DEF IInv, TypeOK, WorkerInv, WorkerOK, Settled,
                                Workers, Outcomes
      <3>5. worker[<<c, o>>] \in {"started", "acquired", "loading", "sending"}
        BY <3>1, <3>4 DEF IInv, TypeOK, Workers
      <3> QED BY <2>2, <3>5
    <2> QED BY <2>1, <2>2
  <1> QED BY Invariance, <1>1, PTL

\* A call that returns without an error has read its whole batch.
THEOREM ReturnsComplete == Spec => []ReturnedComplete
  <1>1. IInv => ReturnedComplete
    BY DEF IInv, CallInv, CallOK, ReturnedComplete
  <1> QED BY Invariance, <1>1, PTL

----------------------------------------------------------------------------
(***************************************************************************)
(* The loader implements BatchLoad.                                        *)
(***************************************************************************)

\* Every step of the loader is, for its caller, the start of a batch, one
\* object settled, a failure, or nothing.
LEMMA BatchStep ==
    ASSUME IInv, [Next]_vars
    PROVE  [Batch!Next]_(Batch!vars)
  <1> USE DEF IInv, TypeOK
  <1> DEFINE settled == [c \in Calls |-> Settled(c)]
  <1>1. ASSUME NEW c \in Calls, NEW objs \in SUBSET Objects,
               AddIndexObjectsAsync(c, objs)
        PROVE  Batch!Begin(c, objs)
    <2>1. settled' = settled
      BY <1>1, SettledByStart
    <2> QED BY <1>1, <2>1 DEF AddIndexObjectsAsync, Batch!Begin
  <1>2. ASSUME NEW w \in Workers,
               \/ Acquire(w) \/ CheckDone(w) \/ Release(w)
               \/ \E res \in Outcomes : LoadObject(w, res)
        PROVE  UNCHANGED Batch!vars
    <2>1. settled' = settled
      BY <1>2, SettledByOthers
    <2>2. UNCHANGED callVars
      BY <1>2 DEF Acquire, CheckDone, Release, LoadObject
    <2> QED BY <2>1, <2>2 DEF Batch!vars, callVars
  <1>3. ASSUME NEW w \in Workers, ReceiveResult(w)
        PROVE  Batch!Next
    <2>1. PICK c \in Calls, o \in Objects : w = <<c, o>>
      BY DEF Workers
    <2>2. /\ \A d \in Calls \ {c} : Settled(d)' = Settled(d)
          /\ o \in objects[c] \ Settled(c)
          /\ result[<<c, o>>] \in Outcomes
          /\ Settled(c)' = IF result[<<c, o>>] = "error" THEN Settled(c)
                           ELSE Settled(c) \cup {o}
      BY <1>3, <2>1, SettledByReceive
    <2>3. objects' = objects /\ collector[c] = "collecting"
      BY <1>3, <2>1 DEF ReceiveResult
    <2>4. CASE result[<<c, o>>] = "error"
      <3>1. /\ collector' = [collector EXCEPT ![c] = "failed"]
            /\ index' = index
        BY <1>3, <2>1, <2>4 DEF ReceiveResult
      <3>2. settled' = settled
        BY <2>2, <2>4
      <3>3. settled[c] # objects[c]
        BY <2>2
      <3>4. Batch!Fail(c)
        BY <2>3, <3>1, <3>2, <3>3 DEF Batch!Fail
      <3> QED BY <3>4 DEF Batch!Next
    <2>5. CASE result[<<c, o>>] # "error"
      <3> DEFINE good == result[<<c, o>>] = "chart"
      <3>1. settled' = [settled EXCEPT ![c] = @ \cup {o}]
        BY <2>2, <2>5
      <3>2. validCount[c] + 1 = Cardinality(objects[c])
                <=> Settled(c) \cup {o} = objects[c]
        BY <2>2, LastResult
      <3>3. collector' = [collector EXCEPT ![c] =
                             IF Settled(c) \cup {o} = objects[c]
                             THEN "returned" ELSE @]
        BY <1>3, <2>1, <2>5, <3>2 DEF ReceiveResult
      <3>4. index' = [index EXCEPT ![c] = IF good THEN @ \cup {o} ELSE @]
        BY <1>3, <2>1 DEF ReceiveResult
      <3>5. settled[c] = Settled(c) /\ good \in BOOLEAN
        OBVIOUS
      <3>6. Batch!Settle(c, o, good)
        BY <2>2, <2>3, <3>1, <3>3, <3>4, <3>5 DEF Batch!Settle
      <3> QED BY <3>5, <3>6 DEF Batch!Next
    <2> QED BY <2>4, <2>5
  <1>4. CASE UNCHANGED vars
    <2>1. settled' = settled
      BY <1>4 DEF vars, Settled
    <2> QED BY <1>4, <2>1 DEF vars, Batch!vars
  <1> QED BY <1>1, <1>2, <1>3, <1>4 DEF Next, WorkerStep, Batch!Next

\* addIndexObjectsAsync implements BatchLoad: its caller may forget about
\* goroutines, the cancelled context and the Limiter.
THEOREM ImplementsBatchLoad == Spec => BatchLoadSpec
  <1>1. Init => Batch!Init
    <2> SUFFICES ASSUME Init PROVE Batch!Init
      OBVIOUS
    <2>1. [c \in Calls |-> Settled(c)] = [c \in Calls |-> {}]
      BY DEF Init, Settled, Workers
    <2> QED BY <2>1 DEF Init, Batch!Init
  <1>2. IInv /\ [Next]_vars => [Batch!Next]_(Batch!vars)
    BY BatchStep
  <1> QED BY Invariance, <1>1, <1>2, PTL DEF Spec, BatchLoadSpec, Batch!Spec

=============================================================================
