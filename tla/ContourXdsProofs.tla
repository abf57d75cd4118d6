-------------------------- MODULE ContourXdsProofs --------------------------
(***************************************************************************)
(* Proofs about the notification of Envoys, for any number of objects,     *)
(* streams and changes:                                                    *)
(*   - a send to a stream's channel never blocks the cache's mutex         *)
(*     (SendsDoNotBlock) and no stream misses a change (NoMissedUpdate);   *)
(*   - no Envoy gets an older revision after a newer one (NeverOlder).     *)
(*                                                                         *)
(* The first two rest on what is true of the channels (StreamInv).  The    *)
(* third rests on the mutex of HoldoffNotifier (OneUpdate) and on the      *)
(* order of the places a revision passes through: object, KubernetesCache, *)
(* DAG, cache, response (Pipeline).                                        *)
(***************************************************************************)
EXTENDS ContourXds, TLAPS

LEMMA UpdatedFacts == Len(Updated) = 3 /\ \A i \in 1..3 : Updated[i] \in DagTypes
  BY DEF Updated, DagTypes

----------------------------------------------------------------------------
\* A stream is with a cache only while it waits, or when it has gone, and it
\* has then room in its channel.
WaitersFree ==
    \A t \in Types : \A s \in cache[t].waiters :
        Free(s) /\ stream[s].at \in {"wait", "closed"} /\ stream[s].type = t

ReadyFree == \A s \in Streams : stream[s].at \in {"recv", "register", "read"} => Free(s)

\* Counts of notifications come from the cache.
CountsBounded ==
    \A s \in Streams :
        /\ stream[s].at = "recv" => stream[s].last = -1
        /\ stream[s].last <= cache[stream[s].type].last
        /\ ~Free(s) => Head(ch[s]) <= cache[stream[s].type].last

EndpointsPending(s) == stream[s].type = "endpoints" /\ handler[Endpoints] = "changed"

\* The last response of a stream is current, or the stream will be told.
ResponseCurrent ==
    \A s \in Streams :
        LET t == stream[s].type
        IN  /\ stream[s].at = "register" =>
                  stream[s].last < cache[t].last \/ sent[s] = Values(t) \/ EndpointsPending(s)
            /\ stream[s].at = "wait" /\ Free(s) =>
                  s \in cache[t].waiters /\ (sent[s] = Values(t) \/ EndpointsPending(s))

StreamInv ==
    /\ TypeOK
    /\ WaitersFree
    /\ ReadyFree
    /\ CountsBounded
    /\ ResponseCurrent

----------------------------------------------------------------------------
\* One update at a time has the mutex of HoldoffNotifier.
OneUpdate ==
    /\ \A a, b \in updating : a = b
    /\ \A a \in Actors : step[a] > 0 => a \in updating

\* No object of d has a revision from before the one in c.
NotOlder(c, d) == \A o \in Objects : c[o] <= d[o]

\* Revisions get older from the informer over the KubernetesCache, the DAG and
\* the caches to the responses.
Pipeline ==
    /\ \A o \in Objects : object[o] <= 2 * changes
    /\ NotOlder(kc, object)
    /\ \A t \in DagTypes : NotOlder(cache[t].values, Only(Watched, kc))
    /\ \A a \in Actors : step[a] > 0 =>
          /\ NotOlder(dag[a], Only(Watched, kc))
          /\ \A t \in DagTypes : NotOlder(cache[t].values, dag[a])
    /\ \A s \in Streams : NotOlder(sent[s], Values(stream[s].type))

----------------------------------------------------------------------------
\* Contents of caches are changed object by object.
LEMMA ContentsFacts ==
    /\ Nothing \in Contents
    /\ \A S : \A c \in Contents : Only(S, c) \in Contents
    /\ \A c \in Contents, o \in Objects, r \in Revisions : [c EXCEPT ![o] = r] \in Contents
    /\ Watched \subseteq Objects /\ Ports \subseteq Objects
    /\ Watched \subseteq Informed /\ Endpoints \in Informed
    /\ Watched \subseteq Actors /\ Timer \in Actors
  <1>1. 0 \in Revisions
    BY ConstantsAssumption DEF Revisions
  <1>2. /\ Nothing \in Contents
        /\ \A S : \A c \in Contents : Only(S, c) \in Contents
        /\ \A c \in Contents, o \in Objects, r \in Revisions : [c EXCEPT ![o] = r] \in Contents
    BY <1>1 DEF Nothing, Only, Contents
  <1> QED BY <1>2 DEF Objects, Informed, Actors

\* Revisions that a change of an object by its informer leads to.
LEMMA ChangeTypes ==
    ASSUME TypeOK, NEW o \in Informed, Change(o)
    PROVE  /\ changes' \in 0..MaxChanges /\ changes' = changes + 1
           /\ Inserted(changes') \in Revisions /\ Removed(changes') \in Revisions
  BY ConstantsAssumption DEF Change, TypeOK, Inserted, Removed, Revisions

\* Notify of a cache keeps the types of the cache and of the channels.
LEMMA NotifyTypes ==
    ASSUME TypeOK, NEW t \in Types, NEW v \in Contents, Notify(t, v)
    PROVE  cache' \in [Types -> Caches] /\ ch' \in [Streams -> Seq(Nat)]
  <1>1. cache[t].last + 1 \in Nat
    BY DEF TypeOK, Caches
  <1>2. [values |-> v, last |-> cache[t].last + 1, waiters |-> {}] \in Caches
    BY <1>1 DEF Caches
  <1>3. cache' \in [Types -> Caches]
    BY <1>2 DEF Notify, TypeOK
  <1>4. <<cache[t].last + 1>> \in Seq(Nat)
    BY <1>1
  <1>5. ch' \in [Streams -> Seq(Nat)]
    BY <1>4 DEF Notify, TypeOK
  <1> QED BY <1>3, <1>5

\* What a cache returns has the type of contents.
LEMMA ValuesType == ASSUME TypeOK, NEW t \in Types PROVE Values(t) \in Contents
  <1>1. cache[t].values \in Contents
    BY DEF TypeOK, Caches
  <1> QED BY <1>1, ContentsFacts DEF Values, TypeOK

\* A stream that goes on keeps its type.
LEMMA StreamMoves ==
    ASSUME TypeOK, NEW s \in Streams
    PROVE  /\ stream[s].type \in Types
           /\ \A at \in {"recv", "register", "wait", "read", "closed"} :
                 [stream EXCEPT ![s].at = at] \in [Streams -> StreamStates]
  BY DEF TypeOK, StreamStates

\* Every step keeps the types of the variables.
LEMMA TypeStep == ASSUME TypeOK, [Next]_vars PROVE TypeOK'
  <1>1. ASSUME NEW o \in Watched, OnAdd(o) \/ OnDelete(o) \/ OnUpdate(o) PROVE TypeOK'
    <2>1. o \in Objects /\ o \in Informed BY ContentsFacts
    <2>2. Change(o)
      BY <1>1 DEF OnAdd, OnDelete, OnUpdate
    <2>3. PICK r, k \in {Inserted(changes'), Removed(changes')} :
              object' = [object EXCEPT ![o] = r] /\ kc' = [kc EXCEPT ![o] = k]
      BY <1>1 DEF OnAdd, OnDelete, OnUpdate
    <2>4. r \in Revisions /\ k \in Revisions /\ changes' \in 0..MaxChanges
      BY <2>1, <2>2, ChangeTypes
    <2>5. object' \in Contents /\ kc' \in Contents
      BY <2>1, <2>3, <2>4, ContentsFacts DEF TypeOK
    <2>6. handler' \in [Informed -> {"idle", "removed", "changed"}]
      BY <1>1, <2>1 DEF OnAdd, OnDelete, OnUpdate, TypeOK
    <2> QED BY <1>1, <2>4, <2>5, <2>6
            DEF OnAdd, OnDelete, OnUpdate, TypeOK, holdVars, streamVars
  <1>2. ASSUME NEW o \in Watched, Handle(o) PROVE TypeOK'
    <2>1. o \in Objects /\ o \in Informed /\ o \in Actors BY ContentsFacts
    <2>2. object[o] \in Revisions BY <2>1 DEF TypeOK, Contents
    <2>3. CASE Insert(o)
      BY <2>1, <2>2, <2>3, ContentsFacts DEF Insert, TypeOK, holdVars, streamVars
    <2>4. CASE ForceUpdate(o)
      BY <2>1, <2>4 DEF ForceUpdate, TypeOK, watchVars, streamVars
    <2>5. CASE DelayUpdate(o)
      BY <2>1, <2>5 DEF DelayUpdate, TypeOK, streamVars
    <2> QED BY <1>2, <2>3, <2>4, <2>5 DEF Handle
  <1>3. ASSUME NEW ports \in SUBSET Ports, OnEndpoints(ports) PROVE TypeOK'
    <2>1. /\ changes' \in 0..MaxChanges
          /\ Inserted(changes') \in Revisions /\ Removed(changes') \in Revisions
      BY <1>3, ChangeTypes, ContentsFacts DEF OnEndpoints
    <2>2. object' \in Contents
      BY <1>3, <2>1 DEF OnEndpoints, TypeOK, Contents
    <2> QED BY <1>3, <2>1, <2>2, ContentsFacts DEF OnEndpoints, TypeOK, holdVars, streamVars
  <1>4. CASE NotifyEndpoints
    <2>1. cache' \in [Types -> Caches] /\ ch' \in [Streams -> Seq(Nat)]
      BY <1>4, NotifyTypes, ContentsFacts DEF NotifyEndpoints, Types
    <2> QED BY <1>4, <2>1, ContentsFacts DEF NotifyEndpoints, TypeOK, holdVars
  <1>13. ASSUME NEW o \in Ports, RecomputeEntry(o) PROVE TypeOK'
    <2>1. o \in Objects /\ object[o] \in Revisions
      BY ContentsFacts DEF TypeOK, Contents
    <2>2. kc' \in Contents
      BY <1>13, <2>1, ContentsFacts DEF RecomputeEntry, TypeOK
    <2> QED BY <1>13, <2>2 DEF RecomputeEntry, TypeOK, holdVars, streamVars
  <1>5. CASE Fire \/ DelayedUpdate
    <2>1. fired' \in Nat
      BY <1>5 DEF Fire, DelayedUpdate, TypeOK
    <2>2. updating' \subseteq Actors /\ timer' \in BOOLEAN
      BY <1>5, ContentsFacts DEF Fire, DelayedUpdate, TypeOK
    <2> QED BY <1>5, <2>1, <2>2 DEF Fire, DelayedUpdate, TypeOK, watchVars, streamVars
  <1>6. ASSUME NEW a \in Actors, Build(a) PROVE TypeOK'
    <2>1. Only(Watched, kc) \in Contents
      BY ContentsFacts DEF TypeOK
    <2>2. dag' \in [Actors -> Contents] /\ step' \in [Actors -> 0..3]
      BY <1>6, <2>1 DEF Build, TypeOK
    <2> QED BY <1>6, <2>2 DEF Build, TypeOK, watchVars, streamVars
  <1>7. ASSUME NEW a \in Actors, UpdateCache(a) PROVE TypeOK'
    <2>1. step[a] \in 1..3 /\ Updated[step[a]] \in Types /\ dag[a] \in Contents
      BY <1>7, UpdatedFacts DEF UpdateCache, TypeOK, Types
    <2>2. cache' \in [Types -> Caches] /\ ch' \in [Streams -> Seq(Nat)]
      BY <1>7, <2>1, NotifyTypes DEF UpdateCache
    <2>3. /\ step' \in [Actors -> 0..3] /\ dag' \in [Actors -> Contents]
          /\ updating' \subseteq Actors /\ updated' \in BOOLEAN
          /\ handler' \in [Informed -> {"idle", "removed", "changed"}]
      <3>1. CASE step[a] < 3
        <4>1. /\ step' = [step EXCEPT ![a] = step[a] + 1]
              /\ UNCHANGED <<handler, updating, updated, dag>>
          BY <1>7, <3>1, UpdatedFacts DEF UpdateCache
        <4>2. step' \in [Actors -> 0..3]
          BY <2>1, <3>1, <4>1 DEF TypeOK
        <4> QED BY <4>1, <4>2 DEF TypeOK
      <3>2. CASE ~(step[a] < 3)
        <4>1. /\ step' = [step EXCEPT ![a] = 0] /\ dag' = [dag EXCEPT ![a] = Nothing]
              /\ updated' = TRUE /\ updating' = updating \ {a}
              /\ handler' = [o \in Informed |-> IF o = a THEN "idle" ELSE handler[o]]
          BY <1>7, <3>2, UpdatedFacts DEF UpdateCache
        <4>2. step' \in [Actors -> 0..3] /\ updating' \subseteq Actors /\ updated' \in BOOLEAN
          BY <4>1 DEF TypeOK
        <4>3. dag' \in [Actors -> Contents]
          BY <4>1, ContentsFacts DEF TypeOK
        <4>4. handler' \in [Informed -> {"idle", "removed", "changed"}]
          BY <4>1 DEF TypeOK
        <4> QED BY <4>2, <4>3, <4>4
      <3> QED BY <3>1, <3>2
    <2> QED BY <1>7, <2>2, <2>3 DEF UpdateCache, TypeOK
  <1>8. ASSUME NEW s \in Streams, Recv(s) \/ HangUp(s) PROVE TypeOK'
    <2>1. stream' \in [Streams -> StreamStates]
      BY ZenonT(30), <1>8, StreamMoves DEF Recv, HangUp, TypeOK
    <2> QED BY <1>8, <2>1 DEF Recv, HangUp, TypeOK, watchVars, holdVars
  <1>9. ASSUME NEW s \in Streams, Register(s) PROVE TypeOK'
    <2>1. stream' \in [Streams -> StreamStates] /\ stream[s].type \in Types
      BY <1>9, StreamMoves DEF Register, TypeOK
    <2>2. cache[stream[s].type].last \in Nat
      BY <2>1 DEF TypeOK, Caches
    <2>3. cache' \in [Types -> Caches] /\ ch' \in [Streams -> Seq(Nat)]
      <3>1. CASE stream[s].last < cache[stream[s].type].last
        <4>1. <<cache[stream[s].type].last>> \in Seq(Nat)
          BY <2>2
        <4> QED BY <1>9, <3>1, <4>1 DEF Register, TypeOK
      <3>2. CASE ~(stream[s].last < cache[stream[s].type].last)
        <4> DEFINE t == stream[s].type
        <4>1. [cache[t] EXCEPT !.waiters = @ \cup {s}] \in Caches
          BY <2>1 DEF TypeOK, Caches
        <4>2. cache' = [cache EXCEPT ![t] = [cache[t] EXCEPT !.waiters = @ \cup {s}]]
              /\ ch' = ch
          BY <1>9, <2>1, <3>2 DEF Register, TypeOK
        <4> QED BY <2>1, <4>1, <4>2 DEF TypeOK
      <3> QED BY <3>1, <3>2
    <2> QED BY <1>9, <2>1, <2>3 DEF Register, TypeOK, watchVars, holdVars
  <1>10. ASSUME NEW s \in Streams, Notified(s) PROVE TypeOK'
    <2>1. Head(ch[s]) \in Nat /\ <<>> \in Seq(Nat)
      BY <1>10 DEF Notified, Free, TypeOK
    <2>2. stream' \in [Streams -> StreamStates]
      BY <1>10, <2>1 DEF Notified, TypeOK, StreamStates
    <2> QED BY <1>10, <2>1, <2>2 DEF Notified, TypeOK, watchVars, holdVars
  <1>11. ASSUME NEW s \in Streams, NEW ok \in BOOLEAN, Respond(s, ok) PROVE TypeOK'
    <2>1. stream' \in [Streams -> StreamStates] /\ stream[s].type \in Types
      BY <1>11, StreamMoves DEF Respond, TypeOK
    <2>2. Values(stream[s].type) \in Contents
      BY <2>1, ValuesType
    <2> QED BY <1>11, <2>1, <2>2 DEF Respond, TypeOK, watchVars, holdVars
  <1>12. CASE UNCHANGED vars
    BY <1>12 DEF vars, watchVars, holdVars, streamVars, TypeOK
  <1> QED BY <1>1, <1>2, <1>3, <1>4, <1>5, <1>6, <1>7, <1>8, <1>9, <1>10, <1>11, <1>12,
             <1>13
          DEF Next, Recompute, Rebuild, Serve

----------------------------------------------------------------------------
\* Steps that leave caches and streams alone.  If Endpoints change, their
\* handler is about to notify.
LEMMA StreamsUntouched ==
    ASSUME StreamInv, TypeOK', UNCHANGED <<cache, stream, ch, sent>>,
           Only(Ports, kc)' = Only(Ports, kc) \/ handler'[Endpoints] = "changed",
           handler[Endpoints] = "changed" => handler'[Endpoints] = "changed"
    PROVE  StreamInv'
  <1>1. WaitersFree' /\ ReadyFree' /\ CountsBounded'
    BY DEF StreamInv, WaitersFree, ReadyFree, CountsBounded, Free
  <1>2. ASSUME NEW s \in Streams
        PROVE  /\ EndpointsPending(s) => EndpointsPending(s)'
               /\ Values(stream[s].type)' = Values(stream[s].type) \/ EndpointsPending(s)'
    BY DEF EndpointsPending, Values
  <1>3. ResponseCurrent'
    BY <1>2 DEF StreamInv, ResponseCurrent, Free
  <1> QED BY <1>1, <1>3 DEF StreamInv

\* Notify tells all waiters of a cache, none of which is blocked.
LEMMA NotifyStep ==
    ASSUME StreamInv, TypeOK', NEW t \in Types, NEW v \in Contents, Notify(t, v),
           UNCHANGED <<stream, sent, kc>>,
           t = "endpoints" \/ handler'[Endpoints] = handler[Endpoints]
    PROVE  StreamInv'
  <1> USE DEF StreamInv
  <1>1. /\ cache'[t].last = cache[t].last + 1 /\ cache'[t].waiters = {}
        /\ \A u \in Types : u # t => cache'[u] = cache[u]
        /\ \A s \in Streams : ch'[s] = IF s \in cache[t].waiters THEN <<cache[t].last + 1>>
                                       ELSE ch[s]
    BY DEF Notify, TypeOK
  <1>2. cache[t].last \in Nat /\ \A u \in Types : cache[u].waiters \subseteq Streams
    BY DEF TypeOK, Caches
  <1>3. \A s \in Streams : stream[s].type \in Types /\ stream[s].last \in Nat \cup {-1}
    BY DEF TypeOK, StreamStates
  <1>4. \A s \in Streams : s \in cache[t].waiters => ~Free(s)' /\ Head(ch'[s]) = cache[t].last + 1
    BY <1>1 DEF Free
  <1>5. \A s \in Streams : s \notin cache[t].waiters => ch'[s] = ch[s] /\ Free(s)' = Free(s)
    BY <1>1 DEF Free
  <1>6. WaitersFree'
    BY <1>1, <1>2, <1>5 DEF WaitersFree
  <1>7. ReadyFree'
    BY <1>5 DEF ReadyFree, WaitersFree
  <1>8. CountsBounded'
    <2> SUFFICES ASSUME NEW s \in Streams
                 PROVE  /\ stream[s].last <= cache'[stream[s].type].last
                        /\ ~Free(s)' => Head(ch'[s]) <= cache'[stream[s].type].last
      BY DEF CountsBounded
    <2>1. CASE s \in cache[t].waiters
      BY <1>1, <1>2, <1>3, <1>4, <2>1 DEF CountsBounded, WaitersFree
    <2>2. CASE s \notin cache[t].waiters /\ stream[s].type # t
      BY <1>1, <1>3, <1>5, <2>2 DEF CountsBounded
    <2>3. CASE s \notin cache[t].waiters /\ stream[s].type = t
      <3>1. ~Free(s) => Head(ch[s]) \in Nat
        BY DEF TypeOK, Free
      <3> QED BY <1>1, <1>2, <1>3, <1>5, <2>3, <3>1 DEF CountsBounded
    <2> QED BY <2>1, <2>2, <2>3
  <1>9. ResponseCurrent'
    <2> SUFFICES ASSUME NEW s \in Streams
                 PROVE  LET u == stream[s].type
                        IN  /\ stream[s].at = "register" =>
                                 stream[s].last < cache'[u].last \/ sent[s] = Values(u)'
                                    \/ EndpointsPending(s)'
                            /\ stream[s].at = "wait" /\ Free(s)' =>
                                 s \in cache'[u].waiters
                                    /\ (sent[s] = Values(u)' \/ EndpointsPending(s)')
      BY DEF ResponseCurrent
    <2>1. CASE stream[s].type # t
      <3>1. /\ Values(stream[s].type)' = Values(stream[s].type)
            /\ EndpointsPending(s)' = EndpointsPending(s)
        BY <1>1, <1>3, <2>1 DEF Values, EndpointsPending
      <3>2. s \notin cache[t].waiters
        BY <2>1 DEF WaitersFree
      <3> QED BY <1>1, <1>3, <1>5, <2>1, <3>1, <3>2 DEF ResponseCurrent
    <2>2. CASE stream[s].type = t
      <3>1. stream[s].last < cache'[t].last
        BY <1>1, <1>2, <1>3, <2>2 DEF CountsBounded
      <3>2. ~(stream[s].at = "wait" /\ Free(s)')
        BY <1>4, <1>5, <2>2 DEF ResponseCurrent
      <3> QED BY <2>2, <3>1, <3>2
    <2> QED BY <2>1, <2>2
  <1> QED BY <1>6, <1>7, <1>8, <1>9

\* A step of stream s leaves the other streams, and what their caches hold,
\* alone.
LEMMA OneStream ==
    ASSUME StreamInv, TypeOK', NEW s \in Streams,
           UNCHANGED <<kc, handler>>,
           \A u \in Streams \ {s} : /\ stream'[u] = stream[u] /\ ch'[u] = ch[u]
                                    /\ sent'[u] = sent[u],
           \A t \in Types : /\ cache'[t].values = cache[t].values
                            /\ cache'[t].last = cache[t].last
                            /\ \A u \in Streams \ {s} :
                                   u \in cache'[t].waiters <=> u \in cache[t].waiters,
           stream'[s].type = stream[s].type, stream'[s].at # "recv",
           \* and it keeps what the invariant says of s
           \A t \in Types : s \in cache'[t].waiters =>
               Free(s)' /\ stream'[s].at \in {"wait", "closed"} /\ stream'[s].type = t,
           stream'[s].at \in {"register", "read"} => Free(s)',
           stream'[s].last <= cache[stream[s].type].last,
           ~Free(s)' => Head(ch'[s]) <= cache[stream[s].type].last,
           stream'[s].at = "register" =>
               \/ stream'[s].last < cache[stream[s].type].last
               \/ sent'[s] = Values(stream[s].type)
               \/ EndpointsPending(s),
           stream'[s].at = "wait" /\ Free(s)' =>
               /\ s \in cache'[stream[s].type].waiters
               /\ sent'[s] = Values(stream[s].type) \/ EndpointsPending(s)
    PROVE  StreamInv'
  <1> USE DEF StreamInv
  <1>1. \A u \in Streams : stream[u].type \in Types
    BY DEF TypeOK, StreamStates
  <1>2. \A t \in Types : cache'[t].waiters \subseteq Streams
    BY DEF TypeOK, Caches
  <1>3. \A u \in Streams \ {s} : Free(u)' = Free(u)
    BY DEF Free
  <1>4. \A u \in Streams : /\ stream'[u].type = stream[u].type
                           /\ EndpointsPending(u)' = EndpointsPending(u)
                           /\ Values(stream[u].type)' = Values(stream[u].type)
    BY <1>1 DEF EndpointsPending, Values
  <1>5. WaitersFree'
    BY <1>1, <1>2, <1>3 DEF WaitersFree
  <1>6. ReadyFree'
    BY <1>3 DEF ReadyFree
  <1>7. CountsBounded'
    BY <1>1, <1>3 DEF CountsBounded
  <1>8. ResponseCurrent'
    <2> SUFFICES ASSUME NEW u \in Streams
                 PROVE  /\ stream'[u].at = "register" =>
                              \/ stream'[u].last < cache'[stream'[u].type].last
                              \/ sent'[u] = Values(stream[u].type)'
                              \/ EndpointsPending(u)'
                        /\ stream'[u].at = "wait" /\ Free(u)' =>
                              /\ u \in cache'[stream'[u].type].waiters
                              /\ sent'[u] = Values(stream[u].type)' \/ EndpointsPending(u)'
      BY DEF ResponseCurrent
    <2>1. CASE u = s
      BY <1>1, <1>4, <2>1
    <2>2. CASE u # s
      BY <1>1, <1>3, <1>4, <2>2 DEF ResponseCurrent
    <2> QED BY <2>1, <2>2
  <1> QED BY <1>5, <1>6, <1>7, <1>8

\* Every step keeps what is true of streams and their channels.
LEMMA StreamStep == ASSUME StreamInv, [Next]_vars PROVE StreamInv'
  <1>t. TypeOK /\ TypeOK' BY TypeStep DEF StreamInv
  <1>e. Endpoints \in Informed /\ Endpoints \notin Actors /\ Watched \cap Ports = {}
    BY ConstantsAssumption DEF Informed, Actors
  <1>1. ASSUME NEW o \in Watched, OnAdd(o) \/ OnDelete(o) \/ OnUpdate(o) \/ Insert(o)
        PROVE  StreamInv'
    <2>1. handler'[Endpoints] = handler[Endpoints]
      BY <1>1, <1>t, <1>e DEF OnAdd, OnDelete, OnUpdate, Insert, TypeOK, Actors
    <2>3. PICK r : kc' = [kc EXCEPT ![o] = r]
      BY <1>1 DEF OnAdd, OnDelete, OnUpdate, Insert
    <2>4. Only(Ports, kc)' = Only(Ports, kc)
      BY <1>t, <1>e, <2>3 DEF Only, TypeOK, Contents
    <2>2. UNCHANGED <<cache, stream, ch, sent>>
      BY <1>1 DEF OnAdd, OnDelete, OnUpdate, Insert, streamVars
    <2> QED BY <1>t, <2>1, <2>2, <2>4, StreamsUntouched
  <1>2. ASSUME NEW o \in Watched, ForceUpdate(o) \/ DelayUpdate(o) PROVE StreamInv'
    <2>1. kc' = kc /\ handler'[Endpoints] = handler[Endpoints]
      BY <1>2, <1>t, <1>e DEF ForceUpdate, DelayUpdate, TypeOK, watchVars, Actors
    <2>2. UNCHANGED <<cache, stream, ch, sent>>
      BY <1>2 DEF ForceUpdate, DelayUpdate, streamVars
    <2> QED BY <1>t, <2>1, <2>2, StreamsUntouched DEF Only
  <1>3. ASSUME \/ \E ports \in SUBSET Ports : OnEndpoints(ports)
               \/ \E o \in Ports : RecomputeEntry(o)
        PROVE  StreamInv'
    <2>1. handler'[Endpoints] = "changed" /\ UNCHANGED <<cache, stream, ch, sent>>
      BY <1>3, <1>t, <1>e DEF OnEndpoints, RecomputeEntry, TypeOK, streamVars
    <2> QED BY <1>t, <2>1, StreamsUntouched
  <1>4. CASE NotifyEndpoints
    BY <1>4, <1>t, NotifyStep, ContentsFacts DEF NotifyEndpoints, Types
  <1>5. CASE Fire \/ DelayedUpdate \/ \E a \in Actors : Build(a)
    BY <1>5, <1>t, StreamsUntouched
       DEF Fire, DelayedUpdate, Build, watchVars, streamVars, Only
  <1>6. ASSUME NEW a \in Actors, UpdateCache(a) PROVE StreamInv'
    <2>1. step[a] \in 1..3 /\ dag[a] \in Contents
      BY <1>6, <1>t DEF UpdateCache, TypeOK
    <2>2. Updated[step[a]] \in Types
      BY <2>1, UpdatedFacts DEF Types
    <2>3. handler'[Endpoints] = handler[Endpoints]
      BY <1>6, <1>e DEF UpdateCache
    <2> QED BY <1>6, <1>t, <2>1, <2>2, <2>3, NotifyStep DEF UpdateCache
  <1>s. ASSUME NEW s \in Streams
        PROVE  /\ stream[s].type \in Types /\ stream[s].last \in Nat \cup {-1}
               /\ cache[stream[s].type].last \in Nat
               /\ stream[s].last <= cache[stream[s].type].last
               /\ stream[s].at = "recv" => stream[s].last = -1
               /\ \A t \in Types : s \in cache[t].waiters =>
                      Free(s) /\ stream[s].at \in {"wait", "closed"} /\ stream[s].type = t
               /\ stream[s].at \in {"recv", "register", "read"} => Free(s)
               /\ ~Free(s) => Head(ch[s]) <= cache[stream[s].type].last
    BY <1>t DEF StreamInv, TypeOK, StreamStates, Caches, WaitersFree, ReadyFree, CountsBounded
  <1>7. ASSUME NEW s \in Streams, Recv(s) \/ HangUp(s) PROVE StreamInv'
    <2>1. PICK at \in {"register", "closed"} :
              /\ stream' = [stream EXCEPT ![s].at = at]
              /\ at = "register" => stream[s].at = "recv"
      BY <1>7 DEF Recv, HangUp
    <2>2. /\ \A u \in Streams \ {s} : stream'[u] = stream[u]
          /\ stream'[s].at = at /\ stream'[s].type = stream[s].type
          /\ stream'[s].last = stream[s].last
      BY <2>1, <1>t DEF TypeOK, StreamStates
    <2>3. UNCHANGED <<kc, handler, cache, ch, sent>> /\ Free(s)' = Free(s)
      BY <1>7 DEF Recv, HangUp, watchVars, Free
    <2>4. /\ \A t \in Types : s \in cache[t].waiters =>
                 Free(s) /\ at \in {"wait", "closed"} /\ stream[s].type = t
          /\ at \in {"register", "read"} => Free(s)
          /\ at = "register" => stream[s].last < cache[stream[s].type].last
      BY <1>s, <2>1
    <2> QED BY <1>t, <1>s, <2>2, <2>3, <2>4, OneStream
  <1>8. ASSUME NEW s \in Streams, Register(s) PROVE StreamInv'
    <2> DEFINE t == stream[s].type
    <2>1. /\ \A u \in Streams \ {s} : stream'[u] = stream[u]
          /\ stream'[s].at = "wait" /\ stream'[s].type = t
          /\ stream'[s].last = stream[s].last /\ stream[s].at = "register"
          /\ UNCHANGED <<kc, handler, sent>>
      BY <1>8, <1>t DEF Register, TypeOK, StreamStates, watchVars
    <2>2. Free(s) /\ \A u \in Types : s \notin cache[u].waiters
      BY <1>s, <2>1
    <2>3. \/ stream[s].last < cache[t].last
          \/ sent[s] = Values(t)
          \/ EndpointsPending(s)
      BY <2>1 DEF StreamInv, ResponseCurrent
    <2>4. CASE stream[s].last < cache[t].last
      <3>1. cache' = cache /\ ch' = [ch EXCEPT ![s] = <<cache[t].last>>]
        BY <1>8, <2>4 DEF Register
      <3>2. /\ \A u \in Streams \ {s} : ch'[u] = ch[u]
            /\ ~Free(s)' /\ Head(ch'[s]) = cache[t].last
        BY <3>1, <1>t DEF TypeOK, Free
      <3> QED BY <1>t, <1>s, <2>1, <2>2, <3>1, <3>2, OneStream
    <2>5. CASE ~(stream[s].last < cache[t].last)
      <3>1. ch' = ch /\ cache' = [cache EXCEPT ![t].waiters = @ \cup {s}]
        BY <1>8, <2>5 DEF Register
      <3>2. \A u \in Types : /\ cache'[u].values = cache[u].values
                             /\ cache'[u].last = cache[u].last
                             /\ cache'[u].waiters = IF u = t THEN cache[u].waiters \cup {s}
                                                    ELSE cache[u].waiters
        BY <3>1, <1>t, <1>s DEF TypeOK, Caches
      <3>3. Free(s)'
        BY <2>2, <3>1 DEF Free
      <3>4. \A v \in Types : /\ s \in cache'[v].waiters => v = t
                             /\ \A u \in Streams \ {s} :
                                    u \in cache'[v].waiters <=> u \in cache[v].waiters
        BY <2>2, <3>2
      <3>5. s \in cache'[t].waiters /\ (sent'[s] = Values(t) \/ EndpointsPending(s))
        BY <1>s, <2>1, <2>3, <2>5, <3>2
      <3>6. \A v \in Types : s \in cache'[v].waiters =>
                Free(s)' /\ stream'[s].at \in {"wait", "closed"} /\ stream'[s].type = v
        BY <2>1, <3>3, <3>4
      <3> QED BY <1>t, <1>s, <2>1, <3>1, <3>2, <3>3, <3>4, <3>5, <3>6, OneStream
    <2> QED BY <2>4, <2>5
  <1>9. ASSUME NEW s \in Streams, Notified(s) PROVE StreamInv'
    <2>1. /\ \A u \in Streams \ {s} : stream'[u] = stream[u] /\ ch'[u] = ch[u]
          /\ stream'[s].at = "read" /\ stream'[s].type = stream[s].type
          /\ stream'[s].last = Head(ch[s]) /\ Free(s)' /\ ~Free(s)
          /\ UNCHANGED <<kc, handler, cache, sent>>
      BY <1>9, <1>t DEF Notified, TypeOK, StreamStates, watchVars, Free
    <2> QED BY <1>t, <1>s, <2>1, OneStream
  <1>10. ASSUME NEW s \in Streams, NEW ok \in BOOLEAN, Respond(s, ok) PROVE StreamInv'
    <2>1. /\ stream[s].at = "read"
          /\ stream' = [stream EXCEPT ![s].at = IF ok THEN "register" ELSE "closed"]
          /\ sent' = IF ok THEN [sent EXCEPT ![s] = Values(stream[s].type)] ELSE sent
          /\ UNCHANGED <<kc, handler, cache, ch>>
      BY <1>10 DEF Respond, watchVars
    <2>2. /\ \A u \in Streams \ {s} : stream'[u] = stream[u] /\ sent'[u] = sent[u]
          /\ stream'[s].at = IF ok THEN "register" ELSE "closed"
          /\ stream'[s].type = stream[s].type /\ stream'[s].last = stream[s].last
          /\ ok => sent'[s] = Values(stream[s].type)
      BY <2>1, <1>t DEF TypeOK, StreamStates
    <2>3. Free(s) /\ Free(s)' /\ \A t \in Types : s \notin cache[t].waiters
      BY <1>s, <2>1 DEF Free
    <2> QED BY <1>t, <1>s, <2>1, <2>2, <2>3, OneStream
  <1>11. CASE UNCHANGED vars
    BY <1>11, <1>t, StreamsUntouched DEF vars, watchVars, streamVars, Only
  <1> QED BY <1>1, <1>2, <1>3, <1>4, <1>5, <1>6, <1>7, <1>8, <1>9, <1>10, <1>11
          DEF Next, Handle, Recompute, Rebuild, Serve

----------------------------------------------------------------------------
PipelineInv == TypeOK /\ OneUpdate /\ Pipeline

\* HoldoffNotifier.mu lets one update in.
LEMMA OneUpdateStep == ASSUME TypeOK, OneUpdate, [Next]_vars PROVE OneUpdate'
  <1>1. ASSUME NEW o \in Watched, ForceUpdate(o) PROVE OneUpdate'
    BY <1>1 DEF ForceUpdate, OneUpdate
  <1>2. CASE DelayedUpdate
    BY <1>2 DEF DelayedUpdate, OneUpdate
  <1>3. ASSUME NEW a \in Actors, Build(a) PROVE OneUpdate'
    BY <1>3 DEF Build, OneUpdate, TypeOK
  <1>4. ASSUME NEW a \in Actors, UpdateCache(a) PROVE OneUpdate'
    <2>1. CASE step[a] < Len(Updated)
      BY <1>4, <2>1 DEF UpdateCache, OneUpdate, TypeOK
    <2>2. CASE ~(step[a] < Len(Updated))
      BY <1>4, <2>2 DEF UpdateCache, OneUpdate, TypeOK
    <2> QED BY <2>1, <2>2
  <1>5. CASE UNCHANGED <<updating, step>>
    BY <1>5 DEF OneUpdate
  <1> QED BY <1>1, <1>2, <1>3, <1>4, <1>5
          DEF Next, Handle, Recompute, Rebuild, Serve, OnAdd, OnDelete, OnUpdate, Insert,
              DelayUpdate, OnEndpoints, RecomputeEntry, NotifyEndpoints, Fire, Recv, Register, Notified, Respond, HangUp,
              vars, holdVars

\* Contents are numbers, which a chain of NotOlder compares.
LEMMA Contained ==
    ASSUME NEW c \in Contents, NEW d \in Contents, NEW e \in Contents
    PROVE  /\ NotOlder(c, c)
           /\ NotOlder(c, d) /\ NotOlder(d, e) => NotOlder(c, e)
           /\ \A S : NotOlder(c, d) => NotOlder(Only(S, c), Only(S, d))
  BY ConstantsAssumption DEF NotOlder, Only, Contents, Revisions

\* The contents that Pipeline compares.
LEMMA PipelineTypes ==
    ASSUME TypeOK
    PROVE  /\ object \in Contents /\ kc \in Contents
           /\ Only(Watched, kc) \in Contents /\ Only(Ports, kc) \in Contents
           /\ \A a \in Actors : dag[a] \in Contents /\ step[a] \in 0..3
           /\ \A t \in DagTypes : cache[t].values \in Contents
           /\ \A s \in Streams : /\ sent[s] \in Contents /\ stream[s].type \in Types
                                  /\ Values(stream[s].type) \in Contents
  BY ContentsFacts, ValuesType DEF TypeOK, Caches, StreamStates, Types

\* Steps that change objects and the KubernetesCache only, to newer revisions.
LEMMA UpstreamChanges ==
    ASSUME TypeOK, TypeOK', Pipeline, UNCHANGED <<dag, step, cache, stream, sent>>,
           NotOlder(kc, kc'), NotOlder(kc', object'),
           \A o \in Objects : object'[o] <= 2 * changes'
    PROVE  Pipeline'
  <1>1. kc \in Contents /\ kc' \in Contents
    BY DEF TypeOK
  <1>2. \A S : NotOlder(Only(S, kc), Only(S, kc)')
    BY <1>1, Contained DEF Only, NotOlder
  <1>3. \A S : Only(S, kc) \in Contents /\ Only(S, kc)' \in Contents
    BY <1>1, ContentsFacts DEF Only
  <1>4. ASSUME NEW c \in Contents, NEW S, NotOlder(c, Only(S, kc))
        PROVE  NotOlder(c, Only(S, kc)')
    BY <1>2, <1>3, <1>4, Contained
  <1>5. \A t \in DagTypes : NotOlder(cache[t].values, Only(Watched, kc)')
    BY <1>4, PipelineTypes DEF Pipeline
  <1>6. \A a \in Actors : step[a] > 0 => NotOlder(dag[a], Only(Watched, kc)')
    BY <1>4, PipelineTypes DEF Pipeline
  <1>7. \A s \in Streams : NotOlder(sent[s], Values(stream[s].type)')
    BY <1>4, PipelineTypes DEF Pipeline, Values
  <1> QED BY <1>5, <1>6, <1>7 DEF Pipeline, NotOlder

\* A change of object o: revisions that are there are older than the new one.
LEMMA ChangePipeline ==
    ASSUME TypeOK, TypeOK', Pipeline, NEW o \in Watched,
           OnAdd(o) \/ OnDelete(o) \/ OnUpdate(o)
    PROVE  Pipeline'
  <1>1. changes' = changes + 1 /\ changes \in Nat
    BY DEF OnAdd, OnDelete, OnUpdate, Change, TypeOK
  <1>2. /\ UNCHANGED <<dag, step, cache, stream, sent>>
        /\ \E r \in {2 * changes + 1, 2 * changes + 2} :
              object' = [object EXCEPT ![o] = r]
        /\ \E k \in {2 * changes + 1, 2 * changes + 2} : kc' = [kc EXCEPT ![o] = k]
        /\ kc'[o] <= object'[o]
    <2>1. PICK r, k \in {2 * changes + 1, 2 * changes + 2} :
              object' = [object EXCEPT ![o] = r] /\ kc' = [kc EXCEPT ![o] = k] /\ k <= r
      BY <1>1 DEF OnAdd, OnDelete, OnUpdate, Inserted, Removed
    <2>2. kc'[o] = k /\ object'[o] = r
      BY <2>1, ContentsFacts DEF TypeOK, Contents
    <2> QED BY <2>1, <2>2 DEF OnAdd, OnDelete, OnUpdate, holdVars, streamVars
  <1>3. ASSUME NEW x \in Objects
        PROVE  /\ kc[x] <= kc'[x] /\ kc'[x] <= object'[x] /\ object'[x] <= 2 * changes'
    <2>1. /\ kc[x] <= object[x] /\ object[x] <= 2 * changes
          /\ kc[x] \in Nat /\ object[x] \in Nat
      BY ConstantsAssumption DEF Pipeline, NotOlder, TypeOK, Contents, Revisions
    <2>2. CASE x = o
      <3>1. /\ kc'[x] \in {2 * changes + 1, 2 * changes + 2}
            /\ object'[x] \in {2 * changes + 1, 2 * changes + 2}
        BY <1>2, <2>2 DEF TypeOK, Contents
      <3> QED BY <1>1, <1>2, <2>1, <2>2, <3>1
    <2>3. CASE x # o
      <3>1. kc'[x] = kc[x] /\ object'[x] = object[x]
        BY <1>2, <2>3 DEF TypeOK, Contents
      <3> QED BY <1>1, <2>1, <3>1
    <2> QED BY <2>2, <2>3
  <1> QED BY <1>2, <1>3, UpstreamChanges DEF NotOlder

\* An event of the Endpoints.
LEMMA EndpointsPipeline ==
    ASSUME TypeOK, TypeOK', Pipeline, NEW ports \in SUBSET Ports, OnEndpoints(ports)
    PROVE  Pipeline'
  <1>1. /\ UNCHANGED <<kc, dag, step, cache, stream, sent>>
        /\ changes' = changes + 1 /\ changes \in Nat
    BY DEF OnEndpoints, Change, TypeOK, holdVars, streamVars
  <1>2. ASSUME NEW x \in Objects
        PROVE  kc[x] <= kc'[x] /\ kc'[x] <= object'[x] /\ object'[x] <= 2 * changes'
    <2>1. /\ kc[x] <= object[x] /\ object[x] <= 2 * changes
          /\ kc[x] \in Nat /\ object[x] \in Nat
      BY ConstantsAssumption DEF Pipeline, NotOlder, TypeOK, Contents, Revisions
    <2>2. object'[x] \in {2 * changes + 1, 2 * changes + 2, object[x]}
      BY <1>1 DEF OnEndpoints, Inserted, Removed
    <2> QED BY <1>1, <2>1, <2>2
  <1> QED BY <1>1, <1>2, UpstreamChanges DEF NotOlder

\* The second half of an update, or an entry of the EndpointsTranslator's cache.
LEMMA InsertPipeline ==
    ASSUME TypeOK, TypeOK', Pipeline, NEW o \in Objects, kc' = [kc EXCEPT ![o] = object[o]],
           UNCHANGED <<object, changes, dag, step, cache, stream, sent>>
    PROVE  Pipeline'
  <1>1. ASSUME NEW x \in Objects
        PROVE  kc[x] <= kc'[x] /\ kc'[x] <= object'[x] /\ object'[x] <= 2 * changes'
    <2>1. /\ kc[x] <= object[x] /\ object[x] <= 2 * changes
          /\ kc[x] \in Nat /\ object[x] \in Nat
      BY ConstantsAssumption DEF Pipeline, NotOlder, TypeOK, Contents, Revisions
    <2>2. kc'[x] \in {kc[x], object[x]}
      BY DEF TypeOK, Contents
    <2> QED BY <2>1, <2>2
  <1> QED BY <1>1, UpstreamChanges DEF NotOlder

\* Every step keeps the order of the revisions in the pipeline.
LEMMA PipelineStep == ASSUME PipelineInv, [Next]_vars PROVE PipelineInv'
  <1>t. TypeOK /\ TypeOK' /\ OneUpdate /\ OneUpdate' /\ Pipeline
    BY TypeStep, OneUpdateStep DEF PipelineInv
  <1>f. Watched \subseteq Objects /\ Ports \subseteq Objects
    BY ContentsFacts
  <1>1. ASSUME NEW o \in Watched, OnAdd(o) \/ OnDelete(o) \/ OnUpdate(o) PROVE Pipeline'
    BY <1>1, <1>t, ChangePipeline
  <1>2. ASSUME NEW ports \in SUBSET Ports, OnEndpoints(ports) PROVE Pipeline'
    BY <1>2, <1>t, EndpointsPipeline
  <1>3. ASSUME \/ \E o \in Watched : Insert(o)
               \/ \E o \in Ports : RecomputeEntry(o)
        PROVE  Pipeline'
    <2>1. PICK o \in Objects :
              /\ kc' = [kc EXCEPT ![o] = object[o]]
              /\ UNCHANGED <<object, changes, dag, step, cache, stream, sent>>
      BY <1>3, <1>f DEF Insert, RecomputeEntry, holdVars, streamVars
    <2> QED BY <1>t, <2>1, InsertPipeline
  <1>4. ASSUME NEW a \in Actors, Build(a) PROVE Pipeline'
    <2>1. UNCHANGED <<object, kc, changes, cache, stream, sent>>
      BY <1>4 DEF Build, watchVars, streamVars
    <2>2. ASSUME NEW b \in Actors, b # a PROVE dag'[b] = dag[b] /\ step'[b] = step[b]
      BY <1>4, <2>2, <1>t DEF Build, TypeOK
    <2>3. dag'[a] = Only(Watched, kc)
      BY <1>4, <1>t DEF Build, TypeOK
    <2>4. NotOlder(dag'[a], Only(Watched, kc))
      BY <2>3, <1>t, PipelineTypes, Contained
    <2>5. \A t \in DagTypes : NotOlder(cache[t].values, dag'[a])
      BY <2>3, <1>t DEF Pipeline
    <2> QED BY <1>t, <2>1, <2>2, <2>4, <2>5 DEF Pipeline, NotOlder, Only, Values
  <1>5. ASSUME NEW a \in Actors, UpdateCache(a) PROVE Pipeline'
    <2> DEFINE u == Updated[step[a]]
    <2>1. UNCHANGED <<object, kc, changes, stream, sent>> /\ a \in updating /\ step[a] > 0
      BY <1>5 DEF UpdateCache
    <2>2. u \in DagTypes
      BY <2>1, <1>t, UpdatedFacts DEF TypeOK
    <2>3. \A t \in DagTypes : cache'[t].values = IF t = u THEN dag[a] ELSE cache[t].values
      BY <1>5, <1>t, <2>2 DEF UpdateCache, Notify, TypeOK, Types
    <2>4. \A b \in Actors : b # a => ~(step'[b] > 0)
      <3>1. ASSUME NEW b \in Actors, b # a PROVE ~(step[b] > 0)
        BY <1>t, <2>1, <3>1 DEF OneUpdate
      <3>2. \A b \in Actors : b # a => step'[b] = step[b]
        BY <1>5, <1>t DEF UpdateCache, TypeOK
      <3> QED BY <3>1, <3>2
    <2>5. step'[a] > 0 => dag'[a] = dag[a]
      BY <1>5, <1>t DEF UpdateCache, TypeOK
    <2>6. /\ NotOlder(dag[a], Only(Watched, kc)) /\ NotOlder(dag[a], dag[a])
          /\ \A t \in DagTypes : NotOlder(cache[t].values, dag[a])
      BY <1>t, <2>1, PipelineTypes, Contained DEF Pipeline
    <2>7. \A t \in DagTypes : /\ NotOlder(cache'[t].values, Only(Watched, kc))
                              /\ NotOlder(cache'[t].values, dag[a])
      BY <1>t, <2>3, <2>6 DEF Pipeline
    <2>8. ASSUME NEW s \in Streams PROVE NotOlder(sent[s], Values(stream[s].type)')
      <3>1. NotOlder(sent[s], Values(stream[s].type))
        BY <1>t DEF Pipeline
      <3>2. CASE stream[s].type = u
        <4>1. Values(stream[s].type) = cache[u].values /\ Values(stream[s].type)' = dag[a]
          BY <2>1, <2>2, <2>3, <3>2 DEF Values, DagTypes
        <4> QED BY <1>t, <2>2, <2>6, <3>1, <4>1, PipelineTypes, Contained
      <3>3. CASE stream[s].type # u
        <4>1. Values(stream[s].type)' = Values(stream[s].type)
          BY <1>t, <2>1, <2>3, <3>3, PipelineTypes DEF Values, Only, Types
        <4> QED BY <3>1, <4>1
      <3> QED BY <3>2, <3>3
    <2> QED BY <1>t, <2>1, <2>4, <2>5, <2>6, <2>7, <2>8 DEF Pipeline, NotOlder, Only
  <1>6. ASSUME NEW s \in Streams, NEW ok \in BOOLEAN, Respond(s, ok) PROVE Pipeline'
    <2>1. /\ UNCHANGED <<object, kc, changes, cache, dag, step>>
          /\ \A u \in Streams : stream'[u].type = stream[u].type
          /\ \A u \in Streams \ {s} : sent'[u] = sent[u]
          /\ sent'[s] \in {sent[s], Values(stream[s].type)}
      BY <1>6, <1>t DEF Respond, watchVars, holdVars, TypeOK, StreamStates
    <2>2. NotOlder(Values(stream[s].type), Values(stream[s].type))
      BY <1>t, PipelineTypes, Contained
    <2>3. \A u \in Streams : NotOlder(sent'[u], Values(stream[u].type))
      BY <1>t, <2>1, <2>2 DEF Pipeline
    <2> QED BY <1>t, <2>1, <2>3 DEF Pipeline, NotOlder, Only, Values
  <1>7. ASSUME UNCHANGED <<object, kc, changes, dag, step, cache, stream, sent>>
        PROVE  Pipeline'
    BY <1>7, <1>t DEF Pipeline, NotOlder, Only, Values
  <1>8. ASSUME NEW s \in Streams, Recv(s) \/ Register(s) \/ Notified(s) \/ HangUp(s)
        PROVE  Pipeline'
    <2>1. /\ UNCHANGED <<object, kc, changes, dag, step, sent>>
          /\ \A u \in Streams : stream'[u].type = stream[u].type
          /\ \A t \in DagTypes : cache'[t].values = cache[t].values
      <3>1. UNCHANGED <<object, kc, changes, dag, step, sent>>
        BY <1>8 DEF Recv, Register, Notified, HangUp, watchVars, holdVars
      <3>2. \A u \in Streams : stream'[u].type = stream[u].type
        <4>1. CASE Recv(s) \/ Register(s) \/ HangUp(s)
          <5>1. \E at \in {"register", "wait", "closed"} : stream' = [stream EXCEPT ![s].at = at]
            BY <4>1 DEF Recv, Register, HangUp
          <5> QED BY <5>1, <1>t DEF TypeOK, StreamStates
        <4>2. CASE Notified(s)
          BY <4>2, <1>t DEF Notified, TypeOK, StreamStates
        <4> QED BY <1>8, <4>1, <4>2
      <3>3. \A t \in DagTypes : cache'[t].values = cache[t].values
        <4>1. CASE Register(s)
          <5>1. \/ cache' = cache
                \/ cache' = [cache EXCEPT ![stream[s].type].waiters = @ \cup {s}]
            BY <4>1 DEF Register
          <5>2. \A t \in Types : t \in DOMAIN cache /\ cache[t] = [values |-> cache[t].values,
                    last |-> cache[t].last, waiters |-> cache[t].waiters]
            BY <1>t DEF TypeOK, Caches
          <5>3. \A t \in Types : cache'[t].values = cache[t].values
            BY ZenonT(60), <5>1, <5>2
          <5> QED BY <5>3 DEF Types
        <4>2. CASE Recv(s) \/ Notified(s) \/ HangUp(s)
          BY <4>2 DEF Recv, Notified, HangUp
        <4> QED BY <1>8, <4>1, <4>2
      <3> QED BY <3>1, <3>2, <3>3
    <2>2. \A u \in Streams : Values(stream[u].type)' = Values(stream[u].type)
      BY <1>t, <2>1, PipelineTypes DEF Values, Only, Types
    <2> QED BY <1>t, <2>1, <2>2 DEF Pipeline, NotOlder, Only
  <1>9. ASSUME NotifyEndpoints PROVE Pipeline'
    <2>1. \A t \in DagTypes : cache'[t].values = cache[t].values
      BY <1>9, <1>t DEF NotifyEndpoints, Notify, TypeOK, Types, DagTypes
    <2>2. UNCHANGED <<object, kc, changes, dag, step, stream, sent>>
      BY <1>9 DEF NotifyEndpoints, holdVars
    <2>3. \A u \in Streams : Values(stream[u].type)' = Values(stream[u].type)
      BY <1>t, <2>1, <2>2, PipelineTypes DEF Values, Only, Types
    <2> QED BY <1>t, <2>1, <2>2, <2>3 DEF Pipeline, NotOlder, Only
  <1>10. Pipeline'
    BY <1>1, <1>2, <1>3, <1>4, <1>5, <1>6, <1>7, <1>8, <1>9
       DEF Next, Handle, Recompute, Rebuild, Serve, ForceUpdate, DelayUpdate, Fire,
           DelayedUpdate, vars, watchVars, holdVars, streamVars
  <1> QED BY <1>t, <1>10 DEF PipelineInv

----------------------------------------------------------------------------
\* A Contour that has just started has no contents to tell of.
LEMMA InitInvariant == Init => StreamInv /\ PipelineInv
  <1> SUFFICES ASSUME Init PROVE StreamInv /\ PipelineInv OBVIOUS
  <1> USE DEF Init
  <1>1. TypeOK
    <2>1. [values |-> Nothing, last |-> 0, waiters |-> {}] \in Caches
      BY ContentsFacts DEF Caches
    <2>2. stream \in [Streams -> StreamStates]
      BY ConstantsAssumption DEF StreamStates
    <2>3. <<>> \in Seq(Nat) /\ 0 \in 0..MaxChanges
      BY ConstantsAssumption
    <2>4. /\ object \in Contents /\ kc \in Contents
          /\ dag \in [Actors -> Contents] /\ sent \in [Streams -> Contents]
      BY ContentsFacts
    <2>5. /\ handler \in [Informed -> {"idle", "removed", "changed"}]
          /\ step \in [Actors -> 0..3] /\ updating \subseteq Actors /\ fired \in Nat
      OBVIOUS
    <2>6. cache \in [Types -> Caches] /\ ch \in [Streams -> Seq(Nat)] /\ changes \in 0..MaxChanges
      BY <2>1, <2>3
    <2> QED BY <2>2, <2>4, <2>5, <2>6 DEF TypeOK
  <1>2. WaitersFree /\ ReadyFree
    BY DEF WaitersFree, ReadyFree, Free
  <1>3. \A s \in Streams : stream[s].at = "recv" /\ stream[s].last = -1 /\ stream[s].type \in Types
    BY <1>1 DEF TypeOK, StreamStates
  <1>4. CountsBounded /\ ResponseCurrent
    BY <1>3 DEF CountsBounded, ResponseCurrent, Free
  <1>5. OneUpdate
    BY DEF OneUpdate
  <1>6. Pipeline
    BY <1>3 DEF Pipeline, NotOlder, Only, Values, Nothing, Types, DagTypes
  <1> QED BY <1>1, <1>2, <1>4, <1>5, <1>6 DEF StreamInv, PipelineInv

\* A response in which an object is older than in the one before cannot be sent.
LEMMA ResponseNotOlder ==
    ASSUME PipelineInv, [Next]_vars, NEW s \in Streams, NEW o \in Objects
    PROVE  sent[s][o] <= sent'[s][o]
  <1>t. TypeOK /\ Pipeline BY DEF PipelineInv
  <1>1. CASE sent'[s] = sent[s]
    <2>1. sent[s][o] \in Nat
      BY <1>t, ConstantsAssumption DEF TypeOK, Contents, Revisions
    <2> QED BY <1>1, <2>1
  <1>2. CASE sent'[s] # sent[s]
    <2>1. PICK u \in Streams : \E ok \in BOOLEAN : Respond(u, ok)
      BY <1>2 DEF Next, Handle, Recompute, Rebuild, Serve, OnAdd, OnDelete, OnUpdate, Insert,
             ForceUpdate, DelayUpdate, OnEndpoints, RecomputeEntry, NotifyEndpoints, Fire,
             DelayedUpdate, Build, UpdateCache, Recv, Register, Notified, HangUp, vars,
             streamVars
    <2>2. sent'[s] = Values(stream[s].type)
      BY <1>2, <1>t, <2>1 DEF Respond, TypeOK
    <2> QED BY <1>t, <2>2 DEF Pipeline, NotOlder
  <1> QED BY <1>1, <1>2

\* The channels, counts and contents keep their types.
THEOREM XdsTypeCorrect == Spec => []TypeOK
  <1>1. Init => TypeOK BY InitInvariant DEF PipelineInv
  <1>2. TypeOK /\ [Next]_vars => TypeOK' BY TypeStep
  <1> QED BY <1>1, <1>2, PTL DEF Spec

\* Register and notify of the caches, which send to a stream's channel with the
\* mutex of the cache held, never block.
THEOREM SendsNeverBlock == Spec => []SendsDoNotBlock
  <1>1. Init => StreamInv BY InitInvariant
  <1>2. StreamInv /\ [Next]_vars => StreamInv' BY StreamStep
  <1>3. StreamInv => SendsDoNotBlock
    BY DEF StreamInv, WaitersFree, ReadyFree, SendsDoNotBlock
  <1> QED BY <1>1, <1>2, <1>3, PTL DEF Spec

\* A stream that waits has sent what there is, or a Notify is about to come.
THEOREM NothingMissed == Spec => []NoMissedUpdate
  <1>1. Init => StreamInv BY InitInvariant
  <1>2. StreamInv /\ [Next]_vars => StreamInv' BY StreamStep
  <1>3. StreamInv => NoMissedUpdate
    BY DEF StreamInv, ResponseCurrent, NoMissedUpdate, EndpointsPending
  <1> QED BY <1>1, <1>2, <1>3, PTL DEF Spec

\* HoldoffNotifier.mu keeps forced and delayed updates apart, so that no stream
\* sends an older revision of an object after a newer one.
THEOREM ResponsesNeverOlder == Spec => NeverOlder
  <1>1. Init => PipelineInv BY InitInvariant
  <1>2. PipelineInv /\ [Next]_vars => PipelineInv' BY PipelineStep
  <1>3. PipelineInv /\ [Next]_vars =>
            [\A s \in Streams, o \in Objects : sent[s][o] <= sent'[s][o]]_vars
    BY ResponseNotOlder
  <1> QED BY <1>1, <1>2, <1>3, PTL DEF Spec, NeverOlder
=============================================================================
