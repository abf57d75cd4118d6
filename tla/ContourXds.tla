----------------------------- MODULE ContourXds -----------------------------
(***************************************************************************)
(* How Contour brings Kubernetes objects to Envoy.                         *)
(*                                                                         *)
(* Informers call ResourceEventHandler (k8s.go), which changes the         *)
(* KubernetesCache of the dag.Builder and calls HoldoffNotifier.OnChange   *)
(* (holdoff.go).  That calls CacheHandler.OnChange (cachehandler.go) at    *)
(* once or, to coalesce changes, from a timer; CacheHandler builds a DAG   *)
(* and replaces the contents of the caches that are served.  Endpoints go  *)
(* to a cache of their own (endpointstranslator.go, cond.go).              *)
(*                                                                         *)
(* Every stream of an Envoy (grpc/xds.go) registers a channel of capacity  *)
(* 1 with the cache it serves, together with the count of the last         *)
(* notification it got, and answers every notification with the contents.  *)
(*                                                                         *)
(* Changes of objects are numbered.  The n-th one leaves an object there,  *)
(* which is revision 2n of it, or not there, which is revision 2n - 1; in  *)
(* an update, where the object is removed and inserted, it is both in this *)
(* order.  An object with a foreign ingress class is not there.  0 is the  *)
(* revision of an object that has never been there.                        *)
(***************************************************************************)
EXTENDS Integers, Sequences

CONSTANTS
    Watched,        \* objects the dag.Builder gets: ingresses, services ...
    Endpoints,      \* an object the EndpointsTranslator gets
    Ports,          \* its ports, each with an entry in the translator's cache
    Streams,        \* streams that Envoys open
    Subscribed,     \* the resource types they ask for
    Timer,          \* the goroutine of a timer's function
    MaxChanges      \* bound on the changes of objects

Informed == Watched \cup {Endpoints}
Objects == Watched \cup Ports
Revisions == 0..(2 * MaxChanges)
Actors == Watched \cup {Timer}

\* The caches in the order in which CacheHandler.OnChange replaces them.
Updated == <<"listeners", "routes", "clusters">>
DagTypes == {"listeners", "routes", "clusters"}
Types == DagTypes \cup {"endpoints"}

ASSUME ConstantsAssumption ==
    /\ Endpoints \notin Watched
    /\ Timer \notin Watched \cup {Endpoints}
    /\ Ports \cap Watched = {}
    /\ Subscribed \subseteq Types
    /\ MaxChanges \in Nat

VARIABLES
    object,     \* object[o]: the revision the informer has delivered last
    kc,         \* kc[o]: the revision in the KubernetesCache; for a port, in
                \* the cache of the EndpointsTranslator
    handler,    \* handler[o]: where the handler of o's informer is
    updating,   \* who is in CacheHandler.OnChange, with HoldoffNotifier.mu
    timer,      \* the timer of HoldoffNotifier is running
    fired,      \* calls of the timer's function that wait for the mutex
    updated,    \* HoldoffNotifier.last is set
    dag,        \* dag[a]: the DAG that a has built
    step,       \* step[a]: its place in Updated, 0 before Build
    cache,      \* cache[t]: contents, count of notifications and waiters
    stream,     \* stream[s]: where it is, its type and the last count it got
    ch,         \* ch[s]: the content of its channel, <<>> or one count
    sent,       \* sent[s]: the contents in its last response
    changes

watchVars == <<object, kc, handler, changes>>
holdVars == <<updating, timer, fired, updated, dag, step>>
streamVars == <<stream, ch, sent>>
vars == <<watchVars, holdVars, cache, streamVars>>

\* Revisions of an object that the n-th change removes or inserts.
Removed(n) == 2 * n - 1
Inserted(n) == 2 * n
Exists(revision) == revision > 0 /\ revision % 2 = 0

\* Contents of caches, and those about the objects of S only.
Nothing == [o \in Objects |-> 0]
Only(S, contents) == [o \in Objects |-> IF o \in S THEN contents[o] ELSE 0]
Contents == [Objects -> Revisions]
Caches == [values : Contents, last : Nat, waiters : SUBSET Streams]
StreamStates == [at : {"recv", "register", "wait", "read", "closed"},
                 type : Types, last : Nat \cup {-1}]

TypeOK ==
    /\ object \in Contents /\ kc \in Contents
    /\ handler \in [Informed -> {"idle", "removed", "changed"}]
    /\ updating \subseteq Actors
    /\ timer \in BOOLEAN /\ fired \in Nat /\ updated \in BOOLEAN
    /\ dag \in [Actors -> Contents] /\ step \in [Actors -> 0..3]
    /\ cache \in [Types -> Caches]
    /\ stream \in [Streams -> StreamStates]
    /\ ch \in [Streams -> Seq(Nat)]
    /\ sent \in [Streams -> Contents]
    /\ changes \in 0..MaxChanges

Init ==
    /\ object = Nothing /\ kc = Nothing
    /\ handler = [o \in Informed |-> "idle"]
    /\ updating = {} /\ timer = FALSE /\ fired = 0 /\ updated = FALSE
    /\ dag = [a \in Actors |-> Nothing] /\ step = [a \in Actors |-> 0]
    /\ cache = [t \in Types |-> [values |-> Nothing, last |-> 0, waiters |-> {}]]
    /\ stream \in [Streams -> [at : {"recv"}, type : Subscribed, last : {-1}]]
    /\ ch = [s \in Streams |-> <<>>]
    /\ sent = [s \in Streams |-> Nothing]
    /\ changes = 0

----------------------------------------------------------------------------
\* A channel of capacity 1 that can be sent to.
Free(s) == ch[s] = <<>>

\* What a cache returns: the Cond of the EndpointsTranslator has no contents.
Values(t) ==
    IF t = "endpoints" THEN Only(Ports, kc) ELSE cache[t].values

\* notify: the count goes up and every waiter is told, which blocks, with the
\* mutex of the cache held, unless all their channels are free.
Notify(t, values) ==
    LET c == cache[t]
    IN  /\ \A s \in c.waiters : Free(s)
        /\ cache' = [cache EXCEPT ![t] = [values |-> values, last |-> c.last + 1,
                                          waiters |-> {}]]
        /\ ch' = [s \in Streams |-> IF s \in c.waiters THEN <<c.last + 1>>
                                    ELSE ch[s]]

----------------------------------------------------------------------------
\* Mutants: each is a definition below with one plausible bug, and breaks one
\* of the properties at the end of the module.

\* Mutant: a stream that is told at once becomes a waiter as well.
RegisterTwice(s) ==
    LET t == stream[s].type
    IN  /\ stream[s].at = "register"
        /\ Free(s)
        /\ stream' = [stream EXCEPT ![s].at = "wait"]
        /\ ch' = [ch EXCEPT ![s] = IF stream[s].last < cache[t].last
                                   THEN <<cache[t].last>> ELSE @]
        /\ cache' = [cache EXCEPT ![t].waiters = @ \cup {s}]
        /\ UNCHANGED <<watchVars, holdVars, sent>>

\* Mutant: the counts are not compared.
RegisterAlways(s) ==
    LET t == stream[s].type
    IN  /\ stream[s].at = "register"
        /\ Free(s)
        /\ stream' = [stream EXCEPT ![s].at = "wait"]
        /\ IF stream[s].last = -1 /\ cache[t].last > 0
           THEN ch' = [ch EXCEPT ![s] = <<cache[t].last>>] /\ UNCHANGED cache
           ELSE /\ cache' = [cache EXCEPT ![t].waiters = @ \cup {s}]
                /\ UNCHANGED ch
        /\ UNCHANGED <<watchVars, holdVars, sent>>

\* Mutant: the timer's function does not hold the mutex when it updates.
ForceUnlocked(o) ==
    /\ handler[o] = "changed" /\ updating \subseteq {Timer}
    /\ timer' = FALSE
    /\ updating' = updating \cup {o}
    /\ UNCHANGED <<watchVars, fired, updated, dag, step, cache, streamVars>>

\* Mutant: the timer is stopped and not started again.
DelayOnce(o) ==
    /\ handler[o] = "changed" /\ updating = {}
    /\ updated
    /\ timer' = ~timer
    /\ handler' = [handler EXCEPT ![o] = "idle"]
    /\ UNCHANGED <<object, kc, changes, updating, fired, updated, dag, step, cache,
                   streamVars>>

----------------------------------------------------------------------------
\* OnAdd, OnDelete and OnUpdate of ResourceEventHandler.  An update is a
\* Remove and an Insert, each with the mutex of the KubernetesCache; to or from
\* a foreign ingress class it is an OnDelete or, as nothing has to be removed,
\* an OnAdd.  OnDelete does not look at the class.
Change(o) ==
    /\ changes < MaxChanges
    /\ changes' = changes + 1
    /\ handler[o] = "idle"

OnAdd(o) ==
    /\ Change(o)
    /\ ~Exists(object[o])
    /\ object' = [object EXCEPT ![o] = Inserted(changes')]
    /\ kc' = [kc EXCEPT ![o] = Inserted(changes')]
    /\ handler' = [handler EXCEPT ![o] = "changed"]
    /\ UNCHANGED <<holdVars, cache, streamVars>>

OnDelete(o) ==
    /\ Change(o)
    /\ object' = [object EXCEPT ![o] = Removed(changes')]
    /\ kc' = [kc EXCEPT ![o] = Removed(changes')]
    /\ handler' = [handler EXCEPT ![o] = "changed"]
    /\ UNCHANGED <<holdVars, cache, streamVars>>

OnUpdate(o) ==
    /\ Change(o)
    /\ Exists(object[o])
    /\ object' = [object EXCEPT ![o] = Inserted(changes')]
    /\ kc' = [kc EXCEPT ![o] = Removed(changes')]
    /\ handler' = [handler EXCEPT ![o] = "removed"]
    /\ UNCHANGED <<holdVars, cache, streamVars>>

Insert(o) ==
    /\ handler[o] = "removed"
    /\ kc' = [kc EXCEPT ![o] = object[o]]
    /\ handler' = [handler EXCEPT ![o] = "changed"]
    /\ UNCHANGED <<object, changes, holdVars, cache, streamVars>>

\* An event of the Endpoints, which have the given ports from now on.
\* recomputeClusterLoadAssignment changes the cache entry by entry, each with
\* its mutex: it adds the entries of all ports that there are and then removes
\* those of ports that there were.
OnEndpoints(ports) ==
    /\ Change(Endpoints)
    /\ object' = [o \in Objects |-> IF o \in ports THEN Inserted(changes')
                                    ELSE IF o \in Ports /\ Exists(object[o])
                                    THEN Removed(changes')
                                    ELSE object[o]]
    /\ handler' = [handler EXCEPT ![Endpoints] = "changed"]
    /\ UNCHANGED <<kc, holdVars, cache, streamVars>>

RecomputeEntry(o) ==
    /\ handler[Endpoints] = "changed"
    /\ kc[o] # object[o]
    /\ Exists(object[o]) \/ \A x \in Ports : Exists(object[x]) => kc[x] = object[x]
    /\ kc' = [kc EXCEPT ![o] = object[o]]
    /\ UNCHANGED <<object, handler, changes, holdVars, cache, streamVars>>

\* Its deferred Notify tells the streams.
NotifyEndpoints ==
    /\ handler[Endpoints] = "changed"
    /\ \A o \in Ports : kc[o] = object[o]
    /\ handler' = [handler EXCEPT ![Endpoints] = "idle"]
    /\ Notify("endpoints", Nothing)
    /\ UNCHANGED <<object, kc, changes, holdVars, stream, sent>>

----------------------------------------------------------------------------
\* HoldoffNotifier.OnChange stops the timer, which does not help if its
\* function has been started, and updates at once if the last update was more
\* than holdoffMaxDelay ago.
ForceUpdate(o) ==
    /\ handler[o] = "changed" /\ updating = {}
    /\ timer' = FALSE
    /\ updating' = {o}
    /\ UNCHANGED <<watchVars, fired, updated, dag, step, cache, streamVars>>

\* Otherwise it starts the timer.
DelayUpdate(o) ==
    /\ handler[o] = "changed" /\ updating = {}
    /\ updated
    /\ timer' = TRUE
    /\ handler' = [handler EXCEPT ![o] = "idle"]
    /\ UNCHANGED <<object, kc, changes, updating, fired, updated, dag, step, cache,
                   streamVars>>

Fire ==
    /\ timer
    /\ timer' = FALSE
    /\ fired' = fired + 1
    /\ UNCHANGED <<watchVars, updating, updated, dag, step, cache, streamVars>>

DelayedUpdate ==
    /\ fired > 0 /\ updating = {}
    /\ fired' = fired - 1
    /\ updating' = {Timer}
    /\ UNCHANGED <<watchVars, timer, updated, dag, step, cache, streamVars>>

\* CacheHandler.OnChange: Build reads the KubernetesCache ...
Build(a) ==
    /\ a \in updating /\ step[a] = 0
    /\ step' = [step EXCEPT ![a] = 1]
    /\ dag' = [dag EXCEPT ![a] = Only(Watched, kc)]
    /\ UNCHANGED <<watchVars, updating, timer, fired, updated, cache, streamVars>>

\* ... and the caches are replaced one after the other.  The last one is also
\* the end of HoldoffNotifier.OnChange.
UpdateCache(a) ==
    /\ a \in updating /\ step[a] > 0
    /\ Notify(Updated[step[a]], dag[a])
    /\ IF step[a] < Len(Updated)
       THEN /\ step' = [step EXCEPT ![a] = @ + 1]
            /\ UNCHANGED <<handler, updating, updated, dag>>
       ELSE /\ step' = [step EXCEPT ![a] = 0]
            /\ dag' = [dag EXCEPT ![a] = Nothing]
            /\ updated' = TRUE
            /\ updating' = updating \ {a}
            /\ handler' = [o \in Informed |-> IF o = a THEN "idle" ELSE handler[o]]
    /\ UNCHANGED <<object, kc, changes, timer, fired, stream, sent>>

----------------------------------------------------------------------------
\* stream: the request of the Envoy is read once.
Recv(s) ==
    /\ stream[s].at = "recv"
    /\ stream' = [stream EXCEPT ![s].at = "register"]
    /\ UNCHANGED <<watchVars, holdVars, cache, ch, sent>>

\* Register: a stream that has missed a notification is told at once.
Register(s) ==
    LET t == stream[s].type
    IN  /\ stream[s].at = "register"
        /\ stream' = [stream EXCEPT ![s].at = "wait"]
        /\ IF stream[s].last < cache[t].last
           THEN /\ Free(s)
                /\ ch' = [ch EXCEPT ![s] = <<cache[t].last>>]
                /\ UNCHANGED cache
           ELSE /\ cache' = [cache EXCEPT ![t].waiters = @ \cup {s}]
                /\ UNCHANGED ch
        /\ UNCHANGED <<watchVars, holdVars, sent>>

\* last = <-ch
Notified(s) ==
    /\ stream[s].at = "wait" /\ ~Free(s)
    /\ stream' = [stream EXCEPT ![s].at = "read", ![s].last = Head(ch[s])]
    /\ ch' = [ch EXCEPT ![s] = <<>>]
    /\ UNCHANGED <<watchVars, holdVars, cache, sent>>

\* The contents are read and sent, or the stream fails.
Respond(s, ok) ==
    /\ stream[s].at = "read"
    /\ stream' = [stream EXCEPT ![s].at = IF ok THEN "register" ELSE "closed"]
    /\ sent' = IF ok THEN [sent EXCEPT ![s] = Values(stream[s].type)] ELSE sent
    /\ UNCHANGED <<watchVars, holdVars, cache, ch>>

\* The Envoy hangs up.  The channel stays with the cache until it is told.
HangUp(s) ==
    /\ stream[s].at \in {"recv", "wait"}
    /\ stream' = [stream EXCEPT ![s].at = "closed"]
    /\ UNCHANGED <<watchVars, holdVars, cache, ch, sent>>

Handle(o) == Insert(o) \/ ForceUpdate(o) \/ DelayUpdate(o)

Recompute == NotifyEndpoints \/ \E o \in Ports : RecomputeEntry(o)

Rebuild(a) == Build(a) \/ UpdateCache(a)

Serve(s) == Register(s) \/ Notified(s) \/ \E ok \in BOOLEAN : Respond(s, ok)

Next ==
    \/ \E o \in Watched : OnAdd(o) \/ OnDelete(o) \/ OnUpdate(o) \/ Handle(o)
    \/ \E ports \in SUBSET Ports : OnEndpoints(ports)
    \/ Recompute \/ Fire \/ DelayedUpdate
    \/ \E a \in Actors : Rebuild(a)
    \/ \E s \in Streams : Recv(s) \/ Serve(s) \/ HangUp(s)

Spec == Init /\ [][Next]_vars

\* Handlers, timers and streams are goroutines that go on when they can, and a
\* mutex that is released again and again is got in the end.  An Envoy need
\* not send a request nor hang up.
FairSpec ==
    /\ Spec
    /\ WF_vars(Recompute) /\ WF_vars(Fire) /\ SF_vars(DelayedUpdate)
    /\ \A a \in Actors : WF_vars(Rebuild(a))
    /\ \A o \in Watched : SF_vars(Handle(o))
    /\ \A s \in Streams : WF_vars(Serve(s))

----------------------------------------------------------------------------
\* "Sends by the broadcaster to ch must not block": whoever waits with a cache
\* or is about to register has room in its channel, also when the Envoy has
\* hung up, so that the mutex of the cache is not held for ever.
SendsDoNotBlock ==
    /\ \A t \in Types : \A s \in cache[t].waiters : Free(s)
    /\ \A s \in Streams : stream[s].at \in {"register", "read"} => Free(s)

\* A stream that waits with nothing in its channel has sent the contents of
\* its cache as they are, unless a Notify is about to come; and it will be
\* told of the next change.
NoMissedUpdate ==
    \A s \in Streams :
        LET t == stream[s].type
        IN  stream[s].at = "wait" /\ Free(s) =>
                /\ s \in cache[t].waiters
                /\ \/ sent[s] = Values(t)
                   \/ t = "endpoints" /\ handler[Endpoints] = "changed"

\* Delayed and forced updates may overlap, and a stream reads the contents
\* some time after it was told.  Even so no Envoy gets an older revision of an
\* object after a newer one: neither an old version of it, nor an object that
\* has been removed in between, nor an old absence of one that is there again.
NeverOlder ==
    [][\A s \in Streams, o \in Objects : sent[s][o] <= sent'[s][o]]_vars

\* When objects no longer change, every Envoy that stays connected has the
\* last revision of all: no change is lost in the holdoff.
EnvoysConverge ==
    \A s \in Streams :
        LET served == IF stream[s].type = "endpoints" THEN Ports ELSE Watched
        IN  <>[](\/ stream[s].at \in {"recv", "closed"}
                \/ sent[s] = Only(served, object))
=============================================================================
