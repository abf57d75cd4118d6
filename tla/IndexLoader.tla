---------------------------- MODULE IndexLoader ----------------------------
(***************************************************************************)
(* addIndexObjectsAsync of pkg/chartmuseum/server/multitenant/cache.go and *)
(* the server-wide Limiter channel of server.go.                           *)
(*                                                                         *)
(* A call starts one goroutine per storage object and then collects their  *)
(* results from an unbuffered channel.  With --index-limit set, a          *)
(* goroutine first puts an item in the Limiter, a buffered channel shared  *)
(* by every call of every tenant, and takes one out when it ends.  The     *)
(* first goroutine whose object cannot be read cancels the context of the  *)
(* call, so that goroutines which have not begun to load return without a  *)
(* result.  The collector returns on the first error it receives: from     *)
(* then on nobody receives from the channel of that call.                  *)
(***************************************************************************)
EXTENDS Naturals, FiniteSets

CONSTANTS Calls,       \* calls of addIndexObjectsAsync, by any tenants
          Objects,     \* storage objects a call may be asked to load
          IndexLimit   \* --index-limit; 0 means no limit

ASSUME ConstantsAssumption ==
    /\ IsFiniteSet(Calls)
    /\ IsFiniteSet(Objects)
    /\ IndexLimit \in Nat

VARIABLES
    collector,    \* collector[c]: where the calling goroutine of call c is
    objects,      \* objects[c]: the objects argument of call c
    validCount,   \* validCount[c]: results received by call c
    index,        \* index[c]: objects whose chart call c has added
    cancelled,    \* cancelled[c]: the context of call c is done
    worker,       \* worker[<<c, o>>]: where the goroutine for o in call c is
    result,       \* result[<<c, o>>]: what that goroutine has to send
    limiter       \* number of items in the Limiter channel

callVars == <<collector, objects, validCount, index>>
vars == <<collector, objects, validCount, index, cancelled, worker, result,
          limiter>>

Workers == Calls \X Objects

\* What getObjectChartVersion and checkInvalidChartPackageError leave a
\* goroutine with: a chart, nothing (an invalid package is logged and
\* skipped), or the error of the storage backend.
Outcomes == {"chart", "invalid", "error"}

TypeOK ==
    /\ collector \in [Calls -> {"idle", "collecting", "returned", "failed"}]
    /\ objects \in [Calls -> SUBSET Objects]
    /\ validCount \in [Calls -> Nat]
    /\ index \in [Calls -> SUBSET Objects]
    /\ cancelled \in [Calls -> BOOLEAN]
    /\ worker \in [Workers -> {"none", "started", "acquired", "loading",
                               "sending", "releasing", "exited"}]
    /\ result \in [Workers -> Outcomes \cup {"none"}]
    /\ limiter \in Nat

Init ==
    /\ collector = [c \in Calls |-> "idle"]
    /\ objects = [c \in Calls |-> {}]
    /\ validCount = [c \in Calls |-> 0]
    /\ index = [c \in Calls |-> {}]
    /\ cancelled = [c \in Calls |-> FALSE]
    /\ worker = [w \in Workers |-> "none"]
    /\ result = [w \in Workers |-> "none"]
    /\ limiter = 0

----------------------------------------------------------------------------
\* Mutants: each is an action below with one plausible bug, and breaks one of
\* the properties at the end of the module.

\* Mutant: the Limiter has room for one item too many.
AcquireOneTooMany(w) ==
    /\ worker[w] = "started"
    /\ IF IndexLimit = 0 THEN UNCHANGED limiter
       ELSE limiter <= IndexLimit /\ limiter' = limiter + 1
    /\ worker' = [worker EXCEPT ![w] = "acquired"]
    /\ UNCHANGED <<callVars, cancelled, result>>

\* Mutant: no select on ctx.Done().
CheckNothing(w) ==
    /\ worker[w] = "acquired"
    /\ worker' = [worker EXCEPT ![w] = "loading"]
    /\ UNCHANGED <<callVars, cancelled, result, limiter>>

\* Mutant: an invalid package cancels the context too.
LoadCancelsOnInvalid(w, res) ==
    /\ worker[w] = "loading"
    /\ worker' = [worker EXCEPT ![w] = "sending"]
    /\ result' = [result EXCEPT ![w] = res]
    /\ cancelled' = [cancelled EXCEPT ![w[1]] = @ \/ res # "chart"]
    /\ UNCHANGED <<callVars, limiter>>

\* Mutant: the goroutine returns after cancel() without sending the error.
LoadSwallowsError(w, res) ==
    /\ worker[w] = "loading"
    /\ worker' = [worker EXCEPT ![w] = IF res = "error" THEN "releasing"
                                       ELSE "sending"]
    /\ result' = [result EXCEPT ![w] = res]
    /\ cancelled' = [cancelled EXCEPT ![w[1]] = @ \/ res = "error"]
    /\ UNCHANGED <<callVars, limiter>>

\* Mutant: the collecting loop stops one result early.
ReceiveOneTooFew(w) ==
    LET c == w[1]
        failed == result[w] = "error"
        last == validCount[c] + 2 >= Cardinality(objects[c])
    IN  /\ collector[c] = "collecting"
        /\ worker[w] = "sending"
        /\ worker' = [worker EXCEPT ![w] = "releasing"]
        /\ validCount' = [validCount EXCEPT ![c] = @ + 1]
        /\ index' = [index EXCEPT ![c] = IF result[w] = "chart"
                                         THEN @ \cup {w[2]} ELSE @]
        /\ collector' = [collector EXCEPT ![c] = IF failed THEN "failed"
                                                 ELSE IF last THEN "returned"
                                                 ELSE @]
        /\ cancelled' = [cancelled EXCEPT ![c] = @ \/ failed \/ last]
        /\ UNCHANGED <<objects, result, limiter>>

\* Mutant: cv == nil is tested before err, so that an error is skipped.
ReceiveSkipsErrors(w) ==
    LET c == w[1]
        last == validCount[c] + 1 = Cardinality(objects[c])
    IN  /\ collector[c] = "collecting"
        /\ worker[w] = "sending"
        /\ worker' = [worker EXCEPT ![w] = "releasing"]
        /\ validCount' = [validCount EXCEPT ![c] = @ + 1]
        /\ index' = [index EXCEPT ![c] = IF result[w] = "chart"
                                         THEN @ \cup {w[2]} ELSE @]
        /\ collector' = [collector EXCEPT ![c] = IF last THEN "returned" ELSE @]
        /\ cancelled' = [cancelled EXCEPT ![c] = @ \/ last]
        /\ UNCHANGED <<objects, result, limiter>>

----------------------------------------------------------------------------
\* The call: nothing to do for an empty batch, otherwise one goroutine per
\* object.
AddIndexObjectsAsync(c, objs) ==
    /\ collector[c] = "idle"
    /\ collector' = [collector EXCEPT ![c] = IF objs = {} THEN "returned"
                                             ELSE "collecting"]
    /\ objects' = [objects EXCEPT ![c] = objs]
    /\ worker' = [w \in Workers |-> IF w[1] = c /\ w[2] \in objs
                                    THEN "started" ELSE worker[w]]
    /\ UNCHANGED <<validCount, index, cancelled, result, limiter>>

\* server.Limiter <- struct{}{}: blocks while the channel is full.
Acquire(w) ==
    /\ worker[w] = "started"
    /\ IF IndexLimit = 0 THEN UNCHANGED limiter
       ELSE limiter < IndexLimit /\ limiter' = limiter + 1
    /\ worker' = [worker EXCEPT ![w] = "acquired"]
    /\ UNCHANGED <<callVars, cancelled, result>>

\* The select on ctx.Done().
CheckDone(w) ==
    /\ worker[w] = "acquired"
    /\ worker' = [worker EXCEPT ![w] = IF cancelled[w[1]] THEN "releasing"
                                       ELSE "loading"]
    /\ UNCHANGED <<callVars, cancelled, result, limiter>>

\* The object is read and parsed; a storage error cancels the context.
LoadObject(w, res) ==
    /\ worker[w] = "loading"
    /\ worker' = [worker EXCEPT ![w] = "sending"]
    /\ result' = [result EXCEPT ![w] = res]
    /\ cancelled' = [cancelled EXCEPT ![w[1]] = @ \/ res = "error"]
    /\ UNCHANGED <<callVars, limiter>>

\* The rendezvous on the unbuffered cvChan between a goroutine and the
\* collecting loop of its call.  The deferred cancel runs when the call ends.
ReceiveResult(w) ==
    LET c == w[1]
        failed == result[w] = "error"
        last == validCount[c] + 1 = Cardinality(objects[c])
    IN  /\ collector[c] = "collecting"
        /\ worker[w] = "sending"
        /\ worker' = [worker EXCEPT ![w] = "releasing"]
        /\ validCount' = [validCount EXCEPT ![c] = IF failed THEN @ ELSE @ + 1]
        /\ index' = [index EXCEPT ![c] = IF result[w] = "chart"
                                         THEN @ \cup {w[2]} ELSE @]
        /\ collector' = [collector EXCEPT ![c] = IF failed THEN "failed"
                                                 ELSE IF last THEN "returned"
                                                 ELSE @]
        /\ cancelled' = [cancelled EXCEPT ![c] = @ \/ failed \/ last]
        /\ UNCHANGED <<objects, result, limiter>>

\* The deferred receive from the Limiter, and the end of the goroutine.
Release(w) ==
    /\ worker[w] = "releasing"
    /\ worker' = [worker EXCEPT ![w] = "exited"]
    /\ limiter' = IF IndexLimit = 0 THEN limiter ELSE limiter - 1
    /\ UNCHANGED <<callVars, cancelled, result>>

WorkerStep(w) ==
    \/ Acquire(w)
    \/ CheckDone(w)
    \/ \E res \in Outcomes : LoadObject(w, res)
    \/ ReceiveResult(w)
    \/ Release(w)

Next ==
    \/ \E c \in Calls, objs \in SUBSET Objects : AddIndexObjectsAsync(c, objs)
    \/ \E w \in Workers : WorkerStep(w)

Spec == Init /\ [][Next]_vars

\* Goroutines that can run are run, storage calls return, and the Limiter
\* serves its waiting senders.  Nothing says that a call is ever made.
Fairness == \A w \in Workers : WF_vars(WorkerStep(w))

FairSpec == Spec /\ Fairness

----------------------------------------------------------------------------
\* Goroutines that hold an item of the Limiter.
Holders ==
    {w \in Workers : worker[w] \in {"acquired", "loading", "sending",
                                    "releasing"}}

\* Goroutines past the check of the context whose call no longer receives:
\* each of them will block on its send for ever.
Doomed ==
    {w \in Workers : /\ worker[w] \in {"loading", "sending"}
                     /\ collector[w[1]] # "collecting"}

\* Objects whose result the collector of c has received without an error.
Settled(c) ==
    {o \in Objects : /\ worker[<<c, o>>] \in {"releasing", "exited"}
                     /\ result[<<c, o>>] \in {"chart", "invalid"}}

\* --index-limit is "the number of parallel indexers": never more than
\* IndexLimit goroutines of all calls together are between taking and
\* returning an item of the Limiter.
LimitedParallelism ==
    IndexLimit # 0 => Cardinality(Holders) <= IndexLimit

\* A call that fails abandons the goroutines it started, and the ones that
\* were past the select on ctx.Done() keep their item of the Limiter for
\* ever.  However many calls of however many tenants fail, at least one item
\* is left: indexing slows down to one object at a time, it never stops.
SlotSurvives ==
    IndexLimit # 0 => Cardinality(Doomed) < IndexLimit

\* While a collector waits on cvChan, some goroutine of its call can still
\* send: a cancelled context, which makes goroutines return without sending,
\* always leaves an error on its way to the collector.
CollectorNotStranded ==
    \A c \in Calls : collector[c] = "collecting" =>
        \E o \in objects[c] :
            \/ worker[<<c, o>>] = "sending"
            \/ /\ ~cancelled[c]
               /\ worker[<<c, o>>] \in {"started", "acquired", "loading"}

\* addIndexObjectsAsync returns without an error only when every object of
\* its batch was read, and then the index has gained exactly the charts.
ReturnedComplete ==
    \A c \in Calls : collector[c] = "returned" =>
        /\ Settled(c) = objects[c]
        /\ index[c] = {o \in objects[c] : result[<<c, o>>] = "chart"}

\* A call of addIndexObjectsAsync always comes back, whatever the calls
\* before it and beside it leave in the shared Limiter.
EveryCallEnds ==
    \A c \in Calls : collector[c] = "collecting" ~>
                     collector[c] \in {"returned", "failed"}

\* A loader call, for its caller, is a batch that is settled object by
\* object: the goroutines, the cancelled context and the Limiter do not show.
Batch == INSTANCE BatchLoad WITH
             status <- collector,
             batch <- objects,
             settled <- [c \in Calls |-> Settled(c)],
             index <- index

BatchLoadSpec == Batch!Spec
=============================================================================
