---------------------------- MODULE RemoteWrite -----------------------------
(***************************************************************************)
(* Remote write of Prometheus (busybox-prometheus/storage/remote): the     *)
(* QueueManager of queue_manager.go for one endpoint, and the Storage of   *)
(* storage.go and write.go that appends to it, replaces it when the        *)
(* configuration is reloaded and stops it at shutdown.                     *)
(*                                                                         *)
(* A manager has one set of shards at a time, a queue (a buffered channel) *)
(* and a goroutine (runShard) each; a series always goes to the shard that *)
(* its fingerprint selects.  reshard replaces the set by one of another    *)
(* width, and ApplyConfig the whole manager.  The sets are numbered in the *)
(* order they are made: generation g + 1 takes over from g.                *)
(*                                                                         *)
(* The k-th sample of a series is <<series, k>>.  The rates from which the *)
(* wanted number of shards is computed are left open, and so are the       *)
(* timers: BatchSendDeadline and the ticker may go off at any time.        *)
(***************************************************************************)
EXTENDS Naturals, Sequences

CONSTANTS
    Series,             \* series, after relabelling
    Fingerprint,        \* FastFingerprint of each
    RuleSeries,         \* those written by recording rules, not by scrapes
    Capacity,           \* QueueConfig.Capacity
    MaxShards,          \* QueueConfig.MaxShards
    MaxSamplesPerSend,  \* QueueConfig.MaxSamplesPerSend
    MaxRetries,         \* QueueConfig.MaxRetries
    MaxSamples,         \* bound on the samples of each series
    MaxGenerations      \* bound on the sets of shards

ASSUME ConstantsAssumption ==
    /\ Fingerprint \in [Series -> Nat]
    /\ RuleSeries \subseteq Series
    /\ Capacity \in Nat \ {0}
    /\ MaxShards \in Nat \ {0}
    /\ MaxSamplesPerSend \in Nat \ {0}
    /\ MaxRetries \in Nat
    /\ MaxSamples \in [Series -> Nat]
    /\ MaxGenerations \in Nat \ {0}

Generations == 1..MaxGenerations
Shards == Generations \X (0..MaxShards - 1)
Samples == UNION {{s} \X (1..MaxSamples[s]) : s \in Series}

VARIABLES
    current,      \* t.shards: the generation that Append puts samples in
    width,        \* width[g]: number of queues of g, 0 before it is made
    closed,       \* closed[g]: the queues of g are closed
    queue,        \* queue[x]: the channel of shard x
    pc,           \* pc[x]: where runShard of x is, "off" before it is started
    pending,      \* pending[x]: pendingSamples of x
    retries,      \* retries[x]: attempts left for what x is sending
    numShards,    \* t.numShards, which belongs to updateShardsLoop
    updater,      \* updateShardsLoop
    resharder,    \* reshardLoop
    quit,         \* t.quit is closed
    sampleOut,    \* samplesOut > 0: a shard of this manager has sent a batch
    storage,      \* what ApplyConfig or Close, holding Storage.mtx, is at
    closing,      \* Close has been called
    panicked,     \* the process has died of an operation on a closed channel
    appended,     \* appended[s]: number of samples of s that Append took
    dropped,      \* samples counted by droppedSamplesTotal
    succeeded,    \* samples counted by succeededSamplesTotal
    failed,       \* samples counted by failedSamplesTotal
    received      \* history: the samples that the endpoint has got, in the
                  \* order of their arrival, repeated ones included

shardVars == <<width, closed, queue, pc, pending, retries>>
loopVars == <<numShards, updater, resharder, quit>>
storageVars == <<storage, closing, panicked>>
countVars == <<dropped, succeeded, failed>>
vars == <<current, shardVars, loopVars, sampleOut, storageVars, appended,
          countVars, received>>

TypeOK ==
    /\ current \in Generations
    /\ width \in [Generations -> 0..MaxShards]
    /\ closed \in [Generations -> BOOLEAN]
    /\ queue \in [Shards -> Seq(Samples)]
    /\ pc \in [Shards -> {"off", "select", "send", "flush", "done"}]
    /\ pending \in [Shards -> Seq(Samples)]
    /\ \A x \in Shards : Len(queue[x]) <= Capacity
    /\ \A x \in Shards : Len(pending[x]) <= MaxSamplesPerSend
    /\ retries \in [Shards -> 0..MaxRetries]
    /\ numShards \in 1..MaxShards
    /\ updater \in {"select", "done"}
    /\ resharder \in {"select", "swap", "stop", "wait", "done"}
    /\ quit \in BOOLEAN /\ sampleOut \in BOOLEAN
    /\ storage \in {"start", "open", "stop", "flush", "closed"}
    /\ closing \in BOOLEAN /\ panicked \in BOOLEAN
    /\ appended \in [Series -> Nat]
    /\ \A s \in Series : appended[s] <= MaxSamples[s]
    /\ dropped \subseteq Samples
    /\ succeeded \subseteq Samples /\ failed \subseteq Samples
    /\ received \in Seq(Samples)

\* The shards of generation g.
ShardsOf(g) == {x \in Shards : x[1] = g /\ x[2] < width[g]}

\* s.wg.Wait: every runShard of g has returned.
AllDone(g) == \A x \in ShardsOf(g) : pc[x] = "done"

\* The manager that the first ApplyConfig has made and is starting.
Init ==
    /\ current = 1
    /\ width = [g \in Generations |-> IF g = 1 THEN 1 ELSE 0]
    /\ closed = [g \in Generations |-> FALSE]
    /\ queue = [x \in Shards |-> <<>>]
    /\ pc = [x \in Shards |-> "off"]
    /\ pending = [x \in Shards |-> <<>>]
    /\ retries = [x \in Shards |-> 0]
    /\ numShards = 1
    /\ updater = "select" /\ resharder = "select"
    /\ quit = FALSE /\ sampleOut = FALSE
    /\ storage = "start" /\ closing = FALSE /\ panicked = FALSE
    /\ appended = [s \in Series |-> 0]
    /\ dropped = {} /\ succeeded = {} /\ failed = {}
    /\ received = <<>>

----------------------------------------------------------------------------
\* Mutants: each is a definition below with one plausible bug, and breaks one
\* of the properties at the end of the module.

\* Mutant: samples are spread over the shards whatever their series.
SpreadShard(s, g) == <<g, appended[s] % width[g]>>

\* Mutant: pendingSamples is not emptied after a send.
SendReturnsKeeps(x) ==
    /\ pc' = [pc EXCEPT ![x] = IF @ = "send" THEN "select" ELSE "done"]
    /\ retries' = [retries EXCEPT ![x] = 0]
    /\ sampleOut' = TRUE
    /\ UNCHANGED <<current, width, closed, queue, pending, loopVars,
                   storageVars, appended, dropped>>

\* Mutant: Add does not take Storage.mtx.
AppendUnlocked(s) ==
    LET x == <<current, Fingerprint[s] % width[current]>>
    IN  /\ closing => s \in RuleSeries
        /\ appended[s] < MaxSamples[s]
        /\ panicked' = closed[current]
        /\ IF Len(queue[x]) < Capacity /\ ~closed[current]
           THEN /\ queue' = [queue EXCEPT ![x] = Append(@, <<s, appended[s] + 1>>)]
                /\ appended' = [appended EXCEPT ![s] = @ + 1]
           ELSE UNCHANGED <<queue, appended>>
        /\ UNCHANGED <<current, width, closed, pc, pending, retries, loopVars,
                       sampleOut, storage, closing, countVars, received>>

\* Mutant: Stop does not wait for the shards.
CloseReturnsAtOnce ==
    /\ storage = "flush" /\ closing
    /\ storage' = "closed"
    /\ UNCHANGED <<current, shardVars, loopVars, sampleOut, closing, panicked,
                   appended, countVars, received>>

\* Mutant: the number of shards is computed before anything has been sent.
CalculateAlways(n) ==
    /\ updater = "select"
    /\ n # numShards
    /\ resharder = "select" /\ ~quit
    /\ current + 1 < MaxGenerations
    /\ numShards' = n
    /\ resharder' = "swap"
    /\ UNCHANGED <<current, shardVars, updater, quit, sampleOut, storageVars,
                   appended, countVars, received>>

\* Mutant: the new shards are started without waiting for the old ones.
ReshardStartAtOnce ==
    /\ resharder = "wait"
    /\ resharder' = "select"
    /\ pc' = [x \in Shards |-> IF x \in ShardsOf(current) THEN "select" ELSE pc[x]]
    /\ UNCHANGED <<current, width, closed, queue, pending, retries, numShards,
                   updater, quit, sampleOut, storageVars, appended, countVars,
                   received>>

\* Mutant: a batch is sent when it is one sample too long.
ReceiveOneMore(x) ==
    /\ pc[x] = "select"
    /\ queue[x] # <<>>
    /\ queue' = [queue EXCEPT ![x] = Tail(@)]
    /\ pending' = [pending EXCEPT ![x] = Append(@, Head(queue[x]))]
    /\ IF Len(pending[x]) >= MaxSamplesPerSend
       THEN /\ pc' = [pc EXCEPT ![x] = "send"]
            /\ retries' = [retries EXCEPT ![x] = MaxRetries]
       ELSE UNCHANGED <<pc, retries>>
    /\ UNCHANGED <<current, width, closed, loopVars, sampleOut, storageVars,
                   appended, countVars, received>>

\* Mutant: the timer is not set again after a full batch.
DeadlineOnce(x) ==
    /\ pc[x] = "select"
    /\ pending[x] # <<>> /\ ~sampleOut
    /\ pc' = [pc EXCEPT ![x] = "send"]
    /\ retries' = [retries EXCEPT ![x] = MaxRetries]
    /\ UNCHANGED <<current, width, closed, queue, pending, loopVars, sampleOut,
                   storageVars, appended, countVars, received>>

\* Mutant: what is left when the queue is closed is not sent.
QueueClosedForgets(x) ==
    /\ pc[x] = "select"
    /\ closed[x[1]] /\ queue[x] = <<>>
    /\ pc' = [pc EXCEPT ![x] = "done"]
    /\ pending' = [pending EXCEPT ![x] = <<>>]
    /\ UNCHANGED <<current, width, closed, queue, retries, loopVars, sampleOut,
                   storageVars, appended, countVars, received>>

----------------------------------------------------------------------------
\* Helpers.

\* The shard of generation g to which series s goes.
ShardFor(s, g) == <<g, Fingerprint[s] % width[g]>>

\* s.start(): runShard is started for every queue of g.
Started(g) == [x \in Shards |-> IF x \in ShardsOf(g) THEN "select" ELSE pc[x]]

Elements(seq) == {seq[i] : i \in 1..Len(seq)}

InBatch(x) == Elements(pending[x])

Sending(x) == pc[x] \in {"send", "flush"}

\* sendSamples returns: in the loop pendingSamples is emptied, after the last
\* flush runShard returns.
SendReturns(x) ==
    /\ pc' = [pc EXCEPT ![x] = IF @ = "send" THEN "select" ELSE "done"]
    /\ pending' = [pending EXCEPT ![x] = <<>>]
    /\ retries' = [retries EXCEPT ![x] = 0]
    /\ sampleOut' = TRUE
    /\ UNCHANGED <<current, width, closed, queue, loopVars, storageVars,
                   appended, dropped>>

----------------------------------------------------------------------------
\* Storage: the scrape and rule loops call Add, the reload handler calls
\* ApplyConfig and the shutdown Close.

\* Add gives a sample to Append, which selects a shard and puts it in the
\* queue, all under shardsMtx; it is dropped if the queue is full.  Scrape
\* loops have ended before Close is called, rule groups have not.  Sending on
\* a closed channel panics.
AppendSample(s) ==
    LET x == ShardFor(s, current)
        sample == <<s, appended[s] + 1>>
    IN  /\ storage \in {"open", "closed"}
        /\ closing => s \in RuleSeries
        /\ appended[s] < MaxSamples[s]
        /\ \/ /\ closed[current]
              /\ panicked' = TRUE
              /\ UNCHANGED <<queue, dropped, appended>>
           \/ /\ ~closed[current] /\ Len(queue[x]) < Capacity
              /\ appended' = [appended EXCEPT ![s] = @ + 1]
              /\ queue' = [queue EXCEPT ![x] = Append(@, sample)]
              /\ UNCHANGED <<dropped, panicked>>
           \/ /\ ~closed[current] /\ Len(queue[x]) >= Capacity
              /\ appended' = [appended EXCEPT ![s] = @ + 1]
              /\ dropped' = dropped \cup {sample}
              /\ UNCHANGED <<queue, panicked>>
        /\ UNCHANGED <<current, width, closed, pc, pending, retries, loopVars,
                       sampleOut, storage, closing, succeeded, failed, received>>

\* ApplyConfig and Close lock Storage.mtx and call Stop, which closes quit:
\* twice if the manager is stopped already, and that panics.
BeginStop(close) ==
    /\ storage \in {"open", "closed"}
    /\ close => ~closing
    /\ close \/ current < MaxGenerations
    /\ closing' = (closing \/ close)
    /\ IF quit THEN panicked' = TRUE /\ UNCHANGED <<quit, storage>>
       ELSE quit' = TRUE /\ storage' = "stop" /\ UNCHANGED panicked
    /\ UNCHANGED <<current, shardVars, numShards, updater, resharder, sampleOut,
                   appended, countVars, received>>

\* Stop has waited for the two loops, and closes the queues.
StopShards ==
    /\ storage = "stop"
    /\ updater = "done" /\ resharder = "done"
    /\ closed' = [closed EXCEPT ![current] = TRUE]
    /\ storage' = "flush"
    /\ UNCHANGED <<current, width, queue, pc, pending, retries, loopVars,
                   sampleOut, closing, panicked, appended, countVars, received>>

\* Stop has waited for the shards.  Close returns.
CloseReturns ==
    /\ storage = "flush" /\ closing
    /\ AllDone(current)
    /\ storage' = "closed"
    /\ UNCHANGED <<current, shardVars, loopVars, sampleOut, closing, panicked,
                   appended, countVars, received>>

\* ApplyConfig installs a new manager with one shard; Start runs its loops.
StartManager ==
    /\ storage = "flush" /\ ~closing
    /\ AllDone(current)
    /\ storage' = "start"
    /\ current' = current + 1
    /\ width' = [width EXCEPT ![current + 1] = 1]
    /\ numShards' = 1
    /\ updater' = "select" /\ resharder' = "select"
    /\ quit' = FALSE /\ sampleOut' = FALSE
    /\ UNCHANGED <<closed, queue, pc, pending, retries, closing, panicked,
                   appended, countVars, received>>

\* Start then takes shardsMtx and starts t.shards; ApplyConfig returns.
StartShards ==
    /\ storage = "start"
    /\ storage' = "open"
    /\ pc' = Started(current)
    /\ UNCHANGED <<current, width, closed, queue, pending, retries, loopVars,
                   sampleOut, closing, panicked, appended, countVars, received>>

----------------------------------------------------------------------------
\* updateShardsLoop: if batches have been sent, some number of shards other
\* than the present one may be wanted; it is handed over if reshardLoop is
\* waiting for one (which it no longer does once quit is closed).
CalculateDesiredShards(n) ==
    /\ updater = "select"
    /\ sampleOut
    /\ n # numShards
    /\ resharder = "select" /\ ~quit
    /\ current + 1 < MaxGenerations
    /\ numShards' = n
    /\ resharder' = "swap"
    /\ UNCHANGED <<current, shardVars, updater, quit, sampleOut, storageVars,
                   appended, countVars, received>>

UpdateShardsLoopQuits ==
    /\ updater = "select" /\ quit
    /\ updater' = "done"
    /\ UNCHANGED <<current, shardVars, numShards, resharder, quit, sampleOut,
                   storageVars, appended, countVars, received>>

\* reshard: new shards are put in place of the old ones under shardsMtx, ...
ReshardSwap ==
    /\ resharder = "swap"
    /\ resharder' = "stop"
    /\ current' = current + 1
    /\ width' = [width EXCEPT ![current + 1] = numShards]
    /\ UNCHANGED <<closed, queue, pc, pending, retries, numShards, updater,
                   quit, sampleOut, storageVars, appended, countVars, received>>

\* ... the queues of the old ones are closed, ...
ReshardStop ==
    /\ resharder = "stop"
    /\ resharder' = "wait"
    /\ closed' = [closed EXCEPT ![current - 1] = TRUE]
    /\ UNCHANGED <<current, width, queue, pc, pending, retries, numShards,
                   updater, quit, sampleOut, storageVars, appended, countVars,
                   received>>

\* ... and when they have been flushed the new ones are started.
ReshardStart ==
    /\ resharder = "wait"
    /\ AllDone(current - 1)
    /\ resharder' = "select"
    /\ pc' = Started(current)
    /\ UNCHANGED <<current, width, closed, queue, pending, retries, numShards,
                   updater, quit, sampleOut, storageVars, appended, countVars,
                   received>>

ReshardLoopQuits ==
    /\ resharder = "select" /\ quit
    /\ resharder' = "done"
    /\ UNCHANGED <<current, shardVars, numShards, updater, quit, sampleOut,
                   storageVars, appended, countVars, received>>

----------------------------------------------------------------------------
\* runShard.

\* A sample is received; a full batch is sent.
ReceiveSample(x) ==
    /\ pc[x] = "select"
    /\ queue[x] # <<>>
    /\ queue' = [queue EXCEPT ![x] = Tail(@)]
    /\ pending' = [pending EXCEPT ![x] = Append(@, Head(queue[x]))]
    /\ IF Len(pending[x]) + 1 >= MaxSamplesPerSend
       THEN /\ pc' = [pc EXCEPT ![x] = "send"]
            /\ retries' = [retries EXCEPT ![x] = MaxRetries]
       ELSE UNCHANGED <<pc, retries>>
    /\ UNCHANGED <<current, width, closed, loopVars, sampleOut, storageVars,
                   appended, countVars, received>>

\* BatchSendDeadline is over: what there is is sent.
Deadline(x) ==
    /\ pc[x] = "select"
    /\ pending[x] # <<>>
    /\ pc' = [pc EXCEPT ![x] = "send"]
    /\ retries' = [retries EXCEPT ![x] = MaxRetries]
    /\ UNCHANGED <<current, width, closed, queue, pending, loopVars, sampleOut,
                   storageVars, appended, countVars, received>>

\* The queue is closed and empty: what is left is sent, and runShard returns.
QueueClosed(x) ==
    /\ pc[x] = "select"
    /\ closed[x[1]] /\ queue[x] = <<>>
    /\ IF pending[x] = <<>>
       THEN pc' = [pc EXCEPT ![x] = "done"] /\ UNCHANGED retries
       ELSE /\ pc' = [pc EXCEPT ![x] = "flush"]
            /\ retries' = [retries EXCEPT ![x] = MaxRetries]
    /\ UNCHANGED <<current, width, closed, queue, pending, loopVars, sampleOut,
                   storageVars, appended, countVars, received>>

\* sendSamplesWithBackoff.  Store succeeds; fails with an error that may be
\* recoverable (a 5xx, a timeout or another network error), the request
\* having arrived or not; or the endpoint answers with another status.
StoreSucceeds(x) ==
    /\ Sending(x) /\ retries[x] > 0
    /\ received' = received \o pending[x]
    /\ succeeded' = succeeded \cup InBatch(x)
    /\ SendReturns(x)
    /\ UNCHANGED failed

StoreRecoverable(x, arrived) ==
    /\ Sending(x) /\ retries[x] > 0
    /\ received' = IF arrived THEN received \o pending[x] ELSE received
    /\ retries' = [retries EXCEPT ![x] = @ - 1]
    /\ UNCHANGED <<current, width, closed, queue, pc, pending, loopVars,
                   sampleOut, storageVars, appended, countVars>>

StoreRejected(x) ==
    /\ Sending(x) /\ retries[x] > 0
    /\ failed' = failed \cup InBatch(x)
    /\ SendReturns(x)
    /\ UNCHANGED <<succeeded, received>>

\* There is no attempt left.
GiveUp(x) ==
    /\ Sending(x) /\ retries[x] = 0
    /\ failed' = failed \cup InBatch(x)
    /\ SendReturns(x)
    /\ UNCHANGED <<succeeded, received>>

RunShard(x) ==
    \/ ReceiveSample(x)
    \/ Deadline(x)
    \/ QueueClosed(x)
    \/ StoreSucceeds(x)
    \/ \E arrived \in BOOLEAN : StoreRecoverable(x, arrived)
    \/ StoreRejected(x)
    \/ GiveUp(x)

UpdateShardsLoop ==
    \/ \E n \in 1..MaxShards : CalculateDesiredShards(n)
    \/ UpdateShardsLoopQuits

ReshardLoop == ReshardSwap \/ ReshardStop \/ ReshardStart \/ ReshardLoopQuits

\* The rest of ApplyConfig and Close.
StorageStep == StopShards \/ CloseReturns \/ StartManager \/ StartShards

Next ==
    /\ ~panicked
    /\ \/ \E s \in Series : AppendSample(s)
       \/ \E close \in BOOLEAN : BeginStop(close)
       \/ StorageStep
       \/ UpdateShardsLoop
       \/ ReshardLoop
       \/ \E x \in Shards : RunShard(x)

Spec == Init /\ [][Next]_vars

\* Goroutines that can run are run, timers go off and Store returns: it has a
\* timeout.  Nothing has to be appended, reloaded, resharded or closed.
Fairness ==
    /\ WF_vars(~panicked /\ StorageStep)
    /\ WF_vars(~panicked /\ UpdateShardsLoopQuits)
    /\ WF_vars(~panicked /\ ReshardLoop)
    /\ \A x \in Shards : WF_vars(~panicked /\ RunShard(x))

FairSpec == Spec /\ Fairness

----------------------------------------------------------------------------
Running(x) == pc[x] \in {"select", "send", "flush"}

\* reshard, ApplyConfig: "We start the newShards after we have stopped (the
\* therefore completely flushed) the oldShards": two generations never send
\* at the same time, and when one does nothing is left in those before it.
OneGenerationSends ==
    \A x, y \in Shards : Running(y) /\ x[1] < y[1] =>
        ~Running(x) /\ queue[x] = <<>> /\ pending[x] = <<>>

\* "... to guarantee we only every deliver samples in order": the samples of
\* a series arrive in the order in which they were appended, over reshards,
\* reloads, drops, retries and failures alike.  One that arrives after a newer
\* one is a repetition: it has also arrived before that one.
InOrder ==
    \A i, j \in 1..Len(received) :
        /\ i < j /\ received[i][1] = received[j][1]
        /\ received[j][2] < received[i][2]
        => \E h \in 1..i - 1 : received[h] = received[j]

Queued == UNION {Elements(queue[x]) \cup InBatch(x) : x \in Shards}

\* No sample is lost without being counted: every sample given to Append is
\* in a queue or in a batch, or one of the counters has it, and only one; what
\* is counted as succeeded has arrived.
Accounted ==
    /\ \A s \in Series : \A k \in 1..appended[s] :
           <<s, k>> \in Queued \cup dropped \cup succeeded \cup failed
    /\ Queued \cap (dropped \cup succeeded \cup failed) = {}
    /\ dropped \cap (succeeded \cup failed) = {} /\ succeeded \cap failed = {}
    /\ succeeded \subseteq Elements(received)

\* "Stop stops sending samples to the remote storage and waits for pending
\* sends to complete": then no goroutine of the managers is left, and no
\* sample without an outcome.
StopFlushes ==
    storage \in {"start", "closed"} /\ ~panicked =>
        Queued = {} /\ \A x \in Shards : ~Running(x)

\* No sample is sent on a closed channel and no channel is closed twice as
\* long as Close has not been called, whatever reshards and reloads do.
NoPanicWhileOpen == panicked => closing

\* Every sample that was put in a queue gets an outcome, unless the process
\* dies.
SamplesSettled ==
    \A x \in Samples : x \in Queued ~> (x \in succeeded \cup failed \/ panicked)

\* A reload or shutdown, once begun, ends.
StopEnds == storage # "open" ~> (storage \in {"open", "closed"} \/ panicked)

----------------------------------------------------------------------------
\* The numbers of the samples of series s in a set of samples.
Of(s, samples) == {x[2] : x \in {y \in samples : y[1] = s}}

BySeries(samples) == [s \in Series |-> Of(s, samples)]

Stream == INSTANCE SampleStream WITH
    inflight <- BySeries(Queued),
    lost <- BySeries(dropped \cup failed),
    delivered <- BySeries(succeeded),
    received <- BySeries(Elements(received))

\* Shards, reshards and reloads together implement one lossy stream per
\* series: queue_manager.go promises no more, and no less.
StreamSpec == Stream!Spec
=============================================================================
