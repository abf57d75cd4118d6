------------------------------ MODULE Notifier ------------------------------
(***************************************************************************)
(* The notification manager of Prometheus (busybox-prometheus/notifier):   *)
(* rule groups put alerts in a bounded queue (Send), one goroutine (Run)   *)
(* takes them out in batches and sends each batch to every Alertmanager    *)
(* it knows at the same time (sendAll), and waits for all of them.         *)
(*                                                                         *)
(* Run is woken up through the channel more, of capacity one.  Reloads of  *)
(* the configuration (ApplyConfig) forget the Alertmanagers until service  *)
(* discovery reports them again (tsets).                                   *)
(*                                                                         *)
(* Alerts are numbered in the order in which Send takes them, after        *)
(* relabelling; alerts that relabelling removes have no number.            *)
(***************************************************************************)
EXTENDS Naturals, Sequences, FiniteSets

CONSTANTS
    Alertmanagers,   \* endpoints that service discovery may report, each in
                     \* one AlertmanagerConfig: in two of them, it is two
    QueueCapacity,   \* Options.QueueCapacity
    MaxBatchSize,    \* maxBatchSize
    MaxBurst,        \* bound on the alerts of one call of Send
    MaxAlerts,       \* bound on the alerts
    MaxReloads       \* bound on the calls of ApplyConfig

ASSUME ConstantsAssumption ==
    /\ QueueCapacity \in Nat
    /\ MaxBatchSize \in Nat \ {0}
    /\ MaxBurst \in Nat /\ MaxAlerts \in Nat /\ MaxReloads \in Nat

VARIABLES
    queue,        \* n.queue
    more,         \* there is a signal in n.more
    stopped,      \* n.ctx is cancelled
    loop,         \* where Run is, "off" before it is called
    batch,        \* the alerts that Run has taken and not finished with
    ams,          \* the endpoints of the sets in n.alertmanagers
    outstanding,  \* endpoints that the goroutines of sendAll wait for
    numSuccess,   \* numSuccess of sendAll
    sent,         \* number of alerts given to Send
    dropped,      \* alerts counted by the metric dropped
    accepted,     \* alerts of the batches for which sendAll returned true
    got,          \* history: got[a]: the alerts that endpoint a received
    reloads

vars == <<queue, more, stopped, loop, batch, ams, outstanding, numSuccess,
          sent, dropped, accepted, got, reloads>>

Alerts == 1..MaxAlerts

TypeOK ==
    /\ queue \in Seq(Alerts) /\ Len(queue) <= QueueCapacity
    /\ batch \in Seq(Alerts) /\ Len(batch) <= MaxBatchSize
    /\ more \in BOOLEAN /\ stopped \in BOOLEAN
    /\ loop \in {"off", "select", "batch", "marshal", "send", "check", "returned"}
    /\ ams \subseteq Alertmanagers
    /\ outstanding \subseteq Alertmanagers
    /\ numSuccess \in Nat
    /\ sent \in 0..MaxAlerts
    /\ dropped \subseteq Alerts /\ accepted \subseteq Alerts
    /\ got \in [Alertmanagers -> Seq(Alerts)]
    /\ reloads \in 0..MaxReloads

Init ==
    /\ queue = <<>> /\ batch = <<>>
    /\ more = FALSE /\ stopped = FALSE
    /\ loop = "off"
    /\ ams = {} /\ outstanding = {}
    /\ numSuccess = 0
    /\ sent = 0 /\ dropped = {} /\ accepted = {}
    /\ got = [a \in Alertmanagers |-> <<>>]
    /\ reloads = 0

Elements(seq) == {seq[i] : i \in 1..Len(seq)}

\* A slice without its first n elements.
Without(seq, n) == SubSeq(seq, n + 1, Len(seq))

\* The larger of a difference and zero.
Excess(n, limit) == IF n > limit THEN n - limit ELSE 0

----------------------------------------------------------------------------
\* Mutants: each is a definition below with one plausible bug, and breaks one
\* of the properties at the end of the module.

\* Mutant: a full queue keeps its oldest alerts.
SendKeepsOldest(n) ==
    LET room == Excess(QueueCapacity, Len(queue))
        kept == IF n < room THEN n ELSE room
    IN  /\ sent + n <= MaxAlerts
        /\ sent' = sent + n
        /\ queue' = queue \o [i \in 1..kept |-> sent + i]
        /\ dropped' = dropped \cup (sent + kept + 1..sent + n)
        /\ more' = TRUE
        /\ UNCHANGED <<stopped, loop, batch, ams, outstanding, numSuccess,
                       accepted, got, reloads>>

\* Mutant: the alerts that a full queue loses are not counted.
SendCountsNothing(n) ==
    LET all == queue \o [i \in 1..n |-> sent + i]
    IN  /\ sent + n <= MaxAlerts
        /\ sent' = sent + n
        /\ queue' = Without(all, Excess(Len(all), QueueCapacity))
        /\ more' = TRUE
        /\ UNCHANGED <<stopped, loop, batch, ams, outstanding, numSuccess,
                       dropped, accepted, got, reloads>>

\* Mutant: sendAll waits until one endpoint has the batch.
SendAllWaits ==
    /\ loop = "send"
    /\ outstanding = {} /\ numSuccess > 0
    /\ accepted' = accepted \cup Elements(batch)
    /\ batch' = <<>>
    /\ loop' = "check"
    /\ UNCHANGED <<queue, more, stopped, ams, outstanding, numSuccess, sent,
                   dropped, got, reloads>>

\* Mutant: the next iteration is not kicked off.
CheckNothing ==
    /\ loop = "check"
    /\ loop' = "select"
    /\ UNCHANGED <<queue, more, stopped, batch, ams, outstanding, numSuccess,
                   sent, dropped, accepted, got, reloads>>

\* Mutant: a batch that no endpoint took is put back in front of the queue.
SendAllRequeues ==
    /\ loop = "send"
    /\ outstanding = {}
    /\ IF numSuccess > 0
       THEN accepted' = accepted \cup Elements(batch) /\ UNCHANGED queue
       ELSE queue' = batch \o queue /\ UNCHANGED accepted
    /\ batch' = <<>>
    /\ loop' = "check"
    /\ UNCHANGED <<more, stopped, ams, outstanding, numSuccess, sent, dropped,
                   got, reloads>>

----------------------------------------------------------------------------
\* Send puts alerts in the queue, under mtx, and signals.  Of a burst larger
\* than the queue, and of a queue that gets too long, the oldest are dropped.
Send(n) ==
    LET tooMany == Excess(n, QueueCapacity)
        alerts == [i \in 1..n - tooMany |-> sent + tooMany + i]
        over == Excess(Len(queue) + Len(alerts), QueueCapacity)
    IN  /\ sent + n <= MaxAlerts
        /\ sent' = sent + n
        /\ queue' = Without(queue, over) \o alerts
        /\ dropped' = dropped \cup (sent + 1..sent + tooMany)
                              \cup Elements(SubSeq(queue, 1, over))
        /\ more' = TRUE
        /\ UNCHANGED <<stopped, loop, batch, ams, outstanding, numSuccess,
                       accepted, got, reloads>>

\* ApplyConfig makes new sets of Alertmanagers, with no endpoints yet.
ApplyConfig ==
    /\ reloads < MaxReloads
    /\ reloads' = reloads + 1
    /\ ams' = {}
    /\ UNCHANGED <<queue, more, stopped, loop, batch, outstanding, numSuccess,
                   sent, dropped, accepted, got>>

\* Stop cancels the context.
Stop ==
    /\ ~stopped
    /\ stopped' = TRUE
    /\ UNCHANGED <<queue, more, loop, batch, ams, outstanding, numSuccess,
                   sent, dropped, accepted, got, reloads>>

----------------------------------------------------------------------------
\* Run.  It is called when the first configuration has been loaded.
RunCalled ==
    /\ loop = "off"
    /\ loop' = "select"
    /\ UNCHANGED <<queue, more, stopped, batch, ams, outstanding, numSuccess,
                   sent, dropped, accepted, got, reloads>>

RunReturns ==
    /\ loop = "select" /\ stopped
    /\ loop' = "returned"
    /\ UNCHANGED <<queue, more, stopped, batch, ams, outstanding, numSuccess,
                   sent, dropped, accepted, got, reloads>>

\* reload: service discovery has reported the endpoints S.
Reload(S) ==
    /\ loop = "select"
    /\ loop' = "batch"
    /\ ams' = S
    /\ UNCHANGED <<queue, more, stopped, batch, outstanding, numSuccess, sent,
                   dropped, accepted, got, reloads>>

ReceiveMore ==
    /\ loop = "select" /\ more
    /\ loop' = "batch"
    /\ more' = FALSE
    /\ UNCHANGED <<queue, stopped, batch, ams, outstanding, numSuccess, sent,
                   dropped, accepted, got, reloads>>

NextBatch ==
    LET n == IF Len(queue) > MaxBatchSize THEN MaxBatchSize ELSE Len(queue)
    IN  /\ loop = "batch"
        /\ batch' = SubSeq(queue, 1, n)
        /\ queue' = Without(queue, n)
        /\ loop' = "marshal"
        /\ UNCHANGED <<more, stopped, ams, outstanding, numSuccess, sent,
                       dropped, accepted, got, reloads>>

\* sendAll: a goroutine for every endpoint known now, whatever is applied or
\* stopped from here on.
SendAll ==
    /\ loop = "marshal"
    /\ outstanding' = ams
    /\ numSuccess' = 0
    /\ loop' = "send"
    /\ UNCHANGED <<queue, more, stopped, batch, ams, sent, dropped, accepted,
                   got, reloads>>

\* sendOne to endpoint a: it may have the alerts although the answer is an
\* error or a timeout.
SendOne(a, arrived, ok) ==
    /\ a \in outstanding
    /\ ok => arrived
    /\ outstanding' = outstanding \ {a}
    /\ numSuccess' = IF ok THEN numSuccess + 1 ELSE numSuccess
    /\ got' = IF arrived THEN [got EXCEPT ![a] = @ \o batch] ELSE got
    /\ UNCHANGED <<queue, more, stopped, loop, batch, ams, sent, dropped,
                   accepted, reloads>>

\* sendAll returns true if one endpoint took the batch; if none did, or there
\* is none, the alerts are counted as dropped.
SendAllReturns ==
    /\ loop = "send"
    /\ outstanding = {}
    /\ IF numSuccess > 0
       THEN accepted' = accepted \cup Elements(batch) /\ UNCHANGED dropped
       ELSE dropped' = dropped \cup Elements(batch) /\ UNCHANGED accepted
    /\ batch' = <<>>
    /\ loop' = "check"
    /\ UNCHANGED <<queue, more, stopped, ams, outstanding, numSuccess, sent,
                   got, reloads>>

\* setMore, if the queue still has items.
CheckQueue ==
    /\ loop = "check"
    /\ more' = (more \/ queue # <<>>)
    /\ loop' = "select"
    /\ UNCHANGED <<queue, stopped, batch, ams, outstanding, numSuccess, sent,
                   dropped, accepted, got, reloads>>

RunStep ==
    \/ RunCalled
    \/ ReceiveMore
    \/ NextBatch
    \/ SendAll
    \/ SendAllReturns
    \/ CheckQueue

SendOneEnds == \E a \in Alertmanagers, arrived, ok \in BOOLEAN :
                   SendOne(a, arrived, ok)

Next ==
    \/ \E n \in 0..MaxBurst : Send(n)
    \/ ApplyConfig
    \/ Stop
    \/ \E S \in SUBSET Alertmanagers : Reload(S)
    \/ RunReturns
    \/ RunStep
    \/ SendOneEnds

Spec == Init /\ [][Next]_vars

\* Run is called and does not hang, and requests end: they have a timeout.
\* select takes a case that stays ready with some probability, each time.
Fairness == WF_vars(RunStep) /\ WF_vars(SendOneEnds) /\ SF_vars(RunReturns)

FairSpec == Spec /\ Fairness

----------------------------------------------------------------------------
\* "If we cannot send on the channel, it means the signal already exists and
\* has not been consumed yet": whenever Run waits (or is not called yet) and
\* there are alerts, there is a signal.
NoLostWakeup == queue # <<>> /\ loop \in {"off", "select"} => more

\* "remove the oldest alerts in favor of newer ones": the queue is always the
\* most recent alerts, in order and without a gap, and those of the batch are
\* all older.
NewestKept ==
    /\ \A i \in 1..Len(queue) : queue[i] = sent - Len(queue) + i
    /\ \A i \in 1..Len(batch) : batch[i] <= sent - Len(queue)

\* Every alert given to Send is waiting, being sent, accepted by some endpoint
\* or counted as dropped, and only one of these.
EveryAlertCounted ==
    /\ 1..sent = Elements(queue) \cup Elements(batch) \cup dropped \cup accepted
    /\ Elements(queue) \cap Elements(batch) = {}
    /\ (Elements(queue) \cup Elements(batch)) \cap (dropped \cup accepted) = {}
    /\ dropped \cap accepted = {}

\* Through one AlertmanagerConfig no endpoint gets an alert after a newer one,
\* nor twice: firing and resolved alerts of a rule do not overtake each other.
InOrderDelivery ==
    \A a \in Alertmanagers : \A i, j \in 1..Len(got[a]) :
        i < j => got[a][i] < got[a][j]

\* The alerts in the queue are taken out of it, however many more come, unless
\* the manager is stopped.
AlertsTaken ==
    \A k \in Alerts : k \in Elements(queue) ~> (k \notin Elements(queue) \/ stopped)

\* "Stop shuts down the notification handler": Run returns.
StopEndsRun == stopped ~> loop = "returned"
=============================================================================
