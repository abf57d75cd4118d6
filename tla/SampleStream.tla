---------------------------- MODULE SampleStream ----------------------------
(***************************************************************************)
(* What remote write promises to its users (storage/remote of              *)
(* busybox-prometheus): the samples of a series form one first-in          *)
(* first-out stream that may lose samples and may repeat the ones it is    *)
(* sending, but never lets one overtake another.  There are no shards, no  *)
(* generations and no managers here; RemoteWrite implements it.            *)
(***************************************************************************)
EXTENDS Naturals

CONSTANT Series

\* The samples of a series are numbered in the order they are appended.
VARIABLES
    appended,    \* appended[s]: number of samples of s so far
    inflight,    \* inflight[s]: samples of s accepted and not settled
    lost,        \* lost[s]: samples of s dropped or given up
    delivered,   \* delivered[s]: samples of s known to have arrived
    received     \* received[s]: samples of s that have arrived

vars == <<appended, inflight, lost, delivered, received>>

Init ==
    /\ appended = [s \in Series |-> 0]
    /\ inflight = [s \in Series |-> {}]
    /\ lost = [s \in Series |-> {}]
    /\ delivered = [s \in Series |-> {}]
    /\ received = [s \in Series |-> {}]

\* The samples that may be sent together: of each series some of those in
\* flight, and none without the ones before it.
Batches ==
    {b \in [Series -> SUBSET UNION {inflight[s] : s \in Series}] :
        \A s \in Series :
            /\ b[s] \subseteq inflight[s]
            /\ \A j \in b[s], k \in inflight[s] \ b[s] : j < k}

With(sets, b) == [s \in Series |-> sets[s] \cup b[s]]

Accept(s) ==
    /\ appended' = [appended EXCEPT ![s] = @ + 1]
    /\ inflight' = [inflight EXCEPT ![s] = @ \cup {appended[s] + 1}]
    /\ UNCHANGED <<lost, delivered, received>>

Drop(s) ==
    /\ appended' = [appended EXCEPT ![s] = @ + 1]
    /\ lost' = [lost EXCEPT ![s] = @ \cup {appended[s] + 1}]
    /\ UNCHANGED <<inflight, delivered, received>>

\* An attempt whose result is not known.
Arrive(b) ==
    /\ received' = With(received, b)
    /\ UNCHANGED <<appended, inflight, lost, delivered>>

\* The samples in b are delivered, or given up.
Settle(b, ok) ==
    /\ inflight' = [s \in Series |-> inflight[s] \ b[s]]
    /\ IF ok
       THEN /\ received' = With(received, b)
            /\ delivered' = With(delivered, b)
            /\ UNCHANGED lost
       ELSE /\ lost' = With(lost, b)
            /\ UNCHANGED <<received, delivered>>
    /\ UNCHANGED appended

Next ==
    \/ \E s \in Series : Accept(s) \/ Drop(s)
    \/ \E b \in Batches : Arrive(b) \/ \E ok \in BOOLEAN : Settle(b, ok)

Spec == Init /\ [][Next]_vars
=============================================================================
