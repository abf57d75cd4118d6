--------------------------- MODULE NotifierProofs ---------------------------
(***************************************************************************)
(* Proofs about the alert queue of the notification manager, for queues,   *)
(* batches and bursts of any size and any number of Alertmanagers.         *)
(*                                                                         *)
(* The numbers of the alerts in the queue are the last ones given out      *)
(* (QueueNewest); those of the batch come before them, in order            *)
(* (BatchBefore); and those an endpoint has got come before both           *)
(* (GotBefore).  The rest follows from where Run is (BatchHeld).           *)
(***************************************************************************)
EXTENDS Notifier, Integers, TLAPS

QueueNewest ==
    /\ Len(queue) <= sent
    /\ \A i \in 1..Len(queue) : queue[i] = sent - Len(queue) + i

BatchBefore ==
    /\ \A i \in 1..Len(batch) : batch[i] <= sent - Len(queue)
    /\ \A i, j \in 1..Len(batch) : i < j => batch[i] < batch[j]

\* Run has a batch only until sendAll returns, and sendAll its goroutines.
BatchHeld ==
    /\ loop \in {"off", "select", "batch", "check", "returned"} => batch = <<>>
    /\ loop # "send" => outstanding = {}

GotBefore ==
    \A a \in Alertmanagers : \A i \in 1..Len(got[a]) :
        /\ got[a][i] <= sent - Len(queue)
        /\ loop = "marshal" \/ a \in outstanding =>
               \A j \in 1..Len(batch) : got[a][i] < batch[j]

IInv ==
    /\ TypeOK
    /\ NoLostWakeup
    /\ QueueNewest
    /\ BatchBefore
    /\ BatchHeld
    /\ GotBefore
    /\ InOrderDelivery
    /\ EveryAlertCounted

----------------------------------------------------------------------------
\* What is left of a slice without its first n elements.
LEMMA WithoutFacts ==
    ASSUME NEW S, NEW seq \in Seq(S), NEW n \in 0..Len(seq)
    PROVE  /\ Without(seq, n) \in Seq(S)
           /\ Len(Without(seq, n)) = Len(seq) - n
           /\ \A i \in 1..Len(seq) - n : Without(seq, n)[i] = seq[n + i]
  BY DEF Without

\* The first n elements of a slice.
LEMMA PrefixFacts ==
    ASSUME NEW S, NEW seq \in Seq(S), NEW n \in 0..Len(seq)
    PROVE  /\ SubSeq(seq, 1, n) \in Seq(S)
           /\ Len(SubSeq(seq, 1, n)) = n
           /\ \A i \in 1..n : SubSeq(seq, 1, n)[i] = seq[i]
  OBVIOUS

\* One slice appended to another.
LEMMA AppendedFacts ==
    ASSUME NEW S, NEW s \in Seq(S), NEW t \in Seq(S)
    PROVE  /\ s \o t \in Seq(S)
           /\ Len(s \o t) = Len(s) + Len(t)
           /\ \A i \in 1..Len(s) : (s \o t)[i] = s[i]
           /\ \A i \in 1..Len(t) : (s \o t)[Len(s) + i] = t[i]
  OBVIOUS

\* A sequence of consecutive alerts.
LEMMA ConsecutiveFacts ==
    ASSUME NEW m \in Nat, NEW k \in Nat, m + k <= MaxAlerts
    PROVE  LET seq == [i \in 1..m |-> k + i]
           IN  /\ seq \in Seq(Alerts)
               /\ Len(seq) = m
               /\ \A i \in 1..m : seq[i] = k + i
  BY ConstantsAssumption DEF Alerts

\* Consecutive numbers are an interval.
LEMMA IntervalElements ==
    ASSUME NEW S, NEW seq \in Seq(S), NEW n \in Int,
           \A i \in 1..Len(seq) : seq[i] = n + i
    PROVE  Elements(seq) = n + 1..n + Len(seq)
  <1>1. Len(seq) \in Nat OBVIOUS
  <1>2. ASSUME NEW k \in n + 1..n + Len(seq) PROVE k \in Elements(seq)
    <2>1. PICK i \in 1..Len(seq) : k = n + i
      <3>1. k - n \in 1..Len(seq) /\ k = n + (k - n)
        BY <1>1, <1>2
      <3> QED BY <3>1
    <2> QED BY <2>1 DEF Elements
  <1>3. ASSUME NEW k \in Elements(seq) PROVE k \in n + 1..n + Len(seq)
    BY <1>1, <1>3 DEF Elements
  <1> QED BY <1>2, <1>3

\* Alerts are numbers.
LEMMA AlertsAreNumbers ==
    ASSUME TypeOK
    PROVE  /\ \A i \in 1..Len(queue) : queue[i] \in Int
           /\ \A i \in 1..Len(batch) : batch[i] \in Int
           /\ \A a \in Alertmanagers : \A i \in 1..Len(got[a]) : got[a][i] \in Int
  <1>1. ASSUME NEW seq \in Seq(Alerts), NEW i \in 1..Len(seq) PROVE seq[i] \in Int
    <2>1. seq[i] \in Alerts OBVIOUS
    <2> QED BY <2>1 DEF Alerts
  <1> QED BY <1>1 DEF TypeOK

----------------------------------------------------------------------------
\* Send keeps the newest alerts, in order, and counts those it drops.
LEMMA SendStep == ASSUME IInv, NEW n \in 0..MaxBurst, Send(n) PROVE IInv'
  <1>p. PICK tooMany, alerts, over, rest :
            /\ tooMany = Excess(n, QueueCapacity)
            /\ alerts = [i \in 1..n - tooMany |-> sent + tooMany + i]
            /\ over = Excess(Len(queue) + Len(alerts), QueueCapacity)
            /\ rest = Without(queue, over)
    OBVIOUS
  <1>t. TypeOK /\ QueueNewest /\ EveryAlertCounted BY DEF IInv
  <1>1. /\ sent + n <= MaxAlerts /\ sent' = sent + n
        /\ queue' = rest \o alerts
        /\ dropped' = dropped \cup (sent + 1..sent + tooMany) \cup Elements(SubSeq(queue, 1, over))
        /\ more' = TRUE
        /\ UNCHANGED <<stopped, loop, batch, ams, outstanding, numSuccess, accepted, got,
                       reloads>>
    BY <1>p DEF Send
  <1>2. /\ n \in Nat /\ sent \in Nat /\ Len(queue) \in Nat /\ QueueCapacity \in Nat
        /\ MaxAlerts \in Nat /\ queue \in Seq(Alerts) /\ Len(queue) <= QueueCapacity
    BY <1>t, ConstantsAssumption DEF TypeOK
  <1>3. /\ tooMany \in Nat /\ tooMany <= n /\ n - tooMany <= QueueCapacity
        /\ tooMany > 0 => n - tooMany = QueueCapacity
    BY <1>2, <1>p DEF Excess
  <1>4. /\ alerts \in Seq(Alerts) /\ Len(alerts) = n - tooMany
        /\ \A i \in 1..n - tooMany : alerts[i] = sent + tooMany + i
    <2>1. n - tooMany \in Nat /\ sent + tooMany \in Nat
          /\ (n - tooMany) + (sent + tooMany) <= MaxAlerts
      BY <1>1, <1>2, <1>3
    <2> QED BY <2>1, <1>p, ConsecutiveFacts
  <1>5. /\ over \in 0..Len(queue)
        /\ Len(queue) - over + Len(alerts) <= QueueCapacity
        /\ tooMany > 0 => over = Len(queue)
    <2>1. Len(alerts) \in 0..QueueCapacity /\ (tooMany > 0 => Len(alerts) = QueueCapacity)
      BY <1>2, <1>3, <1>4
    <2>2. over = IF Len(queue) + Len(alerts) > QueueCapacity
                 THEN Len(queue) + Len(alerts) - QueueCapacity ELSE 0
      <3>1. over = Excess(Len(queue) + Len(alerts), QueueCapacity)
        BY <1>p
      <3> QED BY <1>2, <2>1, <3>1 DEF Excess
    <2> QED BY <1>2, <2>1, <2>2
  <1>6. /\ rest \in Seq(Alerts) /\ Len(rest) = Len(queue) - over
        /\ \A i \in 1..Len(queue) - over : rest[i] = queue[over + i]
    <2>1. rest = Without(queue, over)
      BY <1>p
    <2> QED BY <1>2, <1>5, <2>1, WithoutFacts
  <1>7. /\ queue' \in Seq(Alerts) /\ Len(queue') = Len(rest) + Len(alerts)
        /\ \A i \in 1..Len(rest) : queue'[i] = rest[i]
        /\ \A i \in 1..Len(alerts) : queue'[Len(rest) + i] = alerts[i]
    <2>1. /\ rest \o alerts \in Seq(Alerts) /\ Len(rest \o alerts) = Len(rest) + Len(alerts)
          /\ \A i \in 1..Len(rest) : (rest \o alerts)[i] = rest[i]
          /\ \A i \in 1..Len(alerts) : (rest \o alerts)[Len(rest) + i] = alerts[i]
      <3>1. rest \in Seq(Alerts) /\ alerts \in Seq(Alerts)
        BY <1>4, <1>6
      <3> QED BY <3>1, AppendedFacts
    <2> QED BY <1>1, <2>1
  <1>8. QueueNewest'
    <2>1. Len(queue') <= sent'
      BY <1>1, <1>2, <1>3, <1>4, <1>5, <1>6, <1>7, <1>t DEF QueueNewest
    <2>2. ASSUME NEW i \in 1..Len(queue') PROVE queue'[i] = sent' - Len(queue') + i
      <3>1. CASE i \in 1..Len(rest)
        <4>1. queue'[i] = queue[over + i] /\ over + i \in 1..Len(queue)
          BY <1>2, <1>5, <1>6, <1>7, <3>1
        <4>2. queue[over + i] = sent - Len(queue) + (over + i)
          BY <1>t, <4>1 DEF QueueNewest
        <4>3. tooMany = 0
          BY <1>3, <1>5, <1>6, <3>1
        <4> QED BY <1>1, <1>2, <1>4, <1>5, <1>6, <1>7, <4>1, <4>2, <4>3
      <3>2. CASE i - Len(rest) \in 1..Len(alerts)
        <4>1. queue'[i] = sent + tooMany + (i - Len(rest))
          BY SMTT(30), <1>4, <1>6, <1>7, <3>2, <1>2, <1>5
        <4> QED BY <1>1, <1>2, <1>3, <1>4, <1>5, <1>6, <1>7, <4>1
      <3> QED BY <1>2, <1>3, <1>4, <1>5, <1>6, <1>7, <3>1, <3>2
    <2> QED BY <2>1, <2>2 DEF QueueNewest
  <1>9. Elements(SubSeq(queue, 1, over)) = sent - Len(queue) + 1..sent - Len(queue) + over
    <2>1. /\ Len(SubSeq(queue, 1, over)) = over
          /\ \A i \in 1..over : SubSeq(queue, 1, over)[i] = sent - Len(queue) + i
      BY <1>2, <1>5, <1>t, PrefixFacts DEF QueueNewest
    <2>2. SubSeq(queue, 1, over) \in Seq(Alerts) /\ sent - Len(queue) \in Int
      BY <1>2, <1>5, PrefixFacts
    <2> QED BY <2>1, <2>2, IntervalElements
  <1>10. TypeOK'
    <2>1. dropped' \subseteq Alerts
      <3>1. sent + 1..sent + tooMany \subseteq Alerts
        BY <1>1, <1>2, <1>3 DEF Alerts
      <3>2. sent - Len(queue) + 1..sent - Len(queue) + over \subseteq Alerts
        BY <1>1, <1>2, <1>5, <1>t DEF Alerts, QueueNewest
      <3> QED BY <1>1, <1>9, <1>t, <3>1, <3>2 DEF TypeOK
    <2>2. Len(queue') <= QueueCapacity /\ sent' \in 0..MaxAlerts
      BY <1>1, <1>2, <1>4, <1>5, <1>6, <1>7
    <2> QED BY <1>1, <1>7, <1>t, <2>1, <2>2 DEF TypeOK
  <1>11. sent' - Len(queue') >= sent - Len(queue) /\ sent' - Len(queue') \in Nat
    BY <1>1, <1>2, <1>3, <1>4, <1>5, <1>6, <1>7, <1>8 DEF QueueNewest
  <1>12. BatchBefore' /\ BatchHeld'
    <2>1. \A i \in 1..Len(batch) : batch[i] \in Int
      BY <1>t, AlertsAreNumbers
    <2> QED BY <1>1, <1>2, <1>11, <2>1 DEF IInv, BatchBefore, BatchHeld
  <1>13. GotBefore'
    <2>1. \A a \in Alertmanagers : \A i \in 1..Len(got[a]) : got[a][i] \in Int
      BY <1>t, AlertsAreNumbers
    <2> QED BY SMTT(30), <1>1, <1>2, <1>11, <2>1 DEF IInv, GotBefore
  <1>14. EveryAlertCounted'
    <2>1. Elements(queue) = sent - Len(queue) + 1..sent
      <3>1. sent - Len(queue) \in Int /\ (sent - Len(queue)) + Len(queue) = sent
        BY <1>2
      <3>2. Elements(queue) = (sent - Len(queue)) + 1..(sent - Len(queue)) + Len(queue)
        BY <1>2, <1>t, <3>1, IntervalElements DEF QueueNewest
      <3> QED BY <3>1, <3>2
    <2>2. Elements(queue') = sent' - Len(queue') + 1..sent'
      <3>1. sent' - Len(queue') \in Int /\ (sent' - Len(queue')) + Len(queue') = sent'
        BY <1>1, <1>2, <1>7, <1>11
      <3>2. Elements(queue') = (sent' - Len(queue')) + 1..(sent' - Len(queue')) + Len(queue')
        BY <1>7, <1>8, <3>1, IntervalElements DEF QueueNewest
      <3> QED BY <3>1, <3>2
    <2>3. Elements(batch') = Elements(batch)
      BY <1>1
    <2> DEFINE gone == (sent + 1..sent + tooMany) \cup (sent - Len(queue) + 1..sent - Len(queue) + over)
    <2>4. dropped' = dropped \cup gone /\ accepted' = accepted
      BY <1>1, <1>9
    <2>5. /\ gone \cap Elements(queue') = {}
          /\ gone \cup Elements(queue') = Elements(queue) \cup (sent + 1..sent + n)
      <3>1. Len(queue') = Len(queue) - over + n - tooMany /\ Len(queue') \in Nat
        BY <1>2, <1>3, <1>4, <1>5, <1>6, <1>7
      <3>2. Elements(queue') = sent + tooMany - (Len(queue) - over) + 1..sent + n
        BY <1>1, <1>2, <1>3, <1>5, <2>2, <3>1
      <3>3. CASE tooMany = 0
        BY <1>2, <1>5, <2>1, <3>2, <3>3
      <3>4. CASE over = Len(queue)
        BY <1>2, <1>3, <2>1, <3>2, <3>4
      <3> QED BY <1>3, <1>5, <3>3, <3>4
    <2>6. /\ 1..sent = Elements(queue) \cup Elements(batch) \cup dropped \cup accepted
          /\ 1..sent' = (1..sent) \cup (sent + 1..sent + n)
          /\ (1..sent) \cap (sent + 1..sent + n) = {}
      BY <1>1, <1>2, <1>t DEF EveryAlertCounted
    <2> HIDE DEF gone
    <2> QED BY <1>t, <2>3, <2>4, <2>5, <2>6 DEF EveryAlertCounted
  <1> QED BY <1>1, <1>8, <1>10, <1>12, <1>13, <1>14 DEF IInv, NoLostWakeup, InOrderDelivery

\* nextBatch moves the oldest alerts of the queue to the batch.
LEMMA NextBatchStep == ASSUME IInv, NextBatch PROVE IInv'
  <1>t. TypeOK /\ QueueNewest /\ BatchHeld /\ EveryAlertCounted BY DEF IInv
  <1>2. /\ queue \in Seq(Alerts) /\ Len(queue) \in Nat /\ sent \in Nat
        /\ MaxBatchSize \in Nat /\ Len(queue) <= sent /\ sent <= MaxAlerts
    BY <1>t, ConstantsAssumption DEF TypeOK, QueueNewest
  <1>1. PICK n \in 0..Len(queue) :
            /\ n <= MaxBatchSize
            /\ batch' = SubSeq(queue, 1, n) /\ queue' = Without(queue, n)
    BY <1>2 DEF NextBatch
  <1>u. /\ loop = "batch" /\ loop' = "marshal" /\ batch = <<>> /\ outstanding = {}
        /\ UNCHANGED <<more, stopped, ams, outstanding, numSuccess, sent, dropped, accepted,
                       got, reloads>>
    BY <1>t DEF NextBatch, BatchHeld
  <1>3. /\ queue' \in Seq(Alerts) /\ Len(queue') = Len(queue) - n
        /\ \A i \in 1..Len(queue) - n : queue'[i] = queue[n + i]
    BY <1>1, <1>2, WithoutFacts
  <1>4. /\ batch' \in Seq(Alerts) /\ Len(batch') = n
        /\ \A i \in 1..n : batch'[i] = queue[i]
    BY <1>1, <1>2, PrefixFacts
  <1>5. \A i \in 1..Len(queue) : queue[i] = sent - Len(queue) + i
    BY <1>t DEF QueueNewest
  <1>6. /\ \A i \in 1..Len(queue') : queue'[i] = (sent - Len(queue')) + i
        /\ \A i \in 1..Len(batch') : batch'[i] = (sent - Len(queue)) + i
    BY SMTT(30), <1>2, <1>3, <1>4, <1>5
  <1>7. TypeOK'
    <2>1. Len(queue') <= QueueCapacity /\ Len(batch') <= MaxBatchSize
      BY <1>1, <1>2, <1>3, <1>4, <1>t, ConstantsAssumption DEF TypeOK
    <2> QED BY <1>3, <1>4, <1>u, <1>t, <2>1 DEF TypeOK
  <1>8. QueueNewest' /\ BatchBefore' /\ BatchHeld'
    BY <1>2, <1>3, <1>4, <1>6, <1>u DEF QueueNewest, BatchBefore, BatchHeld
  <1>9. GotBefore'
    <2>1. ASSUME NEW a \in Alertmanagers, NEW i \in 1..Len(got[a])
          PROVE  got[a][i] \in Int /\ got[a][i] <= sent - Len(queue)
      BY <1>t, <2>1, AlertsAreNumbers DEF IInv, GotBefore
    <2> QED BY <1>2, <1>3, <1>4, <1>6, <1>u, <2>1 DEF GotBefore
  <1>10. EveryAlertCounted'
    <2>1. sent - Len(queue) \in Int /\ sent - Len(queue') \in Int
      BY <1>2, <1>3
    <2>2. /\ Elements(queue) = (sent - Len(queue)) + 1..(sent - Len(queue)) + Len(queue)
          /\ Elements(queue') = (sent - Len(queue')) + 1..(sent - Len(queue')) + Len(queue')
          /\ Elements(batch') = (sent - Len(queue)) + 1..(sent - Len(queue)) + Len(batch')
      BY <1>2, <1>3, <1>4, <1>5, <1>6, <2>1, IntervalElements
    <2>3. /\ Elements(queue) = Elements(queue') \cup Elements(batch')
          /\ Elements(queue') \cap Elements(batch') = {}
      BY <1>2, <1>3, <1>4, <2>2
    <2>4. Elements(batch) = {}
      BY <1>u DEF Elements
    <2> QED BY <1>t, <1>u, <2>3, <2>4 DEF EveryAlertCounted
  <1> QED BY <1>7, <1>8, <1>9, <1>10, <1>u DEF IInv, NoLostWakeup, InOrderDelivery

\* An endpoint gets the batch after older alerts only.
LEMMA SendOneStep ==
    ASSUME IInv, NEW a \in Alertmanagers, NEW arrived \in BOOLEAN, NEW ok \in BOOLEAN,
           SendOne(a, arrived, ok)
    PROVE  IInv'
  <1>t. TypeOK /\ BatchBefore /\ GotBefore /\ InOrderDelivery BY DEF IInv
  <1>u. /\ a \in outstanding /\ outstanding' = outstanding \ {a}
        /\ UNCHANGED <<queue, more, stopped, loop, batch, ams, sent, dropped, accepted, reloads>>
        /\ loop = "send"
    BY DEF SendOne, IInv, BatchHeld
  <1>1. /\ batch \in Seq(Alerts) /\ got[a] \in Seq(Alerts)
        /\ Len(batch) \in Nat /\ Len(got[a]) \in Nat
    BY <1>t DEF TypeOK
  <1>2. /\ got[a] \o batch \in Seq(Alerts) /\ Len(got[a] \o batch) = Len(got[a]) + Len(batch)
        /\ \A i \in 1..Len(got[a]) : (got[a] \o batch)[i] = got[a][i]
        /\ \A i \in 1..Len(batch) : (got[a] \o batch)[Len(got[a]) + i] = batch[i]
    BY <1>1, AppendedFacts
  <1>3. /\ \A b \in Alertmanagers \ {a} : got'[b] = got[b]
        /\ got'[a] = got[a] \o batch \/ got'[a] = got[a]
    BY <1>t DEF SendOne, TypeOK
  <1>4. TypeOK'
    <2>1. numSuccess' \in Nat
      BY <1>t DEF SendOne, TypeOK
    <2>2. got' \in [Alertmanagers -> Seq(Alerts)]
      BY <1>t, <1>2 DEF SendOne, TypeOK
    <2> QED BY <1>t, <1>u, <2>1, <2>2 DEF TypeOK
  <1>5. ASSUME NEW i \in 1..Len(got'[a])
        PROVE  /\ got'[a][i] <= sent - Len(queue)
               /\ \A j \in 1..Len(got'[a]) : i < j => got'[a][i] < got'[a][j]
    <2>1. CASE got'[a] = got[a]
      BY <1>t, <1>5, <2>1 DEF GotBefore, InOrderDelivery
    <2>2. CASE got'[a] = got[a] \o batch
      <3>1. ASSUME NEW k \in 1..Len(got'[a])
            PROVE  \/ k \in 1..Len(got[a]) /\ got'[a][k] = got[a][k]
                   \/ k - Len(got[a]) \in 1..Len(batch) /\ got'[a][k] = batch[k - Len(got[a])]
        <4>1. CASE k \in 1..Len(got[a])
          BY <1>2, <2>2, <4>1
        <4>2. CASE k \notin 1..Len(got[a])
          <5>1. k - Len(got[a]) \in 1..Len(batch) /\ Len(got[a]) + (k - Len(got[a])) = k
            <6>1. Len(got'[a]) = Len(got[a]) + Len(batch)
              BY <1>2, <2>2
            <6> QED BY <1>1, <6>1, <4>2
          <5> QED BY <1>2, <2>2, <5>1
        <4> QED BY <4>1, <4>2
      <3>2. got'[a][i] <= sent - Len(queue)
        BY <1>5, <1>t, <3>1 DEF GotBefore, BatchBefore
      <3>3. ASSUME NEW j \in 1..Len(got'[a]), i < j PROVE got'[a][i] < got'[a][j]
        <4>1. CASE j \in 1..Len(got[a]) /\ got'[a][j] = got[a][j]
          <5>1. i \in 1..Len(got[a]) /\ got'[a][i] = got[a][i]
            BY <1>1, <1>2, <1>5, <2>2, <3>3, <4>1
          <5> QED BY <1>t, <3>3, <4>1, <5>1 DEF InOrderDelivery
        <4>2. CASE j - Len(got[a]) \in 1..Len(batch) /\ got'[a][j] = batch[j - Len(got[a])]
          <5>1. CASE i \in 1..Len(got[a]) /\ got'[a][i] = got[a][i]
            BY <1>t, <1>u, <4>2, <5>1 DEF GotBefore
          <5>2. CASE i - Len(got[a]) \in 1..Len(batch) /\ got'[a][i] = batch[i - Len(got[a])]
            <6>1. i - Len(got[a]) < j - Len(got[a])
              BY <1>1, <3>3
            <6> QED BY <1>t, <4>2, <5>2, <6>1 DEF BatchBefore
          <5> QED BY <1>5, <3>1, <5>1, <5>2
        <4> QED BY <3>1, <3>3, <4>1, <4>2
      <3> QED BY <3>2, <3>3
    <2> QED BY <1>3, <2>1, <2>2
  <1>6. GotBefore'
    BY <1>3, <1>5, <1>t, <1>u DEF GotBefore
  <1>7. InOrderDelivery'
    BY <1>3, <1>5, <1>t DEF InOrderDelivery
  <1>8. /\ NoLostWakeup' /\ QueueNewest' /\ BatchBefore' /\ BatchHeld' /\ EveryAlertCounted'
    <2>1. NoLostWakeup' /\ QueueNewest' /\ BatchBefore'
      BY <1>u DEF IInv, NoLostWakeup, QueueNewest, BatchBefore
    <2>2. BatchHeld'
      BY <1>u DEF BatchHeld
    <2>3. EveryAlertCounted'
      BY <1>u DEF IInv, EveryAlertCounted
    <2> QED BY <2>1, <2>2, <2>3
  <1> QED BY <1>4, <1>6, <1>7, <1>8 DEF IInv

\* sendAll gives up the batch when it returns.
LEMMA SendAllReturnsStep == ASSUME IInv, SendAllReturns PROVE IInv'
  <1>t. TypeOK /\ EveryAlertCounted BY DEF IInv
  <1>u. /\ loop = "send" /\ loop' = "check" /\ outstanding = {} /\ batch' = <<>>
        /\ UNCHANGED <<queue, more, stopped, ams, outstanding, numSuccess, sent, got, reloads>>
        /\ \/ accepted' = accepted \cup Elements(batch) /\ dropped' = dropped
           \/ dropped' = dropped \cup Elements(batch) /\ accepted' = accepted
    BY DEF SendAllReturns
  <1>1. Elements(batch) \subseteq Alerts /\ Elements(batch') = {} /\ Elements(queue') = Elements(queue)
    BY <1>t, <1>u DEF TypeOK, Elements
  <1>2. TypeOK'
    <2>1. batch' \in Seq(Alerts) /\ Len(batch') = 0 /\ 0 <= MaxBatchSize
      BY <1>u, ConstantsAssumption
    <2>2. accepted' \subseteq Alerts /\ dropped' \subseteq Alerts
      BY <1>1, <1>u, <1>t DEF TypeOK
    <2> QED BY <1>u, <1>t, <2>1, <2>2 DEF TypeOK
  <1>3. EveryAlertCounted'
    BY <1>1, <1>u, <1>t DEF EveryAlertCounted
  <1>4. BatchBefore' /\ GotBefore' /\ BatchHeld'
    BY <1>u DEF IInv, BatchBefore, GotBefore, BatchHeld
  <1> QED BY <1>2, <1>3, <1>4, <1>u DEF IInv, NoLostWakeup, QueueNewest, InOrderDelivery

\* Steps that move no alert.
LEMMA OtherSteps ==
    ASSUME IInv, TypeOK',
           UNCHANGED <<queue, batch, sent, dropped, accepted, got>>,
           \/ UNCHANGED <<more, loop, outstanding>>
           \/ /\ loop \in {"off", "select"} /\ loop' \in {"select", "batch", "returned"}
              /\ UNCHANGED outstanding
              /\ more' = more \/ loop' = "batch"
           \/ loop = "marshal" /\ loop' = "send"
           \/ /\ loop = "check" /\ loop' = "select" /\ UNCHANGED outstanding
              /\ queue # <<>> => more'
    PROVE  IInv'
  <1>1. QueueNewest' /\ BatchBefore' /\ EveryAlertCounted' /\ InOrderDelivery'
    BY ZenonT(60) DEF IInv, QueueNewest, BatchBefore, EveryAlertCounted, InOrderDelivery, Elements
  <1>2. BatchHeld' /\ NoLostWakeup'
    BY DEF IInv, BatchHeld, NoLostWakeup
  <1>3. GotBefore'
    BY DEF IInv, GotBefore, BatchHeld
  <1> QED BY <1>1, <1>2, <1>3 DEF IInv

\* Every step keeps the invariant.
LEMMA InvariantStep == ASSUME IInv, [Next]_vars PROVE IInv'
  <1>t. TypeOK BY DEF IInv
  <1>1. ASSUME NEW n \in 0..MaxBurst, Send(n) PROVE IInv'
    BY <1>1, SendStep
  <1>2. CASE ApplyConfig \/ Stop \/ UNCHANGED vars
    <2>1. TypeOK'
      <3>1. CASE ApplyConfig
        <4>1. reloads' \in 0..MaxReloads
          BY <3>1, <1>t, ConstantsAssumption DEF ApplyConfig, TypeOK
        <4> QED BY <3>1, <4>1, <1>t DEF ApplyConfig, TypeOK
      <3>2. CASE Stop
        BY <3>2, <1>t DEF Stop, TypeOK
      <3>3. CASE UNCHANGED vars
        BY <3>3, <1>t DEF vars, TypeOK
      <3> QED BY <1>2, <3>1, <3>2, <3>3
    <2> QED BY <1>2, <2>1, OtherSteps DEF ApplyConfig, Stop, vars
  <1>3. CASE RunReturns \/ RunCalled \/ ReceiveMore \/ CheckQueue
    <2>1. TypeOK'
      BY <1>3, <1>t DEF RunReturns, RunCalled, ReceiveMore, CheckQueue, TypeOK
    <2> QED BY <1>3, <2>1, OtherSteps DEF RunReturns, RunCalled, ReceiveMore, CheckQueue
  <1>4. ASSUME NEW S \in SUBSET Alertmanagers, Reload(S) PROVE IInv'
    <2>1. TypeOK'
      BY <1>4, <1>t DEF Reload, TypeOK
    <2> QED BY <1>4, <2>1, OtherSteps DEF Reload
  <1>5. CASE SendAll
    <2>1. TypeOK'
      BY <1>5, <1>t DEF SendAll, TypeOK
    <2> QED BY <1>5, <2>1, OtherSteps DEF SendAll
  <1>6. CASE NextBatch BY <1>6, NextBatchStep
  <1>7. CASE SendAllReturns BY <1>7, SendAllReturnsStep
  <1>8. CASE SendOneEnds BY <1>8, SendOneStep DEF SendOneEnds
  <1> QED BY <1>1, <1>2, <1>3, <1>4, <1>5, <1>6, <1>7, <1>8 DEF Next, RunStep

\* NewManager makes an empty queue.
LEMMA InitInvariant == Init => IInv
  <1> SUFFICES ASSUME Init PROVE IInv OBVIOUS
  <1> USE DEF Init
  <1>1. TypeOK
    <2>1. <<>> \in Seq(Alerts) /\ Len(<<>>) = 0
      OBVIOUS
    <2>2. 0 <= QueueCapacity /\ 0 <= MaxBatchSize /\ 0 \in 0..MaxAlerts /\ 0 \in 0..MaxReloads
      BY ConstantsAssumption
    <2>3. got \in [Alertmanagers -> Seq(Alerts)]
      BY <2>1
    <2> QED BY <2>1, <2>2, <2>3 DEF TypeOK
  <1>2. NoLostWakeup /\ QueueNewest /\ BatchBefore /\ BatchHeld
    BY DEF NoLostWakeup, QueueNewest, BatchBefore, BatchHeld
  <1>3. GotBefore /\ InOrderDelivery
    BY DEF GotBefore, InOrderDelivery
  <1>4. EveryAlertCounted
    BY DEF EveryAlertCounted, Elements
  <1> QED BY <1>1, <1>2, <1>3, <1>4 DEF IInv

\* The bounds of queue and batches hold, whatever the bursts.
THEOREM NotifierTypeCorrect == Spec => []TypeOK
  <1>1. Init => IInv BY InitInvariant
  <1>2. IInv /\ [Next]_vars => IInv' BY InvariantStep
  <1>3. IInv => TypeOK BY DEF IInv
  <1> QED BY <1>1, <1>2, <1>3, PTL DEF Spec

\* setMore and the check after a batch leave Run no way to sleep on alerts.
THEOREM WakeupNotLost == Spec => []NoLostWakeup
  <1>1. Init => IInv BY InitInvariant
  <1>2. IInv /\ [Next]_vars => IInv' BY InvariantStep
  <1>3. IInv => NoLostWakeup BY DEF IInv
  <1> QED BY <1>1, <1>2, <1>3, PTL DEF Spec

\* Send drops the oldest alerts, of the burst and of the queue.
THEOREM NewestAlertsKept == Spec => []NewestKept
  <1>1. Init => IInv BY InitInvariant
  <1>2. IInv /\ [Next]_vars => IInv' BY InvariantStep
  <1>3. IInv => NewestKept BY DEF IInv, NewestKept, QueueNewest, BatchBefore
  <1> QED BY <1>1, <1>2, <1>3, PTL DEF Spec

\* Between Send and sendAll no alert goes away uncounted, nor is counted twice.
THEOREM AlertsCounted == Spec => []EveryAlertCounted
  <1>1. Init => IInv BY InitInvariant
  <1>2. IInv /\ [Next]_vars => IInv' BY InvariantStep
  <1>3. IInv => EveryAlertCounted BY DEF IInv
  <1> QED BY <1>1, <1>2, <1>3, PTL DEF Spec

\* An Alertmanager gets alerts in the order in which Send took them.
THEOREM DeliveredInOrder == Spec => []InOrderDelivery
  <1>1. Init => IInv BY InitInvariant
  <1>2. IInv /\ [Next]_vars => IInv' BY InvariantStep
  <1>3. IInv => InOrderDelivery BY DEF IInv
  <1> QED BY <1>1, <1>2, <1>3, PTL DEF Spec
=============================================================================
