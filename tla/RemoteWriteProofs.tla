------------------------- MODULE RemoteWriteProofs -------------------------
(***************************************************************************)
(* Proofs about RemoteWrite, for any series, fingerprints, capacities and  *)
(* numbers of shards, reshards and reloads.                                *)
(*                                                                         *)
(* None of the properties is inductive.  What they need is an account of   *)
(* who may send: only the current generation and, during a reshard, the    *)
(* one before it, but never the two together.  IInv says that for every    *)
(* place in which the two loops, ApplyConfig and Close can be.             *)
(*                                                                         *)
(* The second half is about the samples.  Every step has one of a few      *)
(* effects on them (Effect); OInv says where each sample is and in which   *)
(* order, within a shard and over the generations.  The order of arrival,  *)
(* the account and the implementation of SampleStream follow from the two. *)
(***************************************************************************)
EXTENDS RemoteWrite, SequenceTheorems, TLAPS

\* The types of everything but the history variable and the counters.
Types ==
    /\ current \in Generations
    /\ width \in [Generations -> 0..MaxShards]
    /\ closed \in [Generations -> BOOLEAN]
    /\ queue \in [Shards -> Seq(Samples)]
    /\ pc \in [Shards -> {"off", "select", "send", "flush", "done"}]
    /\ pending \in [Shards -> Seq(Samples)]
    /\ numShards \in 1..MaxShards
    /\ resharder \in {"select", "swap", "stop", "wait", "done"}
    /\ quit \in BOOLEAN /\ sampleOut \in BOOLEAN
    /\ storage \in {"start", "open", "stop", "flush", "closed"}
    /\ closing \in BOOLEAN /\ panicked \in BOOLEAN
    /\ appended \in [Series -> Nat]

Empty(x) == queue[x] = <<>> /\ pending[x] = <<>>
Made(x) == x[2] < width[x[1]]
Resharding == resharder \in {"stop", "wait"}

\* Generations are made in turn, and open.
InTurn ==
    \A g \in Generations :
        /\ g <= current => width[g] >= 1
        /\ g > current => width[g] = 0 /\ ~closed[g]

Unmade == \A x \in Shards : ~Made(x) => pc[x] = "off" /\ Empty(x)

\* A runShard that returns has got everything out of its closed queue.
Finished ==
    \A x \in Shards :
        /\ pc[x] = "done" => closed[x[1]] /\ Empty(x)
        /\ pc[x] = "flush" => closed[x[1]] /\ queue[x] = <<>>

\* Generations that have been replaced are done, but for the last one while
\* reshard waits for it.
OldDone ==
    \A x \in Shards : x[1] < current /\ Made(x) =>
        pc[x] = "done" \/ (Resharding /\ x[1] = current - 1)

\* The current generation has not been started.
CurrentOff ==
    Resharding \/ storage = "start" =>
        \A x \in Shards : x[1] = current => pc[x] = "off"

\* A manager that is being started has nothing to do, so that its reshardLoop
\* has not been asked for anything.
StartFresh ==
    storage = "start" =>
        /\ resharder = "select" /\ ~quit /\ ~sampleOut
        /\ \A x \in Shards : x[1] = current => Empty(x)

\* Where the loops, ApplyConfig and Close can be at the same time.
Loops ==
    /\ resharder = "done" => quit
    /\ quit <=> storage \in {"stop", "flush", "closed"}
    /\ resharder \in {"swap", "stop", "wait"} => storage \in {"open", "stop"}
    /\ Resharding => current > 1
    /\ resharder = "swap" => current + 1 < MaxGenerations
    /\ storage \in {"stop", "flush"} /\ ~closing => current < MaxGenerations
    /\ storage \in {"flush", "closed"} => resharder = "done"
    /\ closed[current] => storage \in {"flush", "closed"}
    /\ storage = "closed" => closing /\ AllDone(current)

IInv ==
    /\ Types
    /\ InTurn
    /\ Unmade
    /\ Finished
    /\ OldDone
    /\ CurrentOff
    /\ StartFresh
    /\ Loops
    /\ NoPanicWhileOpen

----------------------------------------------------------------------------
LEMMA ShardParts ==
    ASSUME NEW x \in Shards
    PROVE  x[1] \in Generations /\ x[2] \in 0..MaxShards - 1 /\ x = <<x[1], x[2]>>
BY DEF Shards

LEMMA ShardsOfMade ==
    ASSUME NEW g \in Generations, NEW x \in Shards
    PROVE  x \in ShardsOf(g) <=> x[1] = g /\ Made(x)
BY DEF ShardsOf, Made

LEMMA InitIInv == Init => IInv
<1> SUFFICES ASSUME Init PROVE IInv
  OBVIOUS
<1> USE ConstantsAssumption DEF Init
<1>1. Types
  <2>1. current \in Generations /\ numShards \in 1..MaxShards
    BY DEF Generations
  <2>2. width \in [Generations -> 0..MaxShards]
    BY DEF Generations
  <2>3. /\ queue \in [Shards -> Seq(Samples)]
        /\ pending \in [Shards -> Seq(Samples)]
    OBVIOUS
  <2> QED BY <2>1, <2>2, <2>3 DEF Types
<1>2. InTurn
  BY DEF InTurn, Generations
<1>3. Unmade /\ Finished
  BY DEF Unmade, Finished, Empty
<1>4. OldDone
  BY ShardParts DEF OldDone, Generations
<1>5. CurrentOff /\ StartFresh
  BY DEF CurrentOff, StartFresh, Empty
<1>6. Loops /\ NoPanicWhileOpen
  BY DEF Loops, NoPanicWhileOpen, Resharding, Generations
<1> QED BY <1>1, <1>2, <1>3, <1>4, <1>5, <1>6 DEF IInv

\* The shard of a series is one of the current generation.
LEMMA ShardForMade ==
    ASSUME IInv, NEW s \in Series
    PROVE  /\ ShardFor(s, current) \in Shards
           /\ ShardFor(s, current)[1] = current
           /\ Made(ShardFor(s, current))
<1>1. /\ current \in Generations /\ width[current] \in Nat
      /\ width[current] >= 1 /\ width[current] <= MaxShards
  BY ConstantsAssumption DEF IInv, InTurn, Types, Generations
<1>2. Fingerprint[s] \in Nat
  BY ConstantsAssumption
<1>3. Fingerprint[s] % width[current] \in 0..width[current] - 1
  BY <1>1, <1>2
<1> QED BY <1>1, <1>3, ConstantsAssumption DEF ShardFor, Shards, Made

----------------------------------------------------------------------------
\* A step of a running shard that only changes its own state.
LEMMA ShardStep ==
    ASSUME IInv, NEW x \in Shards, Running(x),
           NEW q \in Seq(Samples), NEW b \in Seq(Samples),
           NEW p \in {"select", "send", "flush", "done"},
           queue' = [queue EXCEPT ![x] = q],
           pending' = [pending EXCEPT ![x] = b],
           pc' = [pc EXCEPT ![x] = p],
           p = "done" => closed[x[1]] /\ q = <<>> /\ b = <<>>,
           p = "flush" => closed[x[1]] /\ q = <<>>,
           UNCHANGED <<current, width, closed, loopVars, storageVars, appended>>,
           sampleOut' \in BOOLEAN
    PROVE  IInv'
<1> USE DEF IInv
<1>0. UNCHANGED <<numShards, updater, resharder, quit, storage, closing, panicked>>
  BY DEF loopVars, storageVars
<1>1. Made(x) /\ pc[x] # "off"
  BY DEF Unmade, Running
<1>2. x[1] <= current
  BY SMTT(30), <1>1, ShardParts, ConstantsAssumption DEF InTurn, Made, Types, Generations
<1>3. storage # "start" /\ storage # "closed"
  <2>1. CASE x[1] = current
    BY <2>1, <1>1, ShardsOfMade DEF CurrentOff, Loops, AllDone, Running, Types
  <2>2. CASE x[1] < current
    BY <2>2, <1>1 DEF OldDone, Loops, Resharding, StartFresh, Running
  <2> QED BY <1>2, <2>1, <2>2, ShardParts DEF Types, Generations
<1>4. Types'
  BY <1>0 DEF Types
<1>5. InTurn'
  BY <1>0 DEF InTurn
<1>6. Unmade' /\ Finished'
  BY <1>0, <1>1 DEF Unmade, Finished, Empty, Made, Types
<1>7. OldDone'
  BY <1>0, <1>1 DEF OldDone, Made, Resharding, Running, Types
<1>8. CurrentOff'
  BY <1>0, <1>1 DEF CurrentOff, Resharding, Types
<1>9. StartFresh'
  BY <1>0, <1>3 DEF StartFresh
<1>10. Loops'
  BY <1>0, <1>3 DEF Loops, Resharding
<1>11. NoPanicWhileOpen'
  BY <1>0 DEF NoPanicWhileOpen
<1> QED BY <1>4, <1>5, <1>6, <1>7, <1>8, <1>9, <1>10, <1>11

LEMMA RunShardIInv ==
    ASSUME IInv, NEW x \in Shards, RunShard(x)
    PROVE  IInv'
<1>0. /\ queue \in [Shards -> Seq(Samples)] /\ pending \in [Shards -> Seq(Samples)]
      /\ pc \in [Shards -> {"off", "select", "send", "flush", "done"}]
      /\ sampleOut \in BOOLEAN
  BY DEF IInv, Types
<1>1. CASE ReceiveSample(x)
  <2>1. Tail(queue[x]) \in Seq(Samples) /\ Append(pending[x], Head(queue[x])) \in Seq(Samples)
    BY <1>0, <1>1 DEF ReceiveSample
  <2>2. PICK p \in {"select", "send"} : pc' = [pc EXCEPT ![x] = p]
    BY <1>0, <1>1 DEF ReceiveSample
  <2>3. /\ Running(x) /\ sampleOut' \in BOOLEAN
        /\ queue' = [queue EXCEPT ![x] = Tail(queue[x])]
        /\ pending' = [pending EXCEPT ![x] = Append(pending[x], Head(queue[x]))]
        /\ UNCHANGED <<current, width, closed, loopVars, storageVars, appended>>
    BY <1>0, <1>1 DEF ReceiveSample, Running
  <2> QED BY <2>1, <2>2, <2>3, ShardStep
<1>2. CASE Deadline(x)
  <2>1. queue' = [queue EXCEPT ![x] = queue[x]] /\ pending' = [pending EXCEPT ![x] = pending[x]]
    BY <1>0, <1>2 DEF Deadline
  <2> QED BY <1>0, <1>2, <2>1, ShardStep DEF Deadline, Running
<1>3. CASE QueueClosed(x)
  <2>1. queue' = [queue EXCEPT ![x] = queue[x]] /\ pending' = [pending EXCEPT ![x] = pending[x]]
    BY <1>0, <1>3 DEF QueueClosed
  <2>2. closed[x[1]] /\ queue[x] = <<>> /\ Running(x)
    BY <1>3 DEF QueueClosed, Running
  <2>3. PICK p \in {"flush", "done"} :
            pc' = [pc EXCEPT ![x] = p] /\ (p = "done" => pending[x] = <<>>)
    BY <1>3 DEF QueueClosed
  <2>4. /\ queue[x] \in Seq(Samples) /\ pending[x] \in Seq(Samples)
        /\ sampleOut' \in BOOLEAN
        /\ UNCHANGED <<current, width, closed, loopVars, storageVars, appended>>
    BY <1>0, <1>3 DEF QueueClosed
  <2> QED BY <2>1, <2>2, <2>3, <2>4, ShardStep
<1>4. CASE \E arrived \in BOOLEAN : StoreRecoverable(x, arrived)
  <2>1. /\ queue' = [queue EXCEPT ![x] = queue[x]]
        /\ pending' = [pending EXCEPT ![x] = pending[x]]
        /\ pc' = [pc EXCEPT ![x] = pc[x]]
    BY <1>0, <1>4 DEF StoreRecoverable
  <2>2. Running(x) /\ (pc[x] = "flush" => closed[x[1]] /\ queue[x] = <<>>) /\ pc[x] # "done"
    BY <1>4 DEF StoreRecoverable, Running, Sending, IInv, Finished
  <2>3. UNCHANGED <<current, width, closed, loopVars, storageVars, appended, sampleOut>>
    BY <1>4 DEF StoreRecoverable
  <2>4. pc[x] \in {"select", "send", "flush", "done"} /\ sampleOut' \in BOOLEAN
    BY <1>0, <2>2, <2>3 DEF Running
  <2>5. queue[x] \in Seq(Samples) /\ pending[x] \in Seq(Samples)
    BY <1>0
  <2> QED BY <2>1, <2>2, <2>3, <2>4, <2>5, ShardStep
<1>5. CASE StoreSucceeds(x) \/ StoreRejected(x) \/ GiveUp(x)
  <2>1. Sending(x) /\ SendReturns(x)
    BY <1>5 DEF StoreSucceeds, StoreRejected, GiveUp
  <2>2. queue' = [queue EXCEPT ![x] = queue[x]] /\ pending' = [pending EXCEPT ![x] = <<>>]
    BY <1>0, <2>1 DEF SendReturns
  <2>3. PICK p \in {"select", "done"} :
            pc' = [pc EXCEPT ![x] = p] /\ (p = "done" => pc[x] = "flush")
    BY <2>1 DEF SendReturns, Sending
  <2>4. Running(x) /\ (pc[x] = "flush" => closed[x[1]] /\ queue[x] = <<>>)
    BY <2>1 DEF Running, Sending, IInv, Finished
  <2>5. /\ queue[x] \in Seq(Samples) /\ <<>> \in Seq(Samples)
        /\ sampleOut' \in BOOLEAN
        /\ UNCHANGED <<current, width, closed, loopVars, storageVars, appended>>
    BY <1>0, <2>1 DEF SendReturns
  <2> QED BY <2>2, <2>3, <2>4, <2>5, ShardStep
<1> QED BY <1>1, <1>2, <1>3, <1>4, <1>5 DEF RunShard

LEMMA AppendIInv ==
    ASSUME IInv, ~panicked, NEW s \in Series, AppendSample(s)
    PROVE  IInv'
<1> DEFINE x == ShardFor(s, current)
           sample == <<s, appended[s] + 1>>
<1> USE DEF IInv
<1>0. UNCHANGED <<current, width, closed, pc, pending, numShards, updater,
                  resharder, quit, sampleOut, storage, closing>>
      /\ storage \in {"open", "closed"}
  BY DEF AppendSample, loopVars
<1>1. x \in Shards /\ x[1] = current /\ Made(x)
  BY ShardForMade
<1>2. sample \in Samples
  BY ConstantsAssumption DEF AppendSample, Samples, Types
<1>3. CASE closed[current]
  <2>1. panicked' = TRUE /\ queue' = queue /\ appended' = appended
    BY <1>3 DEF AppendSample
  <2>2. closing
    BY <1>0, <1>3 DEF Loops
  <2>3. Types' /\ NoPanicWhileOpen'
    BY <1>0, <2>1, <2>2 DEF Types, NoPanicWhileOpen
  <2>4. InTurn' /\ Unmade' /\ Finished' /\ OldDone' /\ CurrentOff'
    BY <1>0, <2>1 DEF InTurn, Unmade, Finished, OldDone, CurrentOff, Made, Empty,
        Resharding
  <2>5. StartFresh' /\ Loops'
    BY <1>0, <2>1 DEF StartFresh, Empty, Loops, Resharding, AllDone, ShardsOf
  <2> QED BY <2>3, <2>4, <2>5
<1>4. CASE ~closed[current]
  <2>1. /\ queue' = [queue EXCEPT ![x] = Append(@, sample)] \/ queue' = queue
        /\ appended' \in [Series -> Nat] /\ panicked' = panicked
    BY <1>4 DEF AppendSample, Types
  <2>2. queue' \in [Shards -> Seq(Samples)]
        /\ \A y \in Shards : y # x => queue'[y] = queue[y]
    <3>1. Append(queue[x], sample) \in Seq(Samples)
      BY <1>1, <1>2 DEF Types
    <3> QED BY <1>1, <2>1, <3>1 DEF Types
  <2>3. pc[x] \notin {"done", "flush"}
    BY <1>1, <1>4 DEF Finished
  <2>4. Types' /\ NoPanicWhileOpen'
    BY <1>0, <2>1, <2>2 DEF Types, NoPanicWhileOpen
  <2>5. InTurn' /\ OldDone' /\ CurrentOff'
    BY <1>0 DEF InTurn, OldDone, CurrentOff, Made, Resharding
  <2>6. Unmade' /\ Finished'
    BY <1>0, <1>1, <2>2, <2>3 DEF Unmade, Finished, Made, Empty
  <2>7. StartFresh' /\ Loops'
    BY <1>0 DEF StartFresh, Loops, Resharding, AllDone, ShardsOf
  <2> QED BY <2>4, <2>5, <2>6, <2>7
<1> QED BY <1>3, <1>4

----------------------------------------------------------------------------
\* Steps that leave the generations and their shards as they are.
LEMMA LoopStep ==
    ASSUME IInv,
           UNCHANGED <<current, width, queue, pc, pending, appended, sampleOut>>,
           closed' = closed,
           Types', StartFresh', Loops', NoPanicWhileOpen',
           Resharding' = Resharding,
           storage' = "start" => storage = "start"
    PROVE  IInv'
<1> USE DEF IInv
<1>1. InTurn' /\ Unmade' /\ Finished'
  BY DEF InTurn, Unmade, Finished, Made, Empty
<1>2. OldDone' /\ CurrentOff'
  BY DEF OldDone, CurrentOff, Made
<1> QED BY <1>1, <1>2

LEMMA BeginStopIInv ==
    ASSUME IInv, ~panicked, NEW close \in BOOLEAN, BeginStop(close)
    PROVE  IInv'
<1> USE DEF IInv
<1>0. /\ UNCHANGED <<current, width, closed, queue, pc, pending, appended, sampleOut>>
      /\ UNCHANGED <<numShards, updater, resharder>>
      /\ storage \in {"open", "closed"} /\ closing' = (closing \/ close)
      /\ close \/ current < MaxGenerations
  BY DEF BeginStop, shardVars
<1>1. closing' \in BOOLEAN /\ (closing => closing')
  BY <1>0 DEF Types
<1>2. CASE quit
  <2>1. panicked' = TRUE /\ quit' = quit /\ storage' = storage /\ storage = "closed"
    BY <1>0, <1>2 DEF BeginStop, Loops
  <2>2. Types' /\ NoPanicWhileOpen'
    BY <1>0, <1>1, <2>1 DEF Types, NoPanicWhileOpen, Loops
  <2>3. StartFresh' /\ Loops' /\ Resharding' = Resharding
    BY <1>0, <1>1, <2>1 DEF StartFresh, Loops, Resharding, AllDone, ShardsOf
  <2> QED BY <1>0, <2>1, <2>2, <2>3, LoopStep
<1>3. CASE ~quit
  <2>1. panicked' = panicked /\ quit' = TRUE /\ storage' = "stop" /\ storage = "open"
    BY <1>0, <1>3 DEF BeginStop, Loops
  <2>2. Types' /\ NoPanicWhileOpen'
    BY <1>0, <1>1, <2>1 DEF Types, NoPanicWhileOpen, Loops
  <2>3. StartFresh' /\ Loops' /\ Resharding' = Resharding
    BY <1>0, <1>1, <2>1 DEF StartFresh, Loops, Resharding, AllDone, ShardsOf
  <2> QED BY <1>0, <2>1, <2>2, <2>3, LoopStep
<1> QED BY <1>2, <1>3

\* updateShardsLoop, and reshardLoop outside of reshard.
LEMMA UpdateIInv ==
    ASSUME IInv, ~panicked, UpdateShardsLoop \/ ReshardLoopQuits
    PROVE  IInv'
<1> USE DEF IInv
<1>0. /\ UNCHANGED <<current, width, closed, queue, pc, pending, appended, sampleOut>>
      /\ UNCHANGED <<storage, closing, panicked, quit>>
  BY DEF UpdateShardsLoop, CalculateDesiredShards, UpdateShardsLoopQuits,
      ReshardLoopQuits, shardVars, storageVars
<1>1. CASE UpdateShardsLoopQuits
  <2>1. UNCHANGED <<numShards, resharder>>
    BY <1>1 DEF UpdateShardsLoopQuits
  <2>2. Types' /\ StartFresh' /\ Loops' /\ NoPanicWhileOpen' /\ Resharding' = Resharding
    BY <1>0, <2>1 DEF Types, StartFresh, Empty, Loops, Resharding, AllDone, ShardsOf,
        NoPanicWhileOpen
  <2> QED BY <1>0, <2>2, LoopStep
<1>2. ASSUME NEW n \in 1..MaxShards, CalculateDesiredShards(n) PROVE IInv'
  <2>1. /\ numShards' = n /\ resharder' = "swap" /\ resharder = "select" /\ ~quit
        /\ sampleOut /\ current + 1 < MaxGenerations
    BY <1>2 DEF CalculateDesiredShards
  <2>2. storage = "open"
    BY <2>1 DEF Types, StartFresh, Loops
  <2>3. Types' /\ StartFresh' /\ NoPanicWhileOpen' /\ Resharding' = Resharding
    BY <1>0, <2>1, <2>2 DEF Types, StartFresh, NoPanicWhileOpen, Resharding
  <2>4. Loops'
    BY <1>0, <2>1, <2>2 DEF Loops, Resharding
  <2> QED BY <1>0, <2>3, <2>4, LoopStep
<1>3. CASE ReshardLoopQuits
  <2>1. numShards' = numShards /\ resharder' = "done" /\ resharder = "select" /\ quit
    BY <1>3 DEF ReshardLoopQuits
  <2>2. Types' /\ StartFresh' /\ NoPanicWhileOpen' /\ Resharding' = Resharding
    BY <1>0, <2>1 DEF Types, StartFresh, NoPanicWhileOpen, Resharding
  <2>3. Loops'
    BY <1>0, <2>1 DEF Loops, Resharding, AllDone, ShardsOf
  <2> QED BY <1>0, <2>2, <2>3, LoopStep
<1> QED BY <1>1, <1>2, <1>3 DEF UpdateShardsLoop

\* reshard.
LEMMA ReshardIInv ==
    ASSUME IInv, ~panicked, ReshardSwap \/ ReshardStop \/ ReshardStart
    PROVE  IInv'
<1> USE DEF IInv
<1>0. /\ UNCHANGED <<queue, pending, appended, sampleOut, numShards, quit>>
      /\ UNCHANGED <<storage, closing, panicked>>
      /\ storage \in {"open", "stop"}
  BY DEF ReshardSwap, ReshardStop, ReshardStart, storageVars, Loops
<1>1. NoPanicWhileOpen' /\ StartFresh'
  BY <1>0 DEF NoPanicWhileOpen, StartFresh
<1>2. CASE ReshardSwap
  <2>1. /\ resharder = "swap" /\ resharder' = "stop" /\ current' = current + 1
        /\ width' = [width EXCEPT ![current + 1] = numShards]
        /\ UNCHANGED <<closed, pc>>
    BY <1>2 DEF ReshardSwap
  <2>2. current + 1 \in Generations /\ current + 1 < MaxGenerations /\ current \in Nat
    BY <2>1, ConstantsAssumption DEF Loops, Types, Generations
  <2>3. numShards \in Nat /\ numShards >= 1 /\ numShards <= MaxShards
    BY ConstantsAssumption DEF Types
  <2>4. Types'
    BY <1>0, <2>1, <2>2, <2>3, ConstantsAssumption DEF Types
  <2>5. InTurn'
    BY <2>1, <2>2, <2>3, ConstantsAssumption DEF InTurn, Types, Generations
  <2>6. \A x \in Shards : x[1] = current + 1 => ~Made(x) /\ pc[x] = "off"
    BY <2>2, ShardParts DEF InTurn, Made, Unmade, Generations
  <2>7. Unmade' /\ Finished'
    BY <1>0, <2>1, <2>2, <2>6, ShardParts DEF Unmade, Finished, Made, Empty, Types
  <2>8. OldDone'
    <3> SUFFICES ASSUME NEW x \in Shards, x[1] < current + 1, Made(x)'
                 PROVE  pc[x] = "done" \/ x[1] = current
      BY <2>1, <2>2 DEF OldDone, Resharding
    <3>1. x[1] \in Nat /\ x[1] # current + 1
      BY <2>2, ShardParts DEF Generations
    <3>2. Made(x)
      BY <2>1, <2>2, <3>1, ShardParts DEF Made, Types
    <3> QED BY <2>1, <2>2, <3>1, <3>2 DEF OldDone, Resharding
  <2>9. CurrentOff'
    BY <2>1, <2>6 DEF CurrentOff
  <2>10. Loops'
    <3>1. ~closed[current + 1]
      BY <2>2 DEF InTurn, Generations
    <3>2. current + 1 > 1
      BY <2>2 DEF Types, Generations
    <3> QED BY <1>0, <2>1, <2>2, <3>1, <3>2 DEF Loops, Resharding
  <2> QED BY <1>1, <2>4, <2>5, <2>7, <2>8, <2>9, <2>10
<1>3. CASE ReshardStop
  <2>1. /\ resharder = "stop" /\ resharder' = "wait"
        /\ closed' = [closed EXCEPT ![current - 1] = TRUE]
        /\ UNCHANGED <<current, width, pc>>
    BY <1>3 DEF ReshardStop
  <2>2. current - 1 \in Generations /\ current - 1 < current /\ current \in Nat
    BY <2>1, ConstantsAssumption DEF Loops, Types, Generations, Resharding
  <2>3. closed' \in [Generations -> BOOLEAN]
    BY <2>1 DEF Types
  <2>4. \A g \in Generations : (closed[g] => closed'[g]) /\ (g # current - 1 => closed'[g] = closed[g])
    BY <2>1, <2>2 DEF Types
  <2>5. Types'
    BY <1>0, <2>1, <2>3 DEF Types
  <2>6. InTurn'
    BY <2>1, <2>2, <2>4 DEF InTurn, Generations
  <2>7. Unmade' /\ Finished'
    BY <1>0, <2>1, <2>4, ShardParts DEF Unmade, Finished, Made, Empty
  <2>8. OldDone' /\ CurrentOff'
    BY <1>0, <2>1 DEF OldDone, CurrentOff, Made, Resharding
  <2>9. Loops'
    <3>1. closed'[current] = closed[current]
      BY <2>2, <2>4 DEF Types
    <3> QED BY <1>0, <2>1, <3>1 DEF Loops, Resharding
  <2> QED BY <1>1, <2>5, <2>6, <2>7, <2>8, <2>9
<1>4. CASE ReshardStart
  <2>1. /\ resharder = "wait" /\ resharder' = "select" /\ AllDone(current - 1)
        /\ pc' = Started(current)
        /\ UNCHANGED <<current, width, closed>>
    BY <1>4 DEF ReshardStart
  <2>2. current - 1 \in Generations /\ current \in Generations /\ current \in Nat
    BY <2>1, ConstantsAssumption DEF Loops, Types, Generations, Resharding
  <2>3. \A x \in Shards :
            pc'[x] = IF x[1] = current /\ Made(x) THEN "select" ELSE pc[x]
    BY <2>1, <2>2, ShardsOfMade DEF Started
  <2>4. pc' \in [Shards -> {"off", "select", "send", "flush", "done"}]
    BY <2>1, <2>3 DEF Started, Types
  <2>5. Types'
    BY <1>0, <2>1, <2>4 DEF Types
  <2>6. InTurn'
    BY <2>1 DEF InTurn
  <2>7. Unmade' /\ Finished'
    BY <1>0, <2>1, <2>3 DEF Unmade, Finished, Made, Empty
  <2>8. OldDone'
    <3>1. \A x \in Shards : x[1] = current - 1 /\ Made(x) => pc[x] = "done"
      BY <2>1, <2>2, ShardsOfMade DEF AllDone
    <3>2. \A x \in Shards : x[1] < current /\ Made(x) => pc[x] = "done"
      BY <3>1 DEF OldDone
    <3>3. \A x \in Shards : x[1] < current => pc'[x] = pc[x]
      BY <2>2, <2>3, ShardParts DEF Generations
    <3> QED BY <2>1, <3>2, <3>3 DEF OldDone, Made
  <2>9. CurrentOff' /\ Loops'
    BY <1>0, <2>1 DEF CurrentOff, Loops, Resharding
  <2> QED BY <1>1, <2>5, <2>6, <2>7, <2>8, <2>9
<1> QED BY <1>2, <1>3, <1>4

\* ApplyConfig and Close, once the two loops have quit.
LEMMA StorageIInv ==
    ASSUME IInv, ~panicked, StorageStep
    PROVE  IInv'
<1> USE DEF IInv
<1>0. UNCHANGED <<queue, pending, appended, closing, panicked>>
  BY DEF StorageStep, StopShards, CloseReturns, StartManager, StartShards, shardVars
<1>1. NoPanicWhileOpen'
  BY <1>0 DEF NoPanicWhileOpen
<1>2. CASE StopShards
  <2>1. /\ storage = "stop" /\ storage' = "flush" /\ resharder = "done"
        /\ closed' = [closed EXCEPT ![current] = TRUE]
        /\ UNCHANGED <<current, width, pc, numShards, resharder, quit, sampleOut>>
    BY <1>2 DEF StopShards, loopVars
  <2>2. closed' \in [Generations -> BOOLEAN]
        /\ \A g \in Generations : (closed[g] => closed'[g])
                                 /\ (g # current => closed'[g] = closed[g])
    BY <2>1 DEF Types
  <2>3. Types' /\ StartFresh'
    BY <1>0, <2>1, <2>2 DEF Types, StartFresh
  <2>4. InTurn'
    BY <2>1, <2>2, ConstantsAssumption DEF InTurn, Types, Generations
  <2>5. Unmade' /\ Finished'
    BY <1>0, <2>1, <2>2, ShardParts DEF Unmade, Finished, Made, Empty
  <2>6. OldDone' /\ CurrentOff'
    BY <1>0, <2>1 DEF OldDone, CurrentOff, Made, Resharding
  <2>7. Loops'
    BY <1>0, <2>1 DEF Loops, Resharding
  <2> QED BY <1>1, <2>3, <2>4, <2>5, <2>6, <2>7
<1>3. CASE CloseReturns
  <2>1. /\ storage = "flush" /\ storage' = "closed" /\ closing /\ AllDone(current)
        /\ UNCHANGED <<current, width, closed, pc, numShards, resharder, quit, sampleOut>>
    BY <1>3 DEF CloseReturns, shardVars, loopVars
  <2>2. Types' /\ StartFresh'
    BY <1>0, <2>1 DEF Types, StartFresh
  <2>3. InTurn' /\ Unmade' /\ Finished' /\ OldDone' /\ CurrentOff'
    BY <1>0, <2>1 DEF InTurn, Unmade, Finished, OldDone, CurrentOff, Made, Empty,
        Resharding
  <2>4. Loops'
    BY <1>0, <2>1 DEF Loops, Resharding, AllDone, ShardsOf
  <2> QED BY <1>1, <2>2, <2>3, <2>4
<1>4. CASE StartManager
  <2>1. /\ storage = "flush" /\ storage' = "start" /\ ~closing /\ AllDone(current)
        /\ current' = current + 1 /\ width' = [width EXCEPT ![current + 1] = 1]
        /\ numShards' = 1 /\ resharder' = "select" /\ quit' = FALSE /\ sampleOut' = FALSE
        /\ UNCHANGED <<closed, pc>>
    BY <1>4 DEF StartManager
  <2>2. /\ resharder = "done" /\ current \in Nat /\ current \in Generations
        /\ current + 1 \in Generations
    BY <2>1, ConstantsAssumption DEF Loops, Types, Generations
  <2>3. 1 \in 0..MaxShards /\ 1 \in 1..MaxShards
    BY ConstantsAssumption
  <2>4. Types'
    BY <1>0, <2>1, <2>2, <2>3 DEF Types
  <2>5. InTurn'
    BY <2>1, <2>2, <2>3, ConstantsAssumption DEF InTurn, Types, Generations
  <2>6. \A x \in Shards : x[1] = current + 1 => ~Made(x) /\ pc[x] = "off" /\ Empty(x)
    BY <2>2, ShardParts DEF InTurn, Made, Unmade, Generations
  <2>7. \A x \in Shards : Made(x) => Made(x)'
    BY <2>1, <2>2, <2>6, ShardParts DEF Made, Types
  <2>8. Unmade' /\ Finished'
    BY <1>0, <2>1, <2>7 DEF Unmade, Finished, Empty
  <2>9. OldDone'
    <3> SUFFICES ASSUME NEW x \in Shards, x[1] < current + 1, Made(x)'
                 PROVE  pc[x] = "done"
      BY <2>1 DEF OldDone
    <3>1. x[1] \in Nat /\ x[1] # current + 1
      BY <2>2, ShardParts DEF Generations
    <3>2. Made(x)
      BY <2>1, <2>2, <3>1, ShardParts DEF Made, Types
    <3>3. CASE x[1] = current
      BY <2>1, <2>2, <3>2, <3>3, ShardsOfMade DEF AllDone
    <3>4. CASE x[1] < current
      BY <2>2, <3>2, <3>4 DEF OldDone, Resharding
    <3> QED BY <2>2, <3>1, <3>3, <3>4
  <2>10. CurrentOff' /\ StartFresh'
    BY <1>0, <2>1, <2>6 DEF CurrentOff, StartFresh, Empty
  <2>11. ~closed[current + 1]
    BY <2>2 DEF InTurn, Generations
  <2>12. Loops'
    BY <1>0, <2>1, <2>11 DEF Loops, Resharding
  <2> QED BY <1>1, <2>4, <2>5, <2>8, <2>9, <2>10, <2>12
<1>5. CASE StartShards
  <2>1. /\ storage = "start" /\ storage' = "open" /\ pc' = Started(current)
        /\ UNCHANGED <<current, width, closed, numShards, resharder, quit, sampleOut>>
    BY <1>5 DEF StartShards, loopVars
  <2>2. current \in Generations /\ ~closed[current] /\ resharder = "select" /\ ~quit
    BY <2>1 DEF Types, Loops, StartFresh
  <2>3. \A x \in Shards :
            pc'[x] = IF x[1] = current /\ Made(x) THEN "select" ELSE pc[x]
    BY <2>1, <2>2, ShardsOfMade DEF Started
  <2>4. pc' \in [Shards -> {"off", "select", "send", "flush", "done"}]
    BY <2>1, <2>3 DEF Started, Types
  <2>5. Types' /\ InTurn' /\ StartFresh'
    BY <1>0, <2>1, <2>4 DEF Types, InTurn, StartFresh
  <2>6. Unmade' /\ Finished'
    BY <1>0, <2>1, <2>3 DEF Unmade, Finished, Made, Empty
  <2>7. OldDone'
    <3>1. \A x \in Shards : x[1] < current => pc'[x] = pc[x]
      BY <2>2, <2>3, ShardParts DEF Generations
    <3> QED BY <2>1, <3>1 DEF OldDone, Made, Resharding
  <2>8. CurrentOff' /\ Loops'
    BY <1>0, <2>1, <2>2 DEF CurrentOff, Loops, Resharding
  <2> QED BY <1>1, <2>5, <2>6, <2>7, <2>8
<1> QED BY <1>2, <1>3, <1>4, <1>5 DEF StorageStep

LEMMA NextIInv == IInv /\ [Next]_vars => IInv'
<1> SUFFICES ASSUME IInv, [Next]_vars PROVE IInv'
  OBVIOUS
<1>1. CASE UNCHANGED vars
  <2>1. UNCHANGED <<current, width, closed, queue, pc, pending, appended, sampleOut,
                    numShards, updater, resharder, quit, storage, closing, panicked>>
    BY <1>1 DEF vars, shardVars, loopVars, storageVars
  <2>2. Types' /\ StartFresh' /\ NoPanicWhileOpen'
    BY <2>1 DEF IInv, Types, StartFresh, Empty, NoPanicWhileOpen
  <2>3. Loops' /\ Resharding' = Resharding
    BY <2>1 DEF IInv, Loops, Resharding, AllDone, ShardsOf
  <2> QED BY <2>1, <2>2, <2>3, LoopStep
<1>2. ASSUME Next PROVE IInv'
  <2>1. ~panicked
    BY <1>2 DEF Next
  <2>2. ASSUME NEW s \in Series, AppendSample(s) PROVE IInv'
    BY <2>1, <2>2, AppendIInv
  <2>3. ASSUME NEW close \in BOOLEAN, BeginStop(close) PROVE IInv'
    BY <2>1, <2>3, BeginStopIInv
  <2>4. CASE StorageStep
    BY <2>1, <2>4, StorageIInv
  <2>5. CASE UpdateShardsLoop
    BY <2>1, <2>5, UpdateIInv
  <2>6. CASE ReshardLoop
    BY <2>1, <2>6, UpdateIInv, ReshardIInv DEF ReshardLoop
  <2>7. ASSUME NEW x \in Shards, RunShard(x) PROVE IInv'
    BY <2>7, RunShardIInv
  <2> QED BY <1>2, <2>2, <2>3, <2>4, <2>5, <2>6, <2>7 DEF Next
<1> QED BY <1>1, <1>2

LEMMA InvariantHolds == Spec => []IInv
BY InitIInv, NextIInv, PTL DEF Spec

----------------------------------------------------------------------------
LEMMA OneSends == IInv => OneGenerationSends
<1> SUFFICES ASSUME IInv, NEW x \in Shards, NEW y \in Shards, Running(y), x[1] < y[1]
             PROVE  ~Running(x) /\ queue[x] = <<>> /\ pending[x] = <<>>
  BY DEF OneGenerationSends
<1> USE DEF IInv
<1>1. Made(y) /\ pc[y] # "off" /\ pc[y] # "done"
  BY DEF Unmade, Running
<1>2. /\ x[1] \in Nat /\ y[1] \in Nat /\ current \in Nat /\ y[1] <= current
  <2>1. x[1] \in Generations /\ y[1] \in Generations /\ y[2] \in 0..MaxShards - 1
    BY ShardParts
  <2>2. current \in Nat /\ x[1] \in Nat /\ y[1] \in Nat /\ y[2] \in Nat
    BY SMTT(30), <2>1, ConstantsAssumption DEF Types, Generations
  <2>3. ~(y[1] > current)
    BY <1>1, <2>1, <2>2 DEF InTurn, Made
  <2> QED BY <2>2, <2>3
<1>3. Made(x) => pc[x] = "done"
  <2>1. CASE y[1] = current
    BY <1>1, <1>2, <2>1 DEF CurrentOff, OldDone
  <2>2. CASE y[1] < current
    <3>1. y[1] = current - 1
      BY <1>1, <2>2 DEF OldDone
    <3> QED BY <1>2, <2>2, <3>1 DEF OldDone
  <2> QED BY <1>2, <2>1, <2>2
<1> QED BY <1>3 DEF Unmade, Finished, Empty, Running

\* reshard and ApplyConfig never let two sets of shards send at the same
\* time, and leave nothing in the queues of the set that is replaced, however
\* many samples, reshards and reloads there are.
THEOREM GenerationsInTurn == Spec => []OneGenerationSends
BY OneSends, InvariantHolds, PTL

\* When ApplyConfig installs a manager, and when Close has returned, no
\* runShard is left and no sample is without an outcome.
THEOREM StopFlushesAll == Spec => []StopFlushes
<1>1. IInv => StopFlushes
  <2> SUFFICES ASSUME IInv, storage \in {"start", "closed"}
               PROVE  \A x \in Shards : ~Running(x) /\ Empty(x)
    BY DEF StopFlushes, Queued, InBatch, Elements, Empty
  <2> USE DEF IInv
  <2> TAKE x \in Shards
  <2>1. ~Resharding
    BY DEF StartFresh, Loops, Resharding
  <2>2. x[1] \in Nat /\ current \in Nat /\ current \in Generations
    BY ShardParts DEF Types, Generations
  <2>3. CASE ~Made(x)
    BY <2>3 DEF Unmade, Running
  <2>4. CASE Made(x) /\ x[1] < current
    BY <2>1, <2>4 DEF OldDone, Finished, Running
  <2>5. CASE Made(x) /\ x[1] = current /\ storage = "start"
    BY <2>5 DEF CurrentOff, StartFresh, Running
  <2>6. CASE Made(x) /\ x[1] = current /\ storage = "closed"
    BY <2>2, <2>6, ShardsOfMade DEF Loops, AllDone, Finished, Running
  <2>7. Made(x) => x[1] <= current
    BY <2>2, ShardParts DEF InTurn, Made, Generations
  <2> QED BY <2>2, <2>3, <2>4, <2>5, <2>6, <2>7
<1> QED BY <1>1, InvariantHolds, PTL

\* Before Close is called no sample is sent on a closed channel and no
\* channel is closed twice.
THEOREM NoPanicBeforeClose == Spec => []NoPanicWhileOpen
<1>1. IInv => NoPanicWhileOpen
  BY DEF IInv
<1> QED BY <1>1, InvariantHolds, PTL

----------------------------------------------------------------------------
\* The samples that shard x holds, the oldest first.
Line(x) == pending[x] \o queue[x]

\* The samples of a series are in their order, in every shard and over the
\* generations.
Ordered ==
    /\ \A x \in Shards : \A i, j \in 1..Len(Line(x)) :
           i < j /\ Line(x)[i][1] = Line(x)[j][1]
               => Line(x)[i][2] < Line(x)[j][2]
    /\ \A x, y \in Shards : x[1] < y[1] =>
           \A u \in Elements(Line(x)), v \in Elements(Line(y)) :
               u[1] = v[1] => u[2] < v[2]

\* A sample is in the shard that its fingerprint selects.
Home == \A x \in Shards : \A u \in Elements(Line(x)) : x = ShardFor(u[1], x[1])

\* No sample comes from the future.
Numbered ==
    \A u \in Queued \cup dropped \cup succeeded \cup failed \cup Elements(received) :
        u[2] <= appended[u[1]]

\* What is newer than a sample in a shard has not arrived before it.
Repeats ==
    \A u \in Queued : \A i \in 1..Len(received) :
        received[i][1] = u[1] /\ u[2] < received[i][2] =>
            \E h \in 1..i - 1 : received[h] = u

CountTypes ==
    /\ dropped \subseteq Samples /\ succeeded \subseteq Samples
    /\ failed \subseteq Samples
    /\ received \in Seq(Samples)

OInv ==
    /\ CountTypes
    /\ Ordered
    /\ Home
    /\ Numbered
    /\ Repeats
    /\ InOrder
    /\ Accounted

----------------------------------------------------------------------------
\* What a step does to the samples: it takes one, drops one, sends a batch
\* once more, settles a batch, or leaves them where they are.
LinesKept(X) == \A y \in Shards \ X : Line(y)' = Line(y)

Nothing ==
    /\ LinesKept({})
    /\ UNCHANGED <<appended, dropped, succeeded, failed, received>>

NextSample(s) == <<s, appended[s] + 1>>

Takes(s, x) ==
    /\ x = ShardFor(s, current)
    /\ LinesKept({x})
    /\ Line(x)' = Append(Line(x), NextSample(s))
    /\ appended' = [appended EXCEPT ![s] = @ + 1]
    /\ UNCHANGED <<dropped, succeeded, failed, received>>

Drops(s) ==
    /\ LinesKept({})
    /\ appended' = [appended EXCEPT ![s] = @ + 1]
    /\ dropped' = dropped \cup {NextSample(s)}
    /\ UNCHANGED <<succeeded, failed, received>>

Sends(x) ==
    /\ Running(x)
    /\ LinesKept({})
    /\ received' = received \o pending[x]
    /\ UNCHANGED <<appended, dropped, succeeded, failed>>

Settles(x) ==
    /\ Running(x)
    /\ LinesKept({x})
    /\ Line(x)' = queue[x]
    /\ \/ /\ received' = received \o pending[x]
          /\ succeeded' = succeeded \cup InBatch(x)
          /\ failed' = failed
       \/ /\ failed' = failed \cup InBatch(x)
          /\ UNCHANGED <<succeeded, received>>
    /\ UNCHANGED <<appended, dropped>>

\* Shards that hold samples keep their width.
WidthsKept == \A x \in Shards : Made(x) => width'[x[1]] = width[x[1]]

Effect ==
    /\ WidthsKept
    /\ \/ Nothing
       \/ \E s \in Series :
              /\ NextSample(s) \in Samples
              /\ Drops(s) \/ \E x \in Shards : Takes(s, x)
       \/ \E x \in Shards : Sends(x) \/ Settles(x)

\* A sequence and the one put after it.
LEMMA Concatenation ==
    ASSUME NEW S, NEW p \in Seq(S), NEW q \in Seq(S)
    PROVE  /\ p \o q \in Seq(S)
           /\ Len(p) \in Nat /\ Len(q) \in Nat
           /\ Len(p \o q) = Len(p) + Len(q)
           /\ \A i \in 1..Len(p) : (p \o q)[i] = p[i] /\ i \in 1..Len(p \o q)
           /\ \A i \in 1..Len(q) : /\ (p \o q)[Len(p) + i] = q[i]
                                   /\ Len(p) + i \in 1..Len(p \o q)
           /\ \A i \in 1..Len(p \o q) : i \in 1..Len(p) \/ i - Len(p) \in 1..Len(q)
           /\ Elements(p \o q) = Elements(p) \cup Elements(q)
<1>1. /\ p \o q \in Seq(S) /\ Len(p) \in Nat /\ Len(q) \in Nat
      /\ Len(p \o q) = Len(p) + Len(q)
      /\ \A i \in 1..Len(p) + Len(q) :
             (p \o q)[i] = IF i <= Len(p) THEN p[i] ELSE q[i - Len(p)]
  BY ConcatProperties, LenProperties
<1>2. \A i \in 1..Len(p) : (p \o q)[i] = p[i] /\ i \in 1..Len(p \o q)
  BY <1>1
<1>3. \A i \in 1..Len(q) : /\ (p \o q)[Len(p) + i] = q[i]
                           /\ Len(p) + i \in 1..Len(p \o q)
  <2> TAKE i \in 1..Len(q)
  <2>1. /\ Len(p) + i \in 1..Len(p) + Len(q) /\ ~(Len(p) + i <= Len(p))
        /\ (Len(p) + i) - Len(p) = i
    BY <1>1
  <2> QED BY <1>1, <2>1
<1>4. \A i \in 1..Len(p \o q) : i \in 1..Len(p) \/ i - Len(p) \in 1..Len(q)
  BY <1>1
<1>5. Elements(p \o q) \subseteq Elements(p) \cup Elements(q)
  <2> SUFFICES ASSUME NEW i \in 1..Len(p \o q)
               PROVE  (p \o q)[i] \in Elements(p) \cup Elements(q)
    BY DEF Elements
  <2>1. CASE i \in 1..Len(p)
    BY <1>2, <2>1 DEF Elements
  <2>2. CASE i - Len(p) \in 1..Len(q)
    <3>1. Len(p) + (i - Len(p)) = i
      BY <1>1
    <3>2. (p \o q)[i] = q[i - Len(p)]
      BY <1>3, <2>2, <3>1
    <3> QED BY <2>2, <3>2 DEF Elements
  <2> QED BY <1>4, <2>1, <2>2
<1>6. Elements(p) \cup Elements(q) \subseteq Elements(p \o q)
  <2>1. Elements(p) \subseteq Elements(p \o q)
    BY <1>2 DEF Elements
  <2>2. ASSUME NEW i \in 1..Len(q) PROVE q[i] \in Elements(p \o q)
    BY <1>3 DEF Elements
  <2>3. Elements(q) \subseteq Elements(p \o q)
    BY <2>2 DEF Elements
  <2> QED BY <2>1, <2>3
<1> QED BY <1>1, <1>2, <1>3, <1>4, <1>5, <1>6

LEMMA SampleParts ==
    ASSUME NEW u \in Samples
    PROVE  /\ u[1] \in Series /\ u[2] \in Nat \ {0} /\ u[2] <= MaxSamples[u[1]]
           /\ u = <<u[1], u[2]>>
<1>1. PICK s \in Series : u \in {s} \X (1..MaxSamples[s])
  BY DEF Samples
<1>2. u[1] = s /\ u[2] \in 1..MaxSamples[s] /\ u = <<u[1], u[2]>>
  BY <1>1
<1>3. MaxSamples[s] \in Nat
  BY ConstantsAssumption
<1> QED BY <1>2, <1>3

LEMMA LineFacts ==
    ASSUME IInv, NEW x \in Shards
    PROVE  /\ pending[x] \in Seq(Samples) /\ queue[x] \in Seq(Samples)
           /\ Line(x) \in Seq(Samples)
           /\ Elements(Line(x)) = InBatch(x) \cup Elements(queue[x])
           /\ Len(pending[x]) \in Nat /\ Len(queue[x]) \in Nat
           /\ Len(Line(x)) = Len(pending[x]) + Len(queue[x])
           /\ \A i \in 1..Len(pending[x]) :
                  i \in 1..Len(Line(x)) /\ Line(x)[i] = pending[x][i]
           /\ \A i \in 1..Len(queue[x]) :
                  /\ Len(pending[x]) + i \in 1..Len(Line(x))
                  /\ Line(x)[Len(pending[x]) + i] = queue[x][i]
           /\ \A i \in 1..Len(Line(x)) :
                  /\ i \in Nat /\ Line(x)[i] \in Samples
                  /\ Line(x)[i][2] \in Nat /\ Line(x)[i] \in Elements(Line(x))
<1>1. pending[x] \in Seq(Samples) /\ queue[x] \in Seq(Samples)
  BY DEF IInv, Types
<1> DEFINE p == pending[x]
           q == queue[x]
<1>2. /\ Line(x) \in Seq(Samples)
      /\ Len(p) \in Nat /\ Len(q) \in Nat
      /\ Len(Line(x)) = Len(p) + Len(q)
      /\ \A i \in 1..Len(p) : Line(x)[i] = p[i] /\ i \in 1..Len(Line(x))
      /\ \A i \in 1..Len(q) : /\ Line(x)[Len(p) + i] = q[i]
                              /\ Len(p) + i \in 1..Len(Line(x))
      /\ Elements(Line(x)) = Elements(p) \cup Elements(q)
  <2>1. p \in Seq(Samples) /\ q \in Seq(Samples) /\ Line(x) = p \o q
    BY <1>1 DEF Line
  <2> HIDE DEF p, q
  <2> QED BY <2>1, Concatenation
<1>3. ASSUME NEW i \in 1..Len(Line(x))
      PROVE  /\ i \in Nat /\ Line(x)[i] \in Samples
             /\ Line(x)[i][2] \in Nat /\ Line(x)[i] \in Elements(Line(x))
  <2>1. i \in Nat
    OBVIOUS
  <2>2. Line(x)[i] \in Samples
    BY <1>2, ElementOfSeq
  <2> QED BY <2>1, <2>2, SampleParts DEF Elements
<1> QED BY <1>1, <1>2, <1>3 DEF InBatch

\* A sequence and one more element.
LEMMA OneMore ==
    ASSUME NEW S, NEW p \in Seq(S), NEW e \in S
    PROVE  /\ Append(p, e) \in Seq(S) /\ Len(p) \in Nat
           /\ Len(Append(p, e)) = Len(p) + 1
           /\ \A i \in 1..Len(p) : Append(p, e)[i] = p[i]
           /\ Append(p, e)[Len(p) + 1] = e
           /\ Elements(Append(p, e)) = Elements(p) \cup {e}
<1>1. /\ Append(p, e) \in Seq(S) /\ Len(p) \in Nat
      /\ Len(Append(p, e)) = Len(p) + 1
      /\ \A i \in 1..Len(p) : Append(p, e)[i] = p[i]
      /\ Append(p, e)[Len(p) + 1] = e
  BY AppendProperties, LenProperties
<1>2. \A i \in 1..Len(p) + 1 : i \in 1..Len(p) \/ i = Len(p) + 1
  BY <1>1
<1>3. \A i \in 1..Len(p) : i \in 1..Len(p) + 1
  BY <1>1
<1>4. Len(p) + 1 \in 1..Len(p) + 1
  BY <1>1
<1>5. Elements(Append(p, e)) = Elements(p) \cup {e}
  BY <1>1, <1>2, <1>3, <1>4 DEF Elements
<1> QED BY <1>1, <1>5

\* The samples in the shards, before and after a step.
LEMMA QueuedLines ==
    /\ IInv => Queued = UNION {Elements(Line(x)) : x \in Shards}
    /\ IInv' => Queued' = UNION {Elements(Line(x)') : x \in Shards}
<1>1. ASSUME NEW p \in [Shards -> Seq(Samples)], NEW q \in [Shards -> Seq(Samples)]
      PROVE  UNION {Elements(q[x]) \cup Elements(p[x]) : x \in Shards}
                 = UNION {Elements(p[x] \o q[x]) : x \in Shards}
  <2>1. \A x \in Shards : Elements(p[x] \o q[x]) = Elements(p[x]) \cup Elements(q[x])
    <3> TAKE x \in Shards
    <3>1. p[x] \in Seq(Samples) /\ q[x] \in Seq(Samples)
      OBVIOUS
    <3> QED BY <3>1, Concatenation
  <2> QED BY <2>1
<1>2. ASSUME IInv PROVE Queued = UNION {Elements(Line(x)) : x \in Shards}
  <2>1. queue \in [Shards -> Seq(Samples)] /\ pending \in [Shards -> Seq(Samples)]
    BY <1>2 DEF IInv, Types
  <2> QED BY <1>1, <2>1 DEF Queued, InBatch, Line
<1>3. ASSUME IInv' PROVE Queued' = UNION {Elements(Line(x)') : x \in Shards}
  <2>1. queue' \in [Shards -> Seq(Samples)] /\ pending' \in [Shards -> Seq(Samples)]
    BY <1>3 DEF IInv, Types
  <2> QED BY <1>1, <2>1 DEF Queued, InBatch, Line
<1> QED BY <1>2, <1>3

LEMMA RunShardEffect ==
    ASSUME IInv, NEW x \in Shards, RunShard(x)
    PROVE  Effect
<1>1. /\ queue \in [Shards -> Seq(Samples)] /\ pending \in [Shards -> Seq(Samples)]
  BY DEF IInv, Types
<1>2. CASE ReceiveSample(x)
  <2>1. /\ \A y \in Shards \ {x} : queue'[y] = queue[y] /\ pending'[y] = pending[y]
        /\ queue'[x] = Tail(queue[x]) /\ queue[x] # <<>>
        /\ pending'[x] = Append(pending[x], Head(queue[x]))
        /\ UNCHANGED <<width, appended, dropped, succeeded, failed, received>>
    BY <1>1, <1>2 DEF ReceiveSample, countVars
  <2>2. Append(pending[x], Head(queue[x])) \o Tail(queue[x]) = pending[x] \o queue[x]
    BY <1>1, <2>1
  <2>3. \A y \in Shards : Line(y)' = Line(y)
    BY <2>1, <2>2 DEF Line
  <2> QED BY <2>1, <2>3 DEF Effect, WidthsKept, Nothing, LinesKept
<1>3. CASE Deadline(x) \/ QueueClosed(x)
  BY <1>3 DEF Deadline, QueueClosed, countVars, Effect, WidthsKept, Nothing, LinesKept, Line
<1>4. ASSUME NEW arrived \in BOOLEAN, StoreRecoverable(x, arrived) PROVE Effect
  <2>1. /\ UNCHANGED <<width, queue, pending, appended, dropped, succeeded, failed>>
        /\ Running(x)
        /\ received' = received \/ received' = received \o pending[x]
    BY <1>4 DEF StoreRecoverable, countVars, Sending, Running
  <2>2. LinesKept({})
    BY <2>1 DEF LinesKept, Line
  <2> QED BY <2>1, <2>2 DEF Effect, WidthsKept, Nothing, Sends
<1>5. CASE StoreSucceeds(x) \/ StoreRejected(x) \/ GiveUp(x)
  <2>1. /\ Running(x) /\ SendReturns(x)
        /\ \/ /\ received' = received \o pending[x]
              /\ succeeded' = succeeded \cup InBatch(x)
              /\ failed' = failed
           \/ /\ failed' = failed \cup InBatch(x)
              /\ UNCHANGED <<succeeded, received>>
    BY <1>5 DEF StoreSucceeds, StoreRejected, GiveUp, Sending, Running
  <2>2. /\ \A y \in Shards \ {x} : queue'[y] = queue[y] /\ pending'[y] = pending[y]
        /\ queue'[x] = queue[x] /\ pending'[x] = <<>>
        /\ UNCHANGED <<width, appended, dropped>>
    BY <1>1, <2>1 DEF SendReturns
  <2>3. <<>> \o queue[x] = queue[x]
    BY <1>1
  <2>4. LinesKept({x}) /\ Line(x)' = queue[x]
    BY <2>2, <2>3 DEF LinesKept, Line
  <2>5. Settles(x)
    BY <2>1, <2>2, <2>4 DEF Settles
  <2> QED BY <2>2, <2>5 DEF Effect, WidthsKept
<1> QED BY <1>2, <1>3, <1>4, <1>5 DEF RunShard

LEMMA AppendEffect ==
    ASSUME IInv, NEW s \in Series, AppendSample(s)
    PROVE  Effect
<1>0. PICK x \in Shards : x = ShardFor(s, current)
  BY ShardForMade
<1>1. /\ queue \in [Shards -> Seq(Samples)] /\ pending \in [Shards -> Seq(Samples)]
  BY DEF IInv, Types
<1>2. NextSample(s) \in Samples
  BY ConstantsAssumption DEF AppendSample, Samples, IInv, Types, NextSample
<1>3. UNCHANGED <<width, pending, succeeded, failed, received>>
  BY DEF AppendSample
<1>4. CASE UNCHANGED <<queue, dropped, appended>>
  BY <1>3, <1>4 DEF Effect, WidthsKept, Nothing, LinesKept, Line
<1>5. CASE /\ appended' = [appended EXCEPT ![s] = @ + 1]
           /\ queue' = [queue EXCEPT ![x] = Append(@, NextSample(s))]
           /\ dropped' = dropped
  <2>1. /\ \A y \in Shards \ {x} : queue'[y] = queue[y]
        /\ queue'[x] = Append(queue[x], NextSample(s))
    BY <1>1, <1>5
  <2>2. pending[x] \o Append(queue[x], NextSample(s))
            = Append(pending[x] \o queue[x], NextSample(s))
    BY <1>1, <1>2
  <2>3. LinesKept({x}) /\ Line(x)' = Append(Line(x), NextSample(s))
    BY <1>3, <2>1, <2>2 DEF LinesKept, Line
  <2>4. Takes(s, x)
    BY <1>0, <1>3, <1>5, <2>3 DEF Takes
  <2> QED BY <1>2, <1>3, <2>4 DEF Effect, WidthsKept
<1>6. CASE /\ appended' = [appended EXCEPT ![s] = @ + 1]
           /\ dropped' = dropped \cup {NextSample(s)}
           /\ queue' = queue
  <2>1. Drops(s)
    BY <1>3, <1>6 DEF Drops, LinesKept, Line
  <2> QED BY <1>2, <1>3, <2>1 DEF Effect, WidthsKept
<1> QED BY <1>0, <1>4, <1>5, <1>6 DEF AppendSample, NextSample

\* What a shard has is in one of the shards that exist, and none of a
\* generation to come.
LEMMA LinesMade ==
    ASSUME IInv, NEW x \in Shards, Elements(Line(x)) # {}
    PROVE  Made(x) /\ x[1] <= current
<1>1. Made(x)
  <2> SUFFICES ASSUME ~Made(x) PROVE FALSE
    OBVIOUS
  <2>1. queue[x] = <<>> /\ pending[x] = <<>>
    BY DEF IInv, Unmade, Empty
  <2>2. Elements(<<>>) = {}
    BY DEF Elements
  <2> QED BY <2>1, <2>2, LineFacts DEF InBatch
<1>2. x[1] \in Generations /\ x[2] \in Nat /\ current \in Nat /\ x[1] \in Nat
  BY ShardParts, ConstantsAssumption DEF IInv, Types, Generations
<1> QED BY <1>1, <1>2 DEF IInv, InTurn, Made

LEMMA StepEffect ==
    ASSUME IInv, [Next]_vars
    PROVE  Effect
<1>1. ASSUME NEW s \in Series, AppendSample(s) PROVE Effect
  BY <1>1, AppendEffect
<1>2. ASSUME NEW x \in Shards, RunShard(x) PROVE Effect
  BY <1>2, RunShardEffect
<1>3. ASSUME UNCHANGED <<queue, pending, appended, dropped, succeeded, failed, received>>,
             WidthsKept
      PROVE  Effect
  BY <1>3 DEF Effect, Nothing, LinesKept, Line
<1>4. CASE UNCHANGED vars
  BY <1>3, <1>4 DEF vars, shardVars, countVars, WidthsKept
<1>5. ASSUME NEW close \in BOOLEAN, BeginStop(close) PROVE Effect
  BY <1>3, <1>5 DEF BeginStop, shardVars, countVars, WidthsKept
<1>6. CASE UpdateShardsLoop
  BY <1>3, <1>6 DEF UpdateShardsLoop, CalculateDesiredShards, UpdateShardsLoopQuits,
      shardVars, countVars, WidthsKept
<1>7. \A x \in Shards : Made(x) => x[1] # current + 1
  <2> SUFFICES ASSUME NEW x \in Shards, x[1] = current + 1 PROVE ~Made(x)
    OBVIOUS
  <2>1. x[1] \in Generations /\ x[1] > current /\ x[2] \in Nat
    BY ShardParts, ConstantsAssumption DEF IInv, Types, Generations
  <2> QED BY <2>1 DEF IInv, InTurn, Made
<1>8. ASSUME NEW n, width' = [width EXCEPT ![current + 1] = n] PROVE WidthsKept
  BY <1>7, <1>8, ShardParts DEF WidthsKept, IInv, Types
<1>9. CASE ReshardLoop
  <2>1. UNCHANGED <<queue, pending, appended, dropped, succeeded, failed, received>>
    BY <1>9 DEF ReshardLoop, ReshardSwap, ReshardStop, ReshardStart, ReshardLoopQuits,
        shardVars, countVars
  <2>2. width' = width \/ \E n : width' = [width EXCEPT ![current + 1] = n]
    BY <1>9 DEF ReshardLoop, ReshardSwap, ReshardStop, ReshardStart, ReshardLoopQuits,
        shardVars
  <2> QED BY <1>3, <1>8, <2>1, <2>2 DEF WidthsKept
<1>10. CASE StorageStep
  <2>1. UNCHANGED <<queue, pending, appended, dropped, succeeded, failed, received>>
    BY <1>10 DEF StorageStep, StopShards, CloseReturns, StartManager, StartShards,
        shardVars, countVars
  <2>2. width' = width \/ \E n : width' = [width EXCEPT ![current + 1] = n]
    BY <1>10 DEF StorageStep, StopShards, CloseReturns, StartManager, StartShards,
        shardVars
  <2> QED BY <1>3, <1>8, <2>1, <2>2 DEF WidthsKept
<1> QED BY <1>1, <1>2, <1>4, <1>5, <1>6, <1>9, <1>10 DEF Next

----------------------------------------------------------------------------
\* A sample is in one place of one shard.
LEMMA OnePlace ==
    ASSUME IInv, Ordered, Home, NEW x \in Shards, NEW y \in Shards,
           NEW i \in 1..Len(Line(x)), NEW j \in 1..Len(Line(y)),
           Line(x)[i] = Line(y)[j]
    PROVE  x = y /\ i = j
<1>2. /\ Line(x)[i] \in Elements(Line(x)) /\ Line(y)[j] \in Elements(Line(y))
      /\ Line(x)[i][2] \in Nat /\ i \in Nat /\ j \in Nat
  BY LineFacts
<1>3. x[1] \in Nat /\ y[1] \in Nat
  BY ShardParts DEF Generations
<1>4. ~(x[1] < y[1]) /\ ~(y[1] < x[1])
  BY <1>2 DEF Ordered
<1>5. x = y
  BY <1>2, <1>3, <1>4 DEF Home
<1>6. ~(i < j) /\ ~(j < i)
  BY <1>2, <1>5 DEF Ordered
<1> QED BY <1>2, <1>5, <1>6

\* What a running shard sends is sent in order: a sample that is older than
\* one of its batch, and has no outcome yet, is before it in the batch.
LEMMA OlderInBatch ==
    ASSUME IInv, Ordered, Home, NEW x \in Shards, Running(x),
           NEW a \in 1..Len(pending[x]), NEW u \in Queued,
           u[1] = pending[x][a][1], u[2] < pending[x][a][2]
    PROVE  \E b \in 1..a - 1 : b \in 1..Len(pending[x]) /\ pending[x][b] = u
<1>1. /\ Len(pending[x]) \in Nat
      /\ a \in 1..Len(Line(x)) /\ Line(x)[a] = pending[x][a]
      /\ Line(x)[a][2] \in Nat /\ a \in Nat /\ Line(x)[a] \in Elements(Line(x))
  BY LineFacts
<1>2. PICK y \in Shards : u \in Elements(Line(y))
  BY QueuedLines
<1>3. PICK c \in 1..Len(Line(y)) : Line(y)[c] = u
  BY <1>2 DEF Elements
<1>4. u[2] \in Nat /\ c \in Nat
  BY <1>3, LineFacts
<1>5. x[1] \in Nat /\ y[1] \in Nat
  BY ShardParts DEF Generations
<1>6. ~(y[1] < x[1])
  <2> SUFFICES ASSUME y[1] < x[1] PROVE FALSE
    OBVIOUS
  <2>1. queue[y] = <<>> /\ pending[y] = <<>>
    BY OneSends DEF OneGenerationSends
  <2>2. Elements(<<>>) = {}
    BY DEF Elements
  <2> QED BY <1>2, <2>1, <2>2, LineFacts DEF InBatch
<1>7. ~(x[1] < y[1])
  <2> SUFFICES ASSUME x[1] < y[1] PROVE FALSE
    OBVIOUS
  <2>1. Line(x)[a][2] < u[2]
    BY <1>1, <1>2 DEF Ordered
  <2> QED BY <1>1, <1>4, <2>1
<1>8. y = x
  BY <1>1, <1>2, <1>5, <1>6, <1>7 DEF Home
<1>9. c # a
  BY <1>1, <1>3, <1>4, <1>8
<1>10. ~(a < c)
  <2> SUFFICES ASSUME a < c PROVE FALSE
    OBVIOUS
  <2>1. Line(x)[a][2] < Line(x)[c][2]
    BY <1>1, <1>3, <1>8 DEF Ordered
  <2> QED BY <1>1, <1>3, <1>4, <1>8, <2>1
<1>11. c \in 1..a - 1 /\ c \in 1..Len(pending[x])
  BY <1>1, <1>4, <1>8, <1>9, <1>10
<1>12. Line(x)[c] = pending[x][c]
  BY <1>11, LineFacts
<1> QED BY <1>3, <1>8, <1>11, <1>12

\* A batch that arrives, whatever becomes of it, keeps the order.
LEMMA ArrivalInOrder ==
    ASSUME IInv, CountTypes, Ordered, Home, Repeats, InOrder,
           NEW x \in Shards, Running(x), received' = received \o pending[x]
    PROVE  /\ InOrder'
           /\ \A u \in Queued : \A i \in 1..Len(received') :
                  received'[i][1] = u[1] /\ u[2] < received'[i][2] =>
                      \E h \in 1..i - 1 : received'[h] = u
<1> DEFINE n == Len(received)
           p == pending[x]
           r == received \o p
<1>1. p \in Seq(Samples) /\ received \in Seq(Samples)
  BY LineFacts DEF CountTypes
<1>2. /\ r \in Seq(Samples) /\ n \in Nat /\ Len(p) \in Nat
      /\ Len(r) = n + Len(p)
      /\ \A i \in 1..n : r[i] = received[i]
      /\ \A i \in 1..Len(p) : r[n + i] = p[i]
      /\ \A i \in 1..Len(r) : i \in 1..n \/ i - n \in 1..Len(p)
  BY <1>1, Concatenation
<1>3. ASSUME NEW u \in Queued, NEW i \in 1..Len(r), r[i][1] = u[1], u[2] < r[i][2]
      PROVE  \E h \in 1..i - 1 : r[h] = u /\ h \in 1..Len(r)
  <2>1. CASE i \in 1..n
    <3>1. PICK h \in 1..i - 1 : received[h] = u
      BY <1>2, <1>3, <2>1 DEF Repeats
    <3>2. h \in 1..n /\ h \in 1..Len(r)
      BY <1>2, <2>1
    <3> QED BY <1>2, <3>1, <3>2
  <2>2. CASE i - n \in 1..Len(p)
    <3>1. n + (i - n) = i
      BY <1>2
    <3>2. r[i] = p[i - n]
      BY <1>2, <2>2, <3>1
    <3>3. PICK a \in 1..Len(p) : a = i - n /\ u[1] = p[a][1] /\ u[2] < p[a][2]
      BY <1>3, <2>2, <3>2
    <3>4. PICK b \in 1..a - 1 : b \in 1..Len(p) /\ p[b] = u
      BY <3>3, OlderInBatch
    <3>5. r[n + b] = u /\ n + b \in 1..i - 1 /\ n + b \in 1..Len(r)
      BY <1>2, <3>3, <3>4
    <3> QED BY <3>5
  <2> QED BY <1>2, <2>1, <2>2
<1>4. ASSUME NEW i \in 1..Len(r), NEW j \in 1..Len(r), i < j,
             r[i][1] = r[j][1], r[j][2] < r[i][2]
      PROVE  \E h \in 1..i - 1 : r[h] = r[j]
  <2>1. CASE j \in 1..n
    <3>1. i \in 1..n
      BY <1>2, <1>4, <2>1
    <3>2. PICK h \in 1..i - 1 : received[h] = received[j]
      BY <1>2, <1>4, <2>1, <3>1 DEF InOrder
    <3>3. h \in 1..n
      BY <1>2, <3>1
    <3> QED BY <1>2, <2>1, <3>2, <3>3
  <2>2. CASE j - n \in 1..Len(p)
    <3>1. n + (j - n) = j
      BY <1>2
    <3>2. r[j] = p[j - n]
      BY <1>2, <2>2, <3>1
    <3>3. r[j] \in Queued
      BY <2>2, <3>2 DEF Queued, InBatch, Elements
    <3> QED BY <1>3, <1>4, <3>3
  <2> QED BY <1>2, <2>1, <2>2
<1> HIDE DEF r
<1>5. received' = r
  BY DEF r
<1>6. InOrder'
  BY <1>4, <1>5 DEF InOrder
<1> QED BY <1>3, <1>5, <1>6

----------------------------------------------------------------------------
\* Everything that is counted is a sample, and none is from the future.
LEMMA Known ==
    ASSUME IInv, OInv
    PROVE  /\ Queued \cup dropped \cup succeeded \cup failed \cup Elements(received)
                  \subseteq Samples
           /\ \A s \in Series :
                  NextSample(s) \notin Queued \cup dropped \cup succeeded \cup failed
<1>1. Queued \subseteq Samples
  <2>1. \A x \in Shards : Elements(Line(x)) \subseteq Samples
    BY LineFacts DEF Elements
  <2> QED BY <2>1, QueuedLines
<1>2. Elements(received) \subseteq Samples
  <2>1. received \in Seq(Samples)
    BY DEF OInv, CountTypes
  <2> QED BY <2>1, ElementOfSeq DEF Elements
<1>3. ASSUME NEW s \in Series, NextSample(s) \in Queued \cup dropped \cup succeeded \cup failed
      PROVE  FALSE
  <2>1. NextSample(s)[2] <= appended[NextSample(s)[1]]
    BY <1>3 DEF OInv, Numbered
  <2>2. NextSample(s)[1] = s /\ NextSample(s)[2] = appended[s] + 1 /\ appended[s] \in Nat
    BY DEF NextSample, IInv, Types
  <2> QED BY <2>1, <2>2
<1> QED BY <1>1, <1>2, <1>3 DEF OInv, CountTypes

LEMMA HomeKept ==
    ASSUME IInv, Home, WidthsKept, NEW x \in Shards, NEW u \in Elements(Line(x))
    PROVE  x = <<x[1], Fingerprint[u[1]] % width'[x[1]]>>
<1>1. Made(x)
  BY LinesMade
<1>2. width'[x[1]] = width[x[1]]
  BY <1>1 DEF WidthsKept
<1> QED BY <1>2 DEF Home, ShardFor

\* Steps that leave the samples in the shards alone.
LEMMA SameLines ==
    ASSUME IInv, IInv', OInv, WidthsKept, LinesKept({})
    PROVE  Ordered' /\ Home' /\ Queued' = Queued
<1>1. \A x \in Shards : Line(x)' = Line(x)
  BY DEF LinesKept
<1>2. Ordered'
  BY <1>1 DEF OInv, Ordered
<1>3. Home'
  BY <1>1, HomeKept DEF OInv, Home, ShardFor
<1>4. Queued' = Queued
  BY <1>1, QueuedLines
<1> QED BY <1>2, <1>3, <1>4

LEMMA NothingOInv ==
    ASSUME IInv, IInv', OInv, WidthsKept, Nothing
    PROVE  OInv'
<1>1. Ordered' /\ Home' /\ Queued' = Queued
  BY SameLines DEF Nothing
<1>2. UNCHANGED <<appended, dropped, succeeded, failed, received>>
  BY DEF Nothing
<1> QED BY <1>1, <1>2 DEF OInv, CountTypes, Numbered, Repeats, InOrder, Accounted

\* One more sample of series s: the number it has is new.
LEMMA OneSampleMore ==
    ASSUME IInv, OInv, NEW s \in Series, NextSample(s) \in Samples,
           appended' = [appended EXCEPT ![s] = @ + 1],
           UNCHANGED <<succeeded, failed, received>>,
           Queued' \cup dropped' = Queued \cup dropped \cup {NextSample(s)}
    PROVE  /\ Numbered'
           /\ \A t \in Series : \A k \in 1..appended'[t] :
                  <<t, k>> \in Queued' \cup dropped' \cup succeeded' \cup failed'
<1>1. /\ \A t \in Series : appended[t] \in Nat /\ appended'[t] \in Nat /\ appended[t] <= appended'[t]
      /\ \A t \in Series : t # s => appended'[t] = appended[t]
      /\ appended'[s] = appended[s] + 1
  BY DEF IInv, Types
<1>2. Numbered'
  <2> SUFFICES ASSUME NEW u \in Queued' \cup dropped' \cup succeeded' \cup failed'
                              \cup Elements(received')
               PROVE  u[2] <= appended'[u[1]]
    BY DEF Numbered
  <2>1. CASE u = NextSample(s)
    BY <1>1, <2>1 DEF NextSample
  <2>2. CASE u # NextSample(s)
    <3>1. u \in Queued \cup dropped \cup succeeded \cup failed \cup Elements(received)
      BY <2>2
    <3>2. u \in Samples /\ u[2] <= appended[u[1]]
      BY <3>1, Known DEF OInv, Numbered
    <3>3. u[1] \in Series /\ u[2] \in Nat
      BY <3>2, SampleParts
    <3> QED BY <1>1, <3>2, <3>3
  <2> QED BY <2>1, <2>2
<1>3. ASSUME NEW t \in Series, NEW k \in 1..appended'[t]
      PROVE  <<t, k>> \in Queued' \cup dropped' \cup succeeded' \cup failed'
  <2>1. CASE t = s /\ k = appended[s] + 1
    BY <2>1 DEF NextSample
  <2>2. CASE ~(t = s /\ k = appended[s] + 1)
    <3>1. k \in 1..appended[t]
      BY <1>1, <2>2
    <3>2. <<t, k>> \in Queued \cup dropped \cup succeeded \cup failed
      BY <3>1 DEF OInv, Accounted
    <3> QED BY <3>2
  <2> QED BY <2>1, <2>2
<1> QED BY <1>2, <1>3

LEMMA DropsOInv ==
    ASSUME IInv, IInv', OInv, WidthsKept, NEW s \in Series, NextSample(s) \in Samples,
           Drops(s)
    PROVE  OInv'
<1>1. Ordered' /\ Home' /\ Queued' = Queued
  BY SameLines DEF Drops
<1>2. /\ dropped' = dropped \cup {NextSample(s)}
      /\ appended' = [appended EXCEPT ![s] = @ + 1]
      /\ UNCHANGED <<succeeded, failed, received>>
  BY DEF Drops
<1>3. /\ Numbered'
      /\ \A t \in Series : \A k \in 1..appended'[t] :
             <<t, k>> \in Queued' \cup dropped' \cup succeeded' \cup failed'
  BY <1>1, <1>2, OneSampleMore
<1>4. NextSample(s) \notin Queued \cup dropped \cup succeeded \cup failed
  BY Known
<1>5. Accounted'
  BY <1>1, <1>2, <1>3, <1>4 DEF OInv, Accounted
<1>6. CountTypes' /\ Repeats' /\ InOrder'
  BY <1>1, <1>2 DEF OInv, CountTypes, Repeats, InOrder
<1> QED BY <1>1, <1>3, <1>5, <1>6 DEF OInv

LEMMA TakesOInv ==
    ASSUME IInv, IInv', OInv, WidthsKept, NEW s \in Series, NextSample(s) \in Samples,
           NEW x \in Shards, Takes(s, x)
    PROVE  OInv' /\ Queued' = Queued \cup {NextSample(s)}
<1> DEFINE e == NextSample(s)
           n == Len(Line(x))
<1>0. e[1] = s /\ e[2] = appended[s] + 1 /\ appended[s] \in Nat
  BY DEF NextSample, IInv, Types
<1>1. /\ \A y \in Shards : y # x => Line(y)' = Line(y)
      /\ Line(x)' = Append(Line(x), e)
      /\ appended' = [appended EXCEPT ![s] = @ + 1]
      /\ UNCHANGED <<dropped, succeeded, failed, received>>
      /\ x[1] = current /\ Made(x) /\ x = ShardFor(s, x[1])
  BY ShardForMade DEF Takes, LinesKept
<1>2. /\ n \in Nat /\ Len(Line(x)') = n + 1
      /\ \A i \in 1..n : Line(x)'[i] = Line(x)[i]
      /\ Line(x)'[n + 1] = e
      /\ Elements(Line(x)') = Elements(Line(x)) \cup {e}
  <2>1. Line(x) \in Seq(Samples)
    BY LineFacts
  <2> HIDE DEF e
  <2>2. e \in Samples
    BY DEF e
  <2> QED BY <1>1, <2>1, <2>2, OneMore
<1>3. Queued' = Queued \cup {e}
  <2>1. \A y \in Shards : y # x => Elements(Line(y)') = Elements(Line(y))
    BY <1>1
  <2> HIDE DEF e, n
  <2> QED BY <1>2, <2>1, QueuedLines
<1>4. \A y \in Shards : \A u \in Elements(Line(y)') :
          u \in Elements(Line(y)) \/ (y = x /\ u = e)
  <2> HIDE DEF e, n
  <2> TAKE y \in Shards
  <2>1. CASE y = x
    BY <1>2, <2>1
  <2>2. CASE y # x
    BY <1>1, <2>2
  <2> QED BY <2>1, <2>2
<1>5. \A y \in Shards : \A u \in Elements(Line(y)) :
          u \in Samples /\ u[2] \in Nat /\ (u[1] = s => u[2] < e[2])
  <2> TAKE y \in Shards
  <2> TAKE u \in Elements(Line(y))
  <2>1. u \in Queued
    BY QueuedLines
  <2>2. u \in Samples /\ u[2] \in Nat /\ u[2] <= appended[u[1]]
    BY <2>1, Known, SampleParts DEF OInv, Numbered
  <2> QED BY <1>0, <2>2
<1>6. Ordered'
  <2>1. ASSUME NEW y \in Shards, NEW i \in 1..Len(Line(y)'), NEW j \in 1..Len(Line(y)'),
               i < j, Line(y)'[i][1] = Line(y)'[j][1]
        PROVE  Line(y)'[i][2] < Line(y)'[j][2]
    <3>1. CASE y # x
      BY <1>1, <2>1, <3>1 DEF OInv, Ordered
    <3>2. CASE y = x /\ j \in 1..n
      <4>1. i \in 1..n
        BY <1>2, <2>1, <3>2
      <4> QED BY <1>2, <2>1, <3>2, <4>1 DEF OInv, Ordered
    <3>3. CASE y = x /\ j = n + 1
      <4>1. i \in 1..n
        BY <1>2, <2>1, <3>3
      <4>2. Line(x)[i] \in Elements(Line(x))
        BY <4>1 DEF Elements
      <4> QED BY <1>0, <1>2, <1>5, <2>1, <3>3, <4>1, <4>2
    <3> QED BY <1>2, <3>1, <3>2, <3>3
  <2>2. ASSUME NEW y \in Shards, NEW z \in Shards, y[1] < z[1],
               NEW u \in Elements(Line(y)'), NEW v \in Elements(Line(z)'), u[1] = v[1]
        PROVE  u[2] < v[2]
    <3>1. y[1] \in Nat /\ z[1] \in Nat
      BY ShardParts DEF Generations
    <3>2. u \in Elements(Line(y)) \/ (y = x /\ u = e)
      BY <1>4
    <3>3. v \in Elements(Line(z)) \/ (z = x /\ v = e)
      BY <1>4
    <3>4. CASE u \in Elements(Line(y)) /\ v \in Elements(Line(z))
      BY <2>2, <3>4 DEF OInv, Ordered
    <3>5. CASE u \in Elements(Line(y)) /\ z = x /\ v = e
      BY <1>0, <1>5, <2>2, <3>5
    <3>6. CASE y = x /\ u = e
      <4>1. z # x /\ ~(z[1] <= current)
        BY <1>1, <2>2, <3>1, <3>6
      <4>2. v \in Elements(Line(z))
        BY <3>3, <4>1
      <4> QED BY <4>1, <4>2, LinesMade
    <3> QED BY <3>2, <3>3, <3>4, <3>5, <3>6
  <2> QED BY <2>1, <2>2 DEF Ordered
<1>7. Home'
  <2> SUFFICES ASSUME NEW y \in Shards, NEW u \in Elements(Line(y)')
               PROVE  y = <<y[1], Fingerprint[u[1]] % width'[y[1]]>>
    BY DEF Home, ShardFor
  <2>1. CASE u \in Elements(Line(y))
    BY <2>1, HomeKept DEF OInv
  <2>2. CASE u \notin Elements(Line(y))
    <3>1. y = x /\ u = e
      BY <1>4, <2>2
    <3>2. width'[x[1]] = width[x[1]]
      BY <1>1 DEF WidthsKept
    <3> QED BY <1>0, <1>1, <3>1, <3>2 DEF ShardFor
  <2> QED BY <2>1, <2>2
<1>8. /\ Numbered'
      /\ \A t \in Series : \A k \in 1..appended'[t] :
             <<t, k>> \in Queued' \cup dropped' \cup succeeded' \cup failed'
  BY <1>1, <1>3, OneSampleMore
<1>9. Accounted'
  BY <1>1, <1>3, <1>8, Known DEF OInv, Accounted
<1>10. Repeats'
  <2> SUFFICES ASSUME NEW u \in Queued', NEW i \in 1..Len(received),
                      received[i][1] = u[1], u[2] < received[i][2]
               PROVE  \E h \in 1..i - 1 : received[h] = u
    BY <1>1 DEF Repeats
  <2>1. CASE u \in Queued
    BY <2>1 DEF OInv, Repeats
  <2>2. CASE u = e
    <3>1. received[i] \in Elements(received)
      BY DEF Elements
    <3>2. received[i][2] \in Nat /\ received[i][2] <= appended[s]
      BY <1>0, <2>2, <3>1, Known, SampleParts DEF OInv, Numbered
    <3> QED BY <1>0, <2>2, <3>2
  <2> QED BY <1>3, <2>1, <2>2
<1>11. CountTypes' /\ InOrder'
  BY <1>1 DEF OInv, CountTypes, InOrder
<1> QED BY <1>3, <1>6, <1>7, <1>8, <1>9, <1>10, <1>11 DEF OInv

LEMMA Arrival ==
    ASSUME IInv, OInv, NEW x \in Shards, received' = received \o pending[x]
    PROVE  /\ received' \in Seq(Samples)
           /\ Elements(received') = Elements(received) \cup InBatch(x)
<1>1. pending[x] \in Seq(Samples) /\ received \in Seq(Samples)
  BY LineFacts DEF OInv, CountTypes
<1> QED BY <1>1, Concatenation DEF InBatch

\* A batch is sent and the answer is a recoverable error, or none.
LEMMA SendsOInv ==
    ASSUME IInv, IInv', OInv, WidthsKept, NEW x \in Shards, Sends(x)
    PROVE  OInv'
<1>1. Ordered' /\ Home' /\ Queued' = Queued
  BY SameLines DEF Sends
<1>2. /\ Running(x) /\ received' = received \o pending[x]
      /\ UNCHANGED <<appended, dropped, succeeded, failed>>
  BY DEF Sends
<1>3. /\ received' \in Seq(Samples)
      /\ Elements(received') = Elements(received) \cup InBatch(x)
  BY <1>2, Arrival
<1>4. InBatch(x) \subseteq Queued
  BY DEF Queued
<1>5. InOrder' /\ Repeats'
  BY <1>1, <1>2, ArrivalInOrder DEF OInv, Repeats
<1>6. CountTypes' /\ Accounted' /\ Numbered'
  BY <1>1, <1>2, <1>3, <1>4 DEF OInv, CountTypes, Accounted, Numbered
<1> QED BY <1>1, <1>3, <1>5, <1>6 DEF OInv

\* A batch is settled: its samples leave the shard and get their outcome.
LEMMA SettlesOInv ==
    ASSUME IInv, IInv', OInv, WidthsKept, NEW x \in Shards, Settles(x)
    PROVE  /\ OInv'
           /\ Queued' = Queued \ InBatch(x)
<1> DEFINE n == Len(pending[x])
           p == pending[x]
           q == queue[x]
<1>1. /\ Running(x) /\ UNCHANGED <<appended, dropped>>
      /\ \A y \in Shards : y # x => Line(y)' = Line(y)
      /\ Line(x)' = q
  BY DEF Settles, LinesKept
<1>2. /\ p \in Seq(Samples) /\ q \in Seq(Samples) /\ n \in Nat
      /\ Elements(Line(x)) = InBatch(x) \cup Elements(q)
      /\ \A i \in 1..n : i \in 1..Len(Line(x)) /\ Line(x)[i] = p[i]
      /\ \A i \in 1..Len(q) : n + i \in 1..Len(Line(x)) /\ Line(x)[n + i] = q[i]
  BY LineFacts
<1>3. \A y \in Shards : Elements(Line(y)') \subseteq Elements(Line(y))
  BY <1>1, <1>2
<1>4. \A y \in Shards : Elements(Line(y)') \cap InBatch(x) = {}
  <2> SUFFICES ASSUME NEW y \in Shards, NEW j \in 1..Len(Line(y)'), NEW i \in 1..n,
                      Line(y)'[j] = p[i]
               PROVE  FALSE
    BY DEF Elements, InBatch
  <2>1. i \in 1..Len(Line(x)) /\ Line(x)[i] = p[i] /\ i \in Nat /\ i <= n
    BY <1>2
  <2>2. CASE y = x
    <3>1. j \in 1..Len(q) /\ Line(x)[n + j] = p[i] /\ n + j \in 1..Len(Line(x))
      BY <1>1, <1>2, <2>2
    <3>2. n + j = i
      BY <2>1, <3>1, OnePlace DEF OInv
    <3> QED BY <1>2, <2>1, <3>1, <3>2
  <2>3. CASE y # x
    <3>1. Line(y)' = Line(y)
      BY <1>1, <2>3
    <3> QED BY <2>1, <2>3, <3>1, OnePlace DEF OInv
  <2> QED BY <2>2, <2>3
<1>5. Queued' = Queued \ InBatch(x)
  <2>1. \A y \in Shards : Elements(Line(y)) \subseteq Elements(Line(y)') \cup InBatch(x)
    BY <1>1, <1>2
  <2> QED BY <1>3, <1>4, <2>1, QueuedLines
<1>6. Ordered'
  <2>1. ASSUME NEW y \in Shards, NEW i \in 1..Len(Line(y)'), NEW j \in 1..Len(Line(y)'),
               i < j, Line(y)'[i][1] = Line(y)'[j][1]
        PROVE  Line(y)'[i][2] < Line(y)'[j][2]
    <3>1. CASE y # x
      BY <1>1, <2>1, <3>1 DEF OInv, Ordered
    <3>2. CASE y = x
      <4>1. /\ i \in 1..Len(q) /\ j \in 1..Len(q)
            /\ Line(y)'[i] = q[i] /\ Line(y)'[j] = q[j]
        BY <1>1, <2>1, <3>2
      <4>2. /\ n + i \in 1..Len(Line(x)) /\ n + j \in 1..Len(Line(x)) /\ n + i < n + j
            /\ Line(x)[n + i] = q[i] /\ Line(x)[n + j] = q[j]
        BY <1>2, <2>1, <4>1
      <4> QED BY <2>1, <4>1, <4>2 DEF OInv, Ordered
    <3> QED BY <3>1, <3>2
  <2>2. ASSUME NEW y \in Shards, NEW z \in Shards, y[1] < z[1],
               NEW u \in Elements(Line(y)'), NEW v \in Elements(Line(z)'), u[1] = v[1]
        PROVE  u[2] < v[2]
    BY <1>3, <2>2 DEF OInv, Ordered
  <2> QED BY <2>1, <2>2 DEF Ordered
<1>7. Home'
  <2> SUFFICES ASSUME NEW y \in Shards, NEW u \in Elements(Line(y)')
               PROVE  y = <<y[1], Fingerprint[u[1]] % width'[y[1]]>>
    BY DEF Home, ShardFor
  <2> QED BY <1>3, HomeKept DEF OInv
<1>8. InBatch(x) \subseteq Queued /\ InBatch(x) \subseteq Samples
  BY Known DEF Queued
<1>9. CASE /\ received' = received \o pending[x]
           /\ succeeded' = succeeded \cup InBatch(x)
           /\ failed' = failed
  <2>1. /\ received' \in Seq(Samples)
        /\ Elements(received') = Elements(received) \cup InBatch(x)
    BY <1>9, Arrival
  <2>2. InOrder' /\ Repeats'
    BY <1>1, <1>5, <1>9, ArrivalInOrder DEF OInv, Repeats
  <2>3. CountTypes' /\ Accounted' /\ Numbered'
    BY <1>1, <1>5, <1>8, <1>9, <2>1 DEF OInv, CountTypes, Accounted, Numbered
  <2> QED BY <1>5, <1>6, <1>7, <2>1, <2>2, <2>3 DEF OInv
<1>10. CASE /\ failed' = failed \cup InBatch(x)
            /\ UNCHANGED <<succeeded, received>>
  <2>1. InOrder' /\ Repeats'
    BY <1>5, <1>10 DEF OInv, Repeats, InOrder
  <2>2. CountTypes' /\ Accounted' /\ Numbered'
    BY <1>1, <1>5, <1>8, <1>10 DEF OInv, CountTypes, Accounted, Numbered
  <2> QED BY <1>5, <1>6, <1>7, <1>10, <2>1, <2>2 DEF OInv
<1> QED BY <1>9, <1>10 DEF Settles

LEMMA InitOInv == Init => OInv
<1> SUFFICES ASSUME Init PROVE OInv
  OBVIOUS
<1>1. /\ queue = [x \in Shards |-> <<>>] /\ pending = [x \in Shards |-> <<>>]
      /\ received = <<>> /\ dropped = {} /\ succeeded = {} /\ failed = {}
      /\ appended = [s \in Series |-> 0]
  BY DEF Init
<1>2. Elements(<<>>) = {} /\ Elements(received) = {}
  BY <1>1 DEF Elements
<1>3. Queued = {}
  BY <1>1, <1>2 DEF Queued, InBatch
<1>4. \A x \in Shards : Line(x) = <<>> /\ Elements(Line(x)) = {}
  BY <1>1, <1>2 DEF Line
<1>5. Ordered /\ Home
  BY <1>4 DEF Ordered, Home
<1>6. CountTypes /\ Numbered /\ Repeats
  BY <1>1, <1>2, <1>3 DEF CountTypes, Numbered, Repeats
<1>7. InOrder /\ Accounted
  BY <1>1, <1>2, <1>3 DEF InOrder, Accounted
<1> QED BY <1>5, <1>6, <1>7 DEF OInv

LEMMA NextOInv ==
    ASSUME IInv, OInv, [Next]_vars
    PROVE  OInv'
<1>1. IInv' /\ Effect
  BY NextIInv, StepEffect
<1>2. WidthsKept
  BY <1>1 DEF Effect
<1>3. ASSUME NEW s \in Series, NextSample(s) \in Samples, Drops(s) PROVE OInv'
  BY <1>1, <1>2, <1>3, DropsOInv
<1>4. ASSUME NEW s \in Series, NextSample(s) \in Samples, NEW x \in Shards, Takes(s, x)
      PROVE  OInv'
  BY <1>1, <1>2, <1>4, TakesOInv
<1>5. ASSUME NEW x \in Shards, Sends(x) PROVE OInv'
  BY <1>1, <1>2, <1>5, SendsOInv
<1>6. ASSUME NEW x \in Shards, Settles(x) PROVE OInv'
  BY <1>1, <1>2, <1>6, SettlesOInv
<1>7. CASE Nothing
  BY <1>1, <1>2, <1>7, NothingOInv
<1> QED BY <1>1, <1>3, <1>4, <1>5, <1>6, <1>7 DEF Effect

LEMMA OrderHolds == Spec => [](IInv /\ OInv)
<1>1. Init => IInv /\ OInv
  BY InitIInv, InitOInv
<1>2. (IInv /\ OInv) /\ [Next]_vars => (IInv /\ OInv)'
  BY NextIInv, NextOInv
<1> QED BY <1>1, <1>2, PTL DEF Spec

\* The samples of a series arrive in the order in which they were appended,
\* over any number of reshards, reloads, drops, retries and failures.
THEOREM DeliveredInOrder == Spec => []InOrder
<1>1. OInv => InOrder
  BY DEF OInv
<1> QED BY <1>1, OrderHolds, PTL

\* Every sample given to Append is queued or in exactly one counter.
THEOREM EverySampleAccounted == Spec => []Accounted
<1>1. OInv => Accounted
  BY DEF OInv
<1> QED BY <1>1, OrderHolds, PTL

----------------------------------------------------------------------------
\* What TypeOK says beyond the types in IInv and OInv.
Bounds ==
    /\ \A x \in Shards : Len(queue[x]) <= Capacity
    /\ \A x \in Shards : Len(pending[x]) <= MaxSamplesPerSend
    /\ \A x \in Shards : ~Sending(x) => Len(pending[x]) < MaxSamplesPerSend
    /\ retries \in [Shards -> 0..MaxRetries]
    /\ updater \in {"select", "done"}
    /\ \A s \in Series : appended[s] <= MaxSamples[s]

LEMMA InitBounds == Init => Bounds
<1> SUFFICES ASSUME Init PROVE Bounds
  OBVIOUS
<1>1. \A x \in Shards : Len(queue[x]) = 0 /\ Len(pending[x]) = 0
  BY DEF Init
<1> QED BY <1>1, ConstantsAssumption DEF Init, Bounds

\* A step of shard x that leaves the other shards alone.
LEMMA ShardBounds ==
    ASSUME IInv, Bounds, NEW x \in Shards, NEW q, NEW b, NEW p, NEW r \in 0..MaxRetries,
           queue' = [queue EXCEPT ![x] = q], Len(q) <= Capacity,
           pending' = [pending EXCEPT ![x] = b], Len(b) <= MaxSamplesPerSend,
           pc' = [pc EXCEPT ![x] = p],
           p \notin {"send", "flush"} => Len(b) < MaxSamplesPerSend,
           retries' = [retries EXCEPT ![x] = r],
           UNCHANGED <<updater, appended>>
    PROVE  Bounds'
BY DEF Bounds, Sending, IInv, Types

LEMMA RunShardBounds ==
    ASSUME IInv, Bounds, NEW x \in Shards, RunShard(x)
    PROVE  Bounds'
<1>0. /\ queue \in [Shards -> Seq(Samples)] /\ pending \in [Shards -> Seq(Samples)]
      /\ pc \in [Shards -> {"off", "select", "send", "flush", "done"}]
      /\ retries \in [Shards -> 0..MaxRetries] /\ retries[x] \in 0..MaxRetries
      /\ queue[x] \in Seq(Samples) /\ pending[x] \in Seq(Samples)
      /\ MaxRetries \in Nat /\ MaxSamplesPerSend \in Nat \ {0} /\ Capacity \in Nat
      /\ Len(queue[x]) \in Nat /\ Len(pending[x]) \in Nat
      /\ Len(queue[x]) <= Capacity /\ Len(pending[x]) <= MaxSamplesPerSend
      /\ 0 \in 0..MaxRetries /\ MaxRetries \in 0..MaxRetries
  BY ConstantsAssumption DEF IInv, Types, Bounds
<1>1. UNCHANGED <<updater, appended>>
  BY DEF RunShard, ReceiveSample, Deadline, QueueClosed, StoreSucceeds, StoreRecoverable,
      StoreRejected, GiveUp, SendReturns, loopVars
<1>2. CASE ReceiveSample(x)
  <2>1. /\ Len(Tail(queue[x])) <= Capacity
        /\ Len(Append(pending[x], Head(queue[x]))) = Len(pending[x]) + 1
        /\ Len(pending[x]) < MaxSamplesPerSend
    BY <1>0, <1>2 DEF ReceiveSample, Bounds, Sending
  <2>2. PICK p \in {"off", "select", "send", "flush", "done"}, r \in 0..MaxRetries :
            /\ pc' = [pc EXCEPT ![x] = p] /\ retries' = [retries EXCEPT ![x] = r]
            /\ p # "send" => Len(pending[x]) + 1 < MaxSamplesPerSend
    <3>1. CASE Len(pending[x]) + 1 >= MaxSamplesPerSend
      BY <1>0, <1>2, <3>1 DEF ReceiveSample
    <3>2. CASE ~(Len(pending[x]) + 1 >= MaxSamplesPerSend)
      <4>1. UNCHANGED <<pc, retries>>
        BY <1>2, <3>2 DEF ReceiveSample
      <4>2. pc' = [pc EXCEPT ![x] = pc[x]] /\ retries' = [retries EXCEPT ![x] = retries[x]]
        BY <1>0, <4>1
      <4>3. /\ pc[x] \in {"off", "select", "send", "flush", "done"}
            /\ retries[x] \in 0..MaxRetries
            /\ Len(pending[x]) + 1 < MaxSamplesPerSend
        BY <1>0, <3>2
      <4> QED BY <4>2, <4>3
    <3> QED BY <3>1, <3>2
  <2>3. /\ queue' = [queue EXCEPT ![x] = Tail(queue[x])]
        /\ pending' = [pending EXCEPT ![x] = Append(pending[x], Head(queue[x]))]
    BY <1>0, <1>2 DEF ReceiveSample
  <2>4. Len(pending[x]) + 1 <= MaxSamplesPerSend
    BY <1>0, <2>1
  <2> QED BY <1>1, <2>1, <2>2, <2>3, <2>4, ShardBounds
<1>3. CASE Deadline(x) \/ QueueClosed(x) \/ \E arrived \in BOOLEAN : StoreRecoverable(x, arrived)
  <2>1. /\ queue' = [queue EXCEPT ![x] = queue[x]] /\ pending' = [pending EXCEPT ![x] = pending[x]]
    BY <1>0, <1>3 DEF Deadline, QueueClosed, StoreRecoverable
  <2>2. PICK p \in {"off", "select", "send", "flush", "done"}, r \in 0..MaxRetries :
            /\ pc' = [pc EXCEPT ![x] = p] /\ retries' = [retries EXCEPT ![x] = r]
            /\ p \notin {"send", "flush"} => Len(pending[x]) < MaxSamplesPerSend
    <3>1. CASE Deadline(x)
      BY <1>0, <3>1 DEF Deadline
    <3>2. CASE QueueClosed(x) /\ pending[x] = <<>>
      <4>1. pc' = [pc EXCEPT ![x] = "done"] /\ retries' = [retries EXCEPT ![x] = retries[x]]
        BY <1>0, <3>2 DEF QueueClosed
      <4>2. Len(pending[x]) < MaxSamplesPerSend
        BY <1>0, <3>2
      <4> QED BY <1>0, <4>1, <4>2
    <3>3. CASE QueueClosed(x) /\ pending[x] # <<>>
      BY <1>0, <3>3 DEF QueueClosed
    <3>4. CASE \E arrived \in BOOLEAN : StoreRecoverable(x, arrived)
      <4>1. /\ pc' = [pc EXCEPT ![x] = pc[x]] /\ pc[x] \in {"send", "flush"}
            /\ retries' = [retries EXCEPT ![x] = retries[x] - 1] /\ retries[x] > 0
        BY <1>0, <3>4 DEF StoreRecoverable, Sending
      <4>2. retries[x] - 1 \in 0..MaxRetries
        BY <1>0, <4>1
      <4> QED BY <4>1, <4>2
    <3> QED BY <1>3, <3>1, <3>2, <3>3, <3>4
  <2> QED BY <1>0, <1>1, <2>1, <2>2, ShardBounds
<1>4. CASE StoreSucceeds(x) \/ StoreRejected(x) \/ GiveUp(x)
  <2>1. SendReturns(x)
    BY <1>4 DEF StoreSucceeds, StoreRejected, GiveUp
  <2>2. /\ queue' = [queue EXCEPT ![x] = queue[x]] /\ pending' = [pending EXCEPT ![x] = <<>>]
        /\ retries' = [retries EXCEPT ![x] = 0]
    BY <1>0, <2>1 DEF SendReturns
  <2>3. PICK p : pc' = [pc EXCEPT ![x] = p]
    BY <2>1 DEF SendReturns
  <2>4. Len(<<>>) <= MaxSamplesPerSend /\ Len(<<>>) < MaxSamplesPerSend
    BY <1>0
  <2> QED BY <1>0, <1>1, <2>2, <2>3, <2>4, ShardBounds
<1> QED BY <1>2, <1>3, <1>4 DEF RunShard

LEMMA AppendBounds ==
    ASSUME IInv, Bounds, NEW s \in Series, AppendSample(s)
    PROVE  Bounds'
<1>0. /\ UNCHANGED <<pc, pending, retries, updater>>
      /\ queue \in [Shards -> Seq(Samples)] /\ appended \in [Series -> Nat]
      /\ appended[s] < MaxSamples[s] /\ MaxSamples[s] \in Nat /\ Capacity \in Nat
  BY ConstantsAssumption DEF AppendSample, loopVars, IInv, Types
<1>1. PICK x \in Shards : x = ShardFor(s, current)
  BY ShardForMade
<1>2. \A y \in Shards : Len(queue'[y]) <= Capacity
  <2>1. CASE queue' = queue
    BY <2>1 DEF Bounds
  <2>2. CASE queue' # queue
    <3>1. /\ queue' = [queue EXCEPT ![x] = Append(queue[x], NextSample(s))]
          /\ Len(queue[x]) < Capacity
      BY <1>1, <2>2 DEF AppendSample, NextSample
    <3>2. NextSample(s) \in Samples
      BY <1>0 DEF NextSample, Samples
    <3>3. Len(Append(queue[x], NextSample(s))) = Len(queue[x]) + 1 /\ Len(queue[x]) \in Nat
      BY <1>0, <3>2, OneMore
    <3> QED BY <1>0, <3>1, <3>3 DEF Bounds
  <2> QED BY <2>1, <2>2
<1>3. \A t \in Series : appended'[t] <= MaxSamples[t]
  <2>1. appended' = appended \/ appended' = [appended EXCEPT ![s] = @ + 1]
    BY DEF AppendSample
  <2>2. appended[s] + 1 <= MaxSamples[s]
    BY <1>0
  <2> QED BY <1>0, <2>1, <2>2 DEF Bounds
<1> QED BY <1>0, <1>2, <1>3 DEF Bounds, Sending

LEMMA NextBounds ==
    ASSUME IInv, Bounds, [Next]_vars
    PROVE  Bounds'
<1>1. ASSUME NEW s \in Series, AppendSample(s) PROVE Bounds'
  BY <1>1, AppendBounds
<1>2. ASSUME NEW x \in Shards, RunShard(x) PROVE Bounds'
  BY <1>2, RunShardBounds
<1>3. ASSUME UNCHANGED <<queue, pending, appended, retries>>, updater' \in {"select", "done"},
             \A x \in Shards : Sending(x) => Sending(x)'
      PROVE  Bounds'
  BY <1>3 DEF Bounds
<1>4. ASSUME Resharding \/ storage = "start", pc' = Started(current), NEW x \in Shards, Sending(x)
      PROVE  Sending(x)'
  <2>1. x[1] # current
    BY <1>4 DEF IInv, CurrentOff, Sending
  <2> QED BY <1>4, <2>1 DEF Started, ShardsOf, Sending
<1>5. updater \in {"select", "done"}
  BY DEF Bounds
<1>6. CASE UNCHANGED vars
  BY <1>3, <1>5, <1>6 DEF vars, shardVars, loopVars, Sending
<1>7. ASSUME NEW close \in BOOLEAN, BeginStop(close) PROVE Bounds'
  BY <1>3, <1>5, <1>7 DEF BeginStop, shardVars, Sending
<1>8. CASE UpdateShardsLoop
  BY <1>3, <1>5, <1>8 DEF UpdateShardsLoop, CalculateDesiredShards, UpdateShardsLoopQuits,
      shardVars, Sending
<1>9. CASE ReshardLoop
  <2>1. UNCHANGED <<queue, pending, appended, retries, updater>>
    BY <1>9 DEF ReshardLoop, ReshardSwap, ReshardStop, ReshardStart, ReshardLoopQuits, shardVars
  <2>2. pc' = pc \/ (Resharding /\ pc' = Started(current))
    BY <1>9 DEF ReshardLoop, ReshardSwap, ReshardStop, ReshardStart, ReshardLoopQuits, shardVars,
        Resharding
  <2>3. \A x \in Shards : Sending(x) => Sending(x)'
    BY <1>4, <2>2 DEF Sending
  <2> QED BY <1>3, <1>5, <2>1, <2>3
<1>10. CASE StorageStep
  <2>1. UNCHANGED <<queue, pending, appended, retries>> /\ updater' \in {"select", "done"}
    BY <1>5, <1>10 DEF StorageStep, StopShards, CloseReturns, StartManager, StartShards,
        shardVars, loopVars
  <2>2. pc' = pc \/ (storage = "start" /\ pc' = Started(current))
    BY <1>10 DEF StorageStep, StopShards, CloseReturns, StartManager, StartShards, shardVars
  <2>3. \A x \in Shards : Sending(x) => Sending(x)'
    BY <1>4, <2>2 DEF Sending
  <2> QED BY <1>3, <2>1, <2>3
<1> QED BY <1>1, <1>2, <1>6, <1>7, <1>8, <1>9, <1>10 DEF Next

\* Queues and batches never grow beyond the capacities configured, and every
\* variable keeps its type.
THEOREM TypesAndBounds == Spec => []TypeOK
<1>1. Init => IInv /\ Bounds
  BY InitIInv, InitBounds
<1>2. (IInv /\ Bounds) /\ [Next]_vars => (IInv /\ Bounds)'
  BY NextIInv, NextBounds
<1>3. IInv /\ Bounds /\ OInv => TypeOK
  BY DEF IInv, Types, Bounds, OInv, CountTypes, TypeOK
<1> QED BY <1>1, <1>2, <1>3, OrderHolds, PTL DEF Spec

----------------------------------------------------------------------------
\* The refinement.

LEMMA OfSamples ==
    ASSUME NEW s \in Series, NEW A \in SUBSET Samples, NEW k
    PROVE  k \in Of(s, A) <=> <<s, k>> \in A
<1>1. ASSUME k \in Of(s, A) PROVE <<s, k>> \in A
  <2>1. PICK u \in A : u[1] = s /\ k = u[2]
    BY <1>1 DEF Of
  <2>2. u = <<s, k>>
    BY <2>1, SampleParts
  <2> QED BY <2>1, <2>2
<1>2. ASSUME <<s, k>> \in A PROVE k \in Of(s, A)
  BY <1>2 DEF Of
<1> QED BY <1>1, <1>2

LEMMA BySeriesUnion ==
    ASSUME NEW A \in SUBSET Samples, NEW B \in SUBSET Samples
    PROVE  BySeries(A \cup B) = [s \in Series |-> BySeries(A)[s] \cup BySeries(B)[s]]
<1>1. A \cup B \in SUBSET Samples
  OBVIOUS
<1>2. \A s \in Series : Of(s, A \cup B) = Of(s, A) \cup Of(s, B)
  BY <1>1, OfSamples
<1> QED BY <1>2 DEF BySeries

LEMMA BySeriesDifference ==
    ASSUME NEW A \in SUBSET Samples, NEW B \in SUBSET Samples
    PROVE  BySeries(A \ B) = [s \in Series |-> BySeries(A)[s] \ BySeries(B)[s]]
<1>1. A \ B \in SUBSET Samples
  OBVIOUS
<1>2. \A s \in Series : Of(s, A \ B) = Of(s, A) \ Of(s, B)
  BY <1>1, OfSamples
<1> QED BY <1>2 DEF BySeries

\* One more sample.
LEMMA BySeriesNext ==
    ASSUME IInv, NEW s \in Series, NextSample(s) \in Samples, NEW A \in SUBSET Samples
    PROVE  BySeries(A \cup {NextSample(s)})
               = [BySeries(A) EXCEPT ![s] = @ \cup {appended[s] + 1}]
<1>1. {NextSample(s)} \in SUBSET Samples
  OBVIOUS
<1>2. BySeries(A \cup {NextSample(s)})
          = [t \in Series |-> BySeries(A)[t] \cup BySeries({NextSample(s)})[t]]
  BY <1>1, BySeriesUnion
<1>3. \A t \in Series :
          BySeries({NextSample(s)})[t] = IF t = s THEN {appended[s] + 1} ELSE {}
  BY DEF BySeries, Of, NextSample
<1> QED BY <1>2, <1>3 DEF BySeries

LEMMA InitStream == Init => Stream!Init
<1> SUFFICES ASSUME Init PROVE Stream!Init
  OBVIOUS
<1>1. /\ queue = [x \in Shards |-> <<>>] /\ pending = [x \in Shards |-> <<>>]
      /\ received = <<>> /\ dropped = {} /\ succeeded = {} /\ failed = {}
      /\ appended = [s \in Series |-> 0]
  BY DEF Init
<1>2. Elements(<<>>) = {} /\ Elements(received) = {}
  BY <1>1 DEF Elements
<1>3. Queued = {} /\ dropped \cup failed = {}
  BY <1>1, <1>2 DEF Queued, InBatch
<1>4. BySeries({}) = [s \in Series |-> {}]
  BY DEF BySeries, Of
<1> QED BY <1>1, <1>2, <1>3, <1>4 DEF Stream!Init

LEMMA StreamTakes ==
    ASSUME IInv, IInv', OInv, WidthsKept, NEW s \in Series, NextSample(s) \in Samples,
           NEW x \in Shards, Takes(s, x)
    PROVE  Stream!Accept(s)
<1>1. Queued' = Queued \cup {NextSample(s)}
  BY TakesOInv
<1>2. /\ appended' = [appended EXCEPT ![s] = @ + 1]
      /\ UNCHANGED <<dropped, succeeded, failed, received>>
  BY DEF Takes
<1>3. Queued \in SUBSET Samples
  BY Known
<1>4. BySeries(Queued \cup {NextSample(s)})
          = [BySeries(Queued) EXCEPT ![s] = @ \cup {appended[s] + 1}]
  BY <1>3, BySeriesNext
<1> QED BY <1>1, <1>2, <1>4 DEF Stream!Accept

LEMMA StreamDrops ==
    ASSUME IInv, IInv', OInv, WidthsKept, NEW s \in Series, NextSample(s) \in Samples,
           Drops(s)
    PROVE  Stream!Drop(s)
<1>1. Queued' = Queued
  BY SameLines DEF Drops
<1>2. /\ appended' = [appended EXCEPT ![s] = @ + 1]
      /\ dropped' = dropped \cup {NextSample(s)}
      /\ UNCHANGED <<succeeded, failed, received>>
  BY DEF Drops
<1>3. dropped \cup failed \in SUBSET Samples
  BY Known
<1>4. BySeries((dropped \cup failed) \cup {NextSample(s)})
          = [BySeries(dropped \cup failed) EXCEPT ![s] = @ \cup {appended[s] + 1}]
  BY <1>3, BySeriesNext
<1>5. dropped' \cup failed' = (dropped \cup failed) \cup {NextSample(s)}
  BY <1>2
<1> QED BY <1>1, <1>2, <1>4, <1>5 DEF Stream!Drop

\* A batch of a running shard is a batch of the stream.
LEMMA StreamBatch ==
    ASSUME IInv, OInv, NEW x \in Shards, Running(x)
    PROVE  BySeries(InBatch(x)) \in Stream!Batches
<1>1. InBatch(x) \subseteq Queued /\ Queued \subseteq Samples
  BY Known DEF Queued
<1>2. \A s \in Series : Of(s, InBatch(x)) \subseteq Of(s, Queued)
  BY <1>1 DEF Of
<1>3. ASSUME NEW s \in Series, NEW j \in Of(s, InBatch(x)),
             NEW k \in Of(s, Queued) \ Of(s, InBatch(x))
      PROVE  j < k
  <2>1. /\ <<s, j>> \in InBatch(x) /\ <<s, k>> \in Queued
        /\ <<s, k>> \notin InBatch(x)
    BY <1>1, OfSamples
  <2>2. <<s, j>> \in Samples /\ <<s, k>> \in Samples
    BY <1>1, <2>1
  <2>3. j \in Nat /\ k \in Nat
    BY <2>2, SampleParts
  <2>4. PICK a \in 1..Len(pending[x]) : pending[x][a] = <<s, j>>
    BY <2>1 DEF InBatch, Elements
  <2>5. ~(k < j)
    <3> SUFFICES ASSUME k < j PROVE FALSE
      OBVIOUS
    <3>1. PICK u \in Queued : u = <<s, k>>
      BY <2>1
    <3>2. u[1] = pending[x][a][1] /\ u[2] < pending[x][a][2]
      BY <2>4, <3>1
    <3>3. PICK b \in 1..Len(pending[x]) : pending[x][b] = u
      BY <3>2, OlderInBatch DEF OInv
    <3> QED BY <2>1, <3>1, <3>3 DEF InBatch, Elements
  <2>6. k # j
    BY <2>1
  <2> QED BY <2>3, <2>5, <2>6
<1>4. BySeries(InBatch(x)) \in [Series -> SUBSET UNION {BySeries(Queued)[s] : s \in Series}]
  BY <1>2 DEF BySeries
<1> QED BY <1>2, <1>3, <1>4 DEF Stream!Batches, BySeries

LEMMA StreamSends ==
    ASSUME IInv, IInv', OInv, WidthsKept, NEW x \in Shards, Sends(x)
    PROVE  Stream!Arrive(BySeries(InBatch(x)))
<1>1. Queued' = Queued
  BY SameLines DEF Sends
<1>2. UNCHANGED <<appended, dropped, succeeded, failed>>
  BY DEF Sends
<1>3. Elements(received') = Elements(received) \cup InBatch(x)
  BY Arrival DEF Sends
<1>4. BySeries(Elements(received'))
          = [s \in Series |-> BySeries(Elements(received))[s] \cup BySeries(InBatch(x))[s]]
  <2>1. Elements(received) \in SUBSET Samples /\ InBatch(x) \in SUBSET Samples
    BY Known DEF Queued
  <2> QED BY <1>3, <2>1, BySeriesUnion
<1> QED BY <1>1, <1>2, <1>4 DEF Stream!Arrive, Stream!With

LEMMA StreamSettles ==
    ASSUME IInv, IInv', OInv, WidthsKept, NEW x \in Shards, Settles(x)
    PROVE  \E ok \in BOOLEAN : Stream!Settle(BySeries(InBatch(x)), ok)
<1>1. Queued' = Queued \ InBatch(x)
  BY SettlesOInv
<1>2. UNCHANGED <<appended, dropped>>
  BY DEF Settles
<1>3. /\ Elements(received) \in SUBSET Samples /\ InBatch(x) \in SUBSET Samples
      /\ Queued \in SUBSET Samples /\ succeeded \in SUBSET Samples
      /\ dropped \cup failed \in SUBSET Samples
  BY Known DEF Queued
<1>4. BySeries(Queued') = [s \in Series |-> BySeries(Queued)[s] \ BySeries(InBatch(x))[s]]
  BY <1>1, <1>3, BySeriesDifference
<1>5. CASE /\ received' = received \o pending[x]
           /\ succeeded' = succeeded \cup InBatch(x)
           /\ failed' = failed
  <2>1. Elements(received') = Elements(received) \cup InBatch(x)
    BY <1>5, Arrival
  <2>2. BySeries(Elements(received'))
            = [s \in Series |-> BySeries(Elements(received))[s] \cup BySeries(InBatch(x))[s]]
    BY <1>3, <2>1, BySeriesUnion
  <2>3. BySeries(succeeded')
            = [s \in Series |-> BySeries(succeeded)[s] \cup BySeries(InBatch(x))[s]]
    BY <1>3, <1>5, BySeriesUnion
  <2>4. Stream!Settle(BySeries(InBatch(x)), TRUE)
    BY <1>2, <1>4, <1>5, <2>2, <2>3 DEF Stream!Settle, Stream!With
  <2> QED BY <2>4
<1>6. CASE /\ failed' = failed \cup InBatch(x)
           /\ UNCHANGED <<succeeded, received>>
  <2>1. dropped' \cup failed' = (dropped \cup failed) \cup InBatch(x)
    BY <1>2, <1>6
  <2>2. BySeries(dropped' \cup failed')
            = [s \in Series |-> BySeries(dropped \cup failed)[s] \cup BySeries(InBatch(x))[s]]
    BY <1>3, <2>1, BySeriesUnion
  <2>3. Stream!Settle(BySeries(InBatch(x)), FALSE)
    BY <1>2, <1>4, <1>6, <2>2 DEF Stream!Settle, Stream!With
  <2> QED BY <2>3
<1> QED BY <1>5, <1>6 DEF Settles

LEMMA NextStream ==
    ASSUME IInv, OInv, [Next]_vars
    PROVE  [Stream!Next]_(Stream!vars)
<1>1. IInv' /\ Effect
  BY NextIInv, StepEffect
<1>2. WidthsKept
  BY <1>1 DEF Effect
<1>3. ASSUME NEW s \in Series, NextSample(s) \in Samples, Drops(s) PROVE Stream!Next
  BY <1>1, <1>2, <1>3, StreamDrops DEF Stream!Next
<1>4. ASSUME NEW s \in Series, NextSample(s) \in Samples, NEW x \in Shards, Takes(s, x)
      PROVE  Stream!Next
  BY <1>1, <1>2, <1>4, StreamTakes DEF Stream!Next
<1>5. ASSUME NEW x \in Shards, Sends(x) PROVE Stream!Next
  <2>1. Running(x)
    BY <1>5 DEF Sends
  <2> QED BY <1>1, <1>2, <1>5, <2>1, StreamBatch, StreamSends DEF Stream!Next
<1>6. ASSUME NEW x \in Shards, Settles(x) PROVE Stream!Next
  <2>1. Running(x)
    BY <1>6 DEF Settles
  <2> QED BY <1>1, <1>2, <1>6, <2>1, StreamBatch, StreamSettles DEF Stream!Next
<1>7. CASE Nothing
  <2>1. Queued' = Queued
    BY <1>1, <1>2, <1>7, SameLines DEF Nothing
  <2> QED BY <1>7, <2>1 DEF Nothing, Stream!vars
<1> QED BY <1>1, <1>3, <1>4, <1>5, <1>6, <1>7 DEF Effect

\* Shards, reshards and reloads together implement one stream per series that
\* loses and repeats samples but never lets one overtake another.
THEOREM ImplementsStream == Spec => StreamSpec
<1>1. Init => Stream!Init
  BY InitStream
<1>2. IInv /\ OInv /\ [Next]_vars => [Stream!Next]_(Stream!vars)
  BY NextStream
<1> QED BY <1>1, <1>2, OrderHolds, PTL DEF Spec, StreamSpec, Stream!Spec
=============================================================================
