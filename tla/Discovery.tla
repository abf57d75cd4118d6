----------------------------- MODULE Discovery ------------------------------
(***************************************************************************)
(* Service discovery of Prometheus (busybox-prometheus/discovery): the     *)
(* Manager collects the target groups of its providers and hands maps of   *)
(* all of them to a consumer over the channel syncCh.  The consumer here   *)
(* is the notification manager (reload and ApplyConfig of                  *)
(* notifier/notifier.go), and main.go reloads the two one after the other. *)
(*                                                                         *)
(* Every provider has three goroutines: the discoverer itself, runProvider *)
(* which stores its target groups, and runUpdater which now and then sends *)
(* the map if there was an update.  A reload cancels the providers and     *)
(* starts others, but does not wait for the goroutines of the old ones.    *)
(*                                                                         *)
(* A set of targets has one provider here, with one group.  The group is   *)
(* the number of changes that its source has seen; providers are named     *)
(* <<generation, set>>, where a generation is a call of ApplyConfig.       *)
(***************************************************************************)
EXTENDS Naturals

CONSTANTS
    Sets,            \* names of sets of targets
    None,            \* no target group
    MaxChanges,      \* bound on the changes of each source
    MaxGenerations   \* bound on the reloads

ASSUME ConstantsAssumption ==
    /\ MaxChanges \in Nat /\ MaxGenerations \in Nat
    /\ None \notin Nat

Groups == 0..MaxChanges
GroupMap == [Sets -> Groups \cup {None}]
NoGroups == [s \in Sets |-> None]
Providers == (1..MaxGenerations) \X Sets

VARIABLES
    source,            \* source[s]: what there is to be discovered for s
    phase,             \* reloadConfig: between the consumer and the Manager?
    sets,              \* the sets of the last configuration the consumer has
    generation,        \* calls of the Manager's ApplyConfig
    reported,          \* reported[p]: the group that the discoverer p sent last
    provider,          \* provider[p]: where runProvider of p is
    received,          \* received[p]: the group that runProvider of p holds
    updater,           \* updater[p]: where runUpdater of p is
    targets,           \* m.targets
    recentlyUpdated,   \* m.recentlyUpdated
    sending,           \* the map that an updater is sending
    consumer,          \* the consumer has received a map and not applied it
    tsets,             \* that map
    applied            \* applied[s]: the group the consumer uses for set s

providerVars == <<reported, provider, received, updater>>
managerVars == <<generation, targets, recentlyUpdated, sending>>
consumerVars == <<sets, consumer, tsets, applied>>
vars == <<source, phase, providerVars, managerVars, consumerVars>>

TypeOK ==
    /\ source \in [Sets -> Groups]
    /\ phase \in {"idle", "discovery"}
    /\ sets \subseteq Sets
    /\ generation \in 0..MaxGenerations
    /\ reported \in [Providers -> Groups \cup {None}]
    /\ provider \in [Providers -> {"off", "select", "update", "flag", "returned"}]
    /\ received \in [Providers -> Groups \cup {None}]
    /\ updater \in [Providers -> {"off", "select", "sending", "returned"}]
    /\ targets \in GroupMap /\ sending \in GroupMap /\ tsets \in GroupMap
    /\ recentlyUpdated \in BOOLEAN
    /\ consumer \in {"select", "reload"}
    /\ applied \in GroupMap

Init ==
    /\ source = [s \in Sets |-> 0]
    /\ phase = "idle"
    /\ sets = {} /\ generation = 0
    /\ reported = [p \in Providers |-> None]
    /\ provider = [p \in Providers |-> "off"]
    /\ received = [p \in Providers |-> None]
    /\ updater = [p \in Providers |-> "off"]
    /\ targets = NoGroups /\ sending = NoGroups /\ tsets = NoGroups
    /\ recentlyUpdated = FALSE
    /\ consumer = "select"
    /\ applied = NoGroups

\* The context of p is cancelled when the next generation is applied.
Cancelled(p) == p[1] < generation

\* recentlyUpdatedMtx is held by the updater that is sending.
Locked == \E p \in Providers : updater[p] = "sending"

----------------------------------------------------------------------------
\* Mutants: each is a definition below with one plausible bug, and breaks one
\* of the properties at the end of the module.

\* Mutant: the flag is set without its mutex.
FlagUnlocked(p) ==
    /\ provider[p] = "flag"
    /\ recentlyUpdated' = TRUE
    /\ provider' = [provider EXCEPT ![p] = "select"]
    /\ UNCHANGED <<source, phase, reported, received, updater, generation,
                   targets, sending, consumerVars>>

\* Mutant: an updater is started for the first configuration only.
ApplyConfigOneUpdater ==
    /\ phase = "discovery"
    /\ phase' = "idle"
    /\ generation' = generation + 1
    /\ targets' = NoGroups
    /\ LET new == {generation + 1} \X sets
       IN  /\ provider' = [p \in Providers |-> IF p \in new THEN "select"
                                               ELSE provider[p]]
           /\ updater' = [p \in Providers |->
                             IF p \in new /\ generation = 0 THEN "select"
                             ELSE updater[p]]
    /\ UNCHANGED <<source, reported, received, recentlyUpdated, sending,
                   consumerVars>>

----------------------------------------------------------------------------
\* What there is to be discovered changes.
SourceChanges(s) ==
    /\ source[s] < MaxChanges
    /\ source' = [source EXCEPT ![s] = @ + 1]
    /\ UNCHANGED <<phase, providerVars, managerVars, consumerVars>>

\* reloadConfig: the notification manager makes new, empty sets, ...
ConsumerApplyConfig(new) ==
    /\ phase = "idle"
    /\ generation < MaxGenerations
    /\ phase' = "discovery"
    /\ sets' = new
    /\ applied' = NoGroups
    /\ UNCHANGED <<source, providerVars, managerVars, consumer, tsets>>

\* ... and then the discovery manager cancels its providers, forgets their
\* groups and starts the providers of the new configuration.
ApplyConfig ==
    /\ phase = "discovery"
    /\ phase' = "idle"
    /\ generation' = generation + 1
    /\ targets' = NoGroups
    /\ LET new == {generation + 1} \X sets
       IN  /\ provider' = [p \in Providers |-> IF p \in new THEN "select"
                                               ELSE provider[p]]
           /\ updater' = [p \in Providers |-> IF p \in new THEN "select"
                                              ELSE updater[p]]
    /\ UNCHANGED <<source, reported, received, recentlyUpdated, sending,
                   consumerVars>>

----------------------------------------------------------------------------
\* A discoverer "does guarantee that it sends the new TargetGroup whenever a
\* change happens"; runProvider receives it.  When they are cancelled at the
\* same time, both cases of the select are ready and it may take this one.
Discover(p) ==
    /\ provider[p] = "select"
    /\ reported[p] # source[p[2]]
    /\ reported' = [reported EXCEPT ![p] = source[p[2]]]
    /\ received' = [received EXCEPT ![p] = source[p[2]]]
    /\ provider' = [provider EXCEPT ![p] = "update"]
    /\ UNCHANGED <<source, phase, updater, managerVars, consumerVars>>

\* updateGroup, under m.mtx: the context is not looked at again.
UpdateGroup(p) ==
    /\ provider[p] = "update"
    /\ targets' = [targets EXCEPT ![p[2]] = received[p]]
    /\ provider' = [provider EXCEPT ![p] = "flag"]
    /\ received' = [received EXCEPT ![p] = None]
    /\ UNCHANGED <<source, phase, reported, updater, generation,
                   recentlyUpdated, sending, consumerVars>>

SetRecentlyUpdated(p) ==
    /\ provider[p] = "flag"
    /\ ~Locked
    /\ recentlyUpdated' = TRUE
    /\ provider' = [provider EXCEPT ![p] = "select"]
    /\ UNCHANGED <<source, phase, reported, received, updater, generation,
                   targets, sending, consumerVars>>

ProviderReturns(p) ==
    /\ provider[p] = "select" /\ Cancelled(p)
    /\ provider' = [provider EXCEPT ![p] = "returned"]
    /\ UNCHANGED <<source, phase, reported, received, updater, managerVars,
                   consumerVars>>

----------------------------------------------------------------------------
\* runUpdater.  On a tick, after an update, it takes a copy of all groups and
\* sends it, with recentlyUpdatedMtx locked for as long as that takes.
Tick(p) ==
    /\ updater[p] = "select"
    /\ ~Locked
    /\ recentlyUpdated
    /\ updater' = [updater EXCEPT ![p] = "sending"]
    /\ sending' = targets
    /\ UNCHANGED <<source, phase, reported, provider, received, generation,
                   targets, recentlyUpdated, consumerVars>>

\* The consumer receives the map, and the flag is reset.
Sync(p) ==
    /\ updater[p] = "sending"
    /\ consumer = "select"
    /\ consumer' = "reload"
    /\ tsets' = sending
    /\ updater' = [updater EXCEPT ![p] = "select"]
    /\ recentlyUpdated' = FALSE
    /\ sending' = NoGroups
    /\ UNCHANGED <<source, phase, reported, provider, received, generation,
                   targets, sets, applied>>

UpdaterReturns(p) ==
    /\ updater[p] = "select" /\ Cancelled(p)
    /\ updater' = [updater EXCEPT ![p] = "returned"]
    /\ UNCHANGED <<source, phase, reported, provider, received, managerVars,
                   consumerVars>>

\* The consumer's reload: groups of sets that it does not know are skipped,
\* and sets without groups in the map keep what they have.
Reload ==
    /\ consumer = "reload"
    /\ consumer' = "select"
    /\ applied' = [s \in Sets |-> IF s \in sets /\ tsets[s] # None THEN tsets[s]
                                  ELSE applied[s]]
    /\ tsets' = NoGroups
    /\ UNCHANGED <<source, phase, providerVars, managerVars, sets>>

RunProvider(p) ==
    \/ Discover(p)
    \/ UpdateGroup(p)
    \/ SetRecentlyUpdated(p)
    \/ ProviderReturns(p)

SendUpdates(p) == Tick(p) \/ Sync(p)

Next ==
    \/ \E s \in Sets : SourceChanges(s)
    \/ \E new \in SUBSET Sets : ConsumerApplyConfig(new)
    \/ ApplyConfig
    \/ \E p \in Providers : RunProvider(p) \/ SendUpdates(p) \/ UpdaterReturns(p)
    \/ Reload

Spec == Init /\ [][Next]_vars

\* Goroutines that can run are run, and the consumer comes back to its select.
\* A mutex goes to a goroutine that has waited for long, and select takes the
\* tick of a ticker at some time.
Fairness ==
    /\ WF_vars(ApplyConfig) /\ WF_vars(Reload)
    /\ \A p \in Providers : SF_vars(RunProvider(p)) /\ SF_vars(SendUpdates(p))

FairSpec == Spec /\ Fairness

----------------------------------------------------------------------------
\* No update is lost between providers, updaters and the consumer: a group in
\* m.targets that the consumer does not use will be sent, because the flag is
\* set or will be, or is on its way.
NoLostUpdate ==
    phase = "idle" => \A s \in sets :
        \/ targets[s] \in {None, applied[s]}
        \/ recentlyUpdated
        \/ \E p \in Providers : provider[p] = "flag"
        \/ consumer = "reload" /\ tsets[s] = targets[s]

\* What is in m.targets for a set of the configuration reaches the consumer,
\* unless it changes or the configuration is loaded again.
UpdatesReachConsumer ==
    \A s \in Sets, v \in Groups :
        (phase = "idle" /\ s \in sets /\ targets[s] = v)
            ~> (applied[s] = v \/ targets[s] # v \/ phase # "idle")
=============================================================================
