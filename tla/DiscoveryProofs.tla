-------------------------- MODULE DiscoveryProofs ---------------------------
(***************************************************************************)
(* Proof that no update of the target groups is lost between providers,    *)
(* updaters and the consumer, for any number of sets, changes and reloads. *)
(*                                                                         *)
(* What is known about the groups in m.targets follows the map from the    *)
(* updater to the consumer: whoever holds a map holds the groups of now,   *)
(* or a provider is about to set the flag, or, when the updater no longer  *)
(* holds recentlyUpdatedMtx, has set it.                                   *)
(***************************************************************************)
EXTENDS Discovery, TLAPS

Flagging == \E p \in Providers : provider[p] = "flag"

\* A reload that has begun is within the bound.
ReloadBounded == phase = "discovery" => generation < MaxGenerations

\* One updater at a time has recentlyUpdatedMtx.
OneSender ==
    \A p, q \in Providers : updater[p] = "sending" /\ updater[q] = "sending" => p = q

\* Providers of generations to come have not been started.
NotStarted == \A p \in Providers : p[1] > generation => provider[p] = "off"

\* The map that is being sent.
SendingCurrent ==
    Locked => \A s \in Sets : targets[s] \in {None, sending[s]} \/ Flagging

\* The map that the consumer has received.
ReceivedCurrent ==
    consumer = "reload" =>
        \A s \in Sets : targets[s] \in {None, tsets[s]} \/ recentlyUpdated \/ Flagging

IInv ==
    /\ TypeOK
    /\ ReloadBounded
    /\ OneSender
    /\ NotStarted
    /\ SendingCurrent
    /\ ReceivedCurrent
    /\ NoLostUpdate

----------------------------------------------------------------------------
\* Init of the Manager and its consumer satisfies the invariant.
LEMMA InitInvariant == Init => IInv
  <1> SUFFICES ASSUME Init PROVE IInv OBVIOUS
  <1>1. TypeOK
    <2>1. NoGroups \in GroupMap
      BY DEF NoGroups, GroupMap
    <2>2. 0 \in Groups /\ 0 \in 0..MaxGenerations
      BY ConstantsAssumption DEF Groups
    <2> QED BY <2>1, <2>2 DEF Init, TypeOK
  <1>2. ReloadBounded /\ OneSender /\ NotStarted
    BY DEF Init, ReloadBounded, OneSender, NotStarted
  <1>3. SendingCurrent /\ ReceivedCurrent /\ NoLostUpdate
    BY DEF Init, SendingCurrent, ReceivedCurrent, NoLostUpdate, Locked
  <1> QED BY <1>1, <1>2, <1>3 DEF IInv

\* Every step keeps the types of the variables.
LEMMA TypeStep == ASSUME TypeOK, ReloadBounded, [Next]_vars PROVE TypeOK' /\ ReloadBounded'
  <1> USE ConstantsAssumption DEF TypeOK, ReloadBounded, Groups, GroupMap, NoGroups
  <1>1. ASSUME NEW s \in Sets, SourceChanges(s) PROVE TypeOK' /\ ReloadBounded'
    BY <1>1 DEF SourceChanges, providerVars, managerVars, consumerVars
  <1>2. ASSUME NEW new \in SUBSET Sets, ConsumerApplyConfig(new) PROVE TypeOK' /\ ReloadBounded'
    BY <1>2 DEF ConsumerApplyConfig, providerVars, managerVars
  <1>3. CASE ApplyConfig
    <2>1. generation' \in 0..MaxGenerations /\ ReloadBounded'
      BY <1>3 DEF ApplyConfig
    <2>2. /\ provider' \in [Providers -> {"off", "select", "update", "flag", "returned"}]
          /\ updater' \in [Providers -> {"off", "select", "sending", "returned"}]
      BY <1>3 DEF ApplyConfig
    <2> QED BY <1>3, <2>1, <2>2 DEF ApplyConfig, consumerVars
  <1>4. ASSUME NEW p \in Providers, RunProvider(p) PROVE TypeOK' /\ ReloadBounded'
    <2>1. CASE Discover(p)
      BY <2>1 DEF Discover, Providers, managerVars, consumerVars
    <2>2. CASE UpdateGroup(p)
      BY <2>2 DEF UpdateGroup, Providers, consumerVars
    <2>3. CASE SetRecentlyUpdated(p) \/ ProviderReturns(p)
      BY <2>3 DEF SetRecentlyUpdated, ProviderReturns, managerVars, consumerVars
    <2> QED BY <1>4, <2>1, <2>2, <2>3 DEF RunProvider
  <1>5. ASSUME NEW p \in Providers, SendUpdates(p) \/ UpdaterReturns(p) PROVE TypeOK' /\ ReloadBounded'
    BY <1>5 DEF SendUpdates, Tick, Sync, UpdaterReturns, managerVars, consumerVars
  <1>6. CASE Reload
    BY <1>6 DEF Reload, providerVars, managerVars
  <1>7. CASE UNCHANGED vars
    BY <1>7 DEF vars, providerVars, managerVars, consumerVars
  <1> QED BY <1>1, <1>2, <1>3, <1>4, <1>5, <1>6, <1>7 DEF Next

\* Every step of providers, updaters, consumer and reloads keeps the invariant.
LEMMA InvariantStep == ASSUME IInv, [Next]_vars PROVE IInv'
  <1>t. TypeOK' /\ ReloadBounded' BY TypeStep DEF IInv
  <1> USE <1>t DEF IInv, TypeOK, Providers
  <1>1. ASSUME NEW s \in Sets, SourceChanges(s) PROVE IInv'
    BY <1>1 DEF SourceChanges, providerVars, managerVars, consumerVars, OneSender,
                NotStarted, SendingCurrent, ReceivedCurrent, NoLostUpdate, Locked, Flagging
  <1>2. ASSUME NEW new \in SUBSET Sets, ConsumerApplyConfig(new) PROVE IInv'
    BY <1>2 DEF ConsumerApplyConfig, providerVars, managerVars, OneSender,
                NotStarted, SendingCurrent, ReceivedCurrent, NoLostUpdate, Locked, Flagging
  <1>3. CASE ApplyConfig
    <2>1. OneSender'
      BY <1>3 DEF ApplyConfig, OneSender
    <2>2. NotStarted'
      BY <1>3 DEF ApplyConfig, NotStarted
    <2>3. \A s \in Sets : targets'[s] = None
      BY <1>3 DEF ApplyConfig, NoGroups
    <2>4. SendingCurrent' /\ ReceivedCurrent' /\ NoLostUpdate'
      BY <2>3 DEF SendingCurrent, ReceivedCurrent, NoLostUpdate
    <2> QED BY <2>1, <2>2, <2>4
  <1>4. ASSUME NEW p \in Providers, RunProvider(p) PROVE IInv'
    <2>1. CASE Discover(p)
      <3>1. Flagging => Flagging'
        BY <2>1 DEF Discover, Flagging
      <3> QED BY <2>1, <3>1 DEF Discover, managerVars, consumerVars, OneSender,
                NotStarted, SendingCurrent, ReceivedCurrent, NoLostUpdate, Locked, Flagging
    <2>2. CASE UpdateGroup(p)
      <3>1. Flagging'
        BY <2>2 DEF UpdateGroup, Flagging
      <3> QED BY <2>2, <3>1 DEF UpdateGroup, consumerVars, OneSender, NotStarted,
                SendingCurrent, ReceivedCurrent, NoLostUpdate, Locked, Flagging
    <2>3. CASE SetRecentlyUpdated(p)
      BY <2>3 DEF SetRecentlyUpdated, consumerVars, OneSender, NotStarted,
                SendingCurrent, ReceivedCurrent, NoLostUpdate, Locked
    <2>4. CASE ProviderReturns(p)
      <3>1. Flagging => Flagging'
        BY <2>4 DEF ProviderReturns, Flagging
      <3> QED BY <2>4, <3>1 DEF ProviderReturns, Cancelled, managerVars, consumerVars,
                OneSender, NotStarted, SendingCurrent, ReceivedCurrent, NoLostUpdate,
                Locked, Flagging
    <2> QED BY <1>4, <2>1, <2>2, <2>3, <2>4 DEF RunProvider
  <1>5. ASSUME NEW p \in Providers, Tick(p) PROVE IInv'
    BY <1>5 DEF Tick, consumerVars, OneSender, NotStarted, SendingCurrent,
                ReceivedCurrent, NoLostUpdate, Locked, Flagging
  <1>6. ASSUME NEW p \in Providers, Sync(p) PROVE IInv'
    <2>1. ~Locked'
      BY <1>6 DEF Sync, Locked, OneSender
    <2>2. OneSender' /\ NotStarted' /\ SendingCurrent'
      BY <1>6, <2>1 DEF Sync, OneSender, NotStarted, SendingCurrent, Locked
    <2>3. \A s \in Sets : targets'[s] \in {None, tsets'[s]} \/ Flagging'
      BY <1>6 DEF Sync, SendingCurrent, Locked, Flagging
    <2>4. ReceivedCurrent' /\ NoLostUpdate'
      BY <1>6, <2>3 DEF Sync, ReceivedCurrent, NoLostUpdate, Flagging
    <2> QED BY <2>2, <2>4
  <1>7. ASSUME NEW p \in Providers, UpdaterReturns(p) PROVE IInv'
    BY <1>7 DEF UpdaterReturns, managerVars, consumerVars, OneSender, NotStarted,
                SendingCurrent, ReceivedCurrent, NoLostUpdate, Locked, Flagging
  <1>8. CASE Reload
    <2>1. OneSender' /\ NotStarted' /\ SendingCurrent' /\ ReceivedCurrent'
      BY <1>8 DEF Reload, providerVars, managerVars, OneSender, NotStarted,
                  SendingCurrent, ReceivedCurrent, Locked, Flagging
    <2>2. NoLostUpdate'
      BY <1>8 DEF Reload, providerVars, managerVars, NoLostUpdate, ReceivedCurrent, Flagging
    <2> QED BY <2>1, <2>2
  <1>9. CASE UNCHANGED vars
    BY <1>9 DEF vars, providerVars, managerVars, consumerVars, OneSender,
                NotStarted, SendingCurrent, ReceivedCurrent, NoLostUpdate, Locked, Flagging
  <1> QED BY <1>1, <1>2, <1>3, <1>4, <1>5, <1>6, <1>7, <1>8, <1>9 DEF Next, SendUpdates

\* The groups in m.targets, m.recentlyUpdated, and the maps that runUpdater and
\* the consumer hold keep their types, whatever is reloaded when.
THEOREM DiscoveryTypeCorrect == Spec => []TypeOK
  <1>1. Init => IInv BY InitInvariant
  <1>2. IInv /\ [Next]_vars => IInv' BY InvariantStep
  <1>3. IInv => TypeOK BY DEF IInv
  <1> QED BY <1>1, <1>2, <1>3, PTL DEF Spec

\* runUpdater resets m.recentlyUpdated only when what it has sent is up to date,
\* or the flag is about to be set again: no update is lost.
THEOREM UpdatesNotLost == Spec => []NoLostUpdate
  <1>1. Init => IInv BY InitInvariant
  <1>2. IInv /\ [Next]_vars => IInv' BY InvariantStep
  <1>3. IInv => NoLostUpdate BY DEF IInv
  <1> QED BY <1>1, <1>2, <1>3, PTL DEF Spec
=============================================================================
