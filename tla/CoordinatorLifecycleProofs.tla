--------------------- MODULE CoordinatorLifecycleProofs ---------------------
(***************************************************************************)
(* Theorems about CoordinatorLifecycle for every number of coordinators.   *)
(* That a retired coordinator is quiet is not inductive: LifecycleInv adds *)
(* where the entry's setup and unload are, which connection its            *)
(* coordinator has there, and which work can run.                          *)
(***************************************************************************)
EXTENDS CoordinatorLifecycle, TLAPS

(* The lock's holder is at a place of what it does, for a coordinator.     *)
HolderIsSomewhere ==
    /\ entry = "setup" => phase \in {"connect", "inventory", "restore"}
    /\ entry = "unload" =>
         phase \in {"platforms", "person", "daily", "close", "unloaded"}
    /\ IF entry = "not_loaded" THEN current = None ELSE current \in Coordinator

(* From connect() until the API is disconnected the entry's coordinator    *)
(* has a connection of its own, up or lost.                                *)
ConnectionInUse ==
    \/ entry = "loaded"
    \/ entry = "setup" /\ phase \in {"inventory", "restore"}
    \/ entry = "unload" /\ phase \in {"platforms", "person", "daily"}
    => conn[current] \in {"up", "lost"}

Idle(c) == person[c] = "off" /\ daily[c] = "none"

(* Only the coordinator of a loaded entry works, and the work disconnect() *)
(* has cancelled does not start again.                                     *)
WorkFollowsEntry ==
    /\ \A c \in Coordinator : c # current => Idle(c)
    /\ \/ entry \in {"setup", "retry", "auth"}
       \/ entry = "unload" /\ phase \in {"daily", "close", "unloaded"}
       => Idle(current)
    /\ entry = "unload" /\ phase = "person" => person[current] = "off"

LifecycleInv ==
    /\ LifecycleTypeOK
    /\ HolderIsSomewhere
    /\ ConnectionInUse
    /\ WorkFollowsEntry

LEMMA InitEstablishesLifecycleInv == LifecycleInit => LifecycleInv
<1> SUFFICES ASSUME LifecycleInit PROVE LifecycleInv
  OBVIOUS
<1> USE DEF LifecycleInit
<1>1. LifecycleTypeOK
  BY LifecycleAssumption DEF LifecycleAssumption, LifecycleTypeOK
<1>2. HolderIsSomewhere /\ ConnectionInUse /\ WorkFollowsEntry
  BY DEF HolderIsSomewhere, ConnectionInUse, WorkFollowsEntry, Idle
<1> QED  BY <1>1, <1>2 DEF LifecycleInv

(* What a new setup does, by whichever task: it takes a name nothing is    *)
(* left of, so one that neither works nor is the entry's.                  *)
LEMMA SetupTakesUnusedName ==
  ASSUME BeginSetup
  PROVE  /\ Fresh \in Coordinator /\ Fresh # current /\ current' = Fresh
         /\ entry' = "setup" /\ phase' = "connect"
         /\ reloadPending' = [reloadPending EXCEPT ![Fresh] = FALSE]
         /\ conn' = [conn EXCEPT ![Fresh] = "unused"]
         /\ UNCHANGED <<breaking, person, daily>>
<1>1. Fresh \in Coordinator /\ Unused(Fresh)
  BY DEF BeginSetup, Fresh
<1> QED  BY <1>1 DEF BeginSetup, Unused, workVars

LEMMA BeginSetupKeepsLifecycleInv ==
  ASSUME LifecycleInv, FirstSetup \/ SetupAgain \/ \E t \in Task : ReloadBegins(t)
  PROVE  LifecycleInv'
<1> USE LifecycleAssumption DEF LifecycleAssumption, LifecycleInv
<1>1. ASSUME BeginSetup, lock' \in Task, current # None => Idle(current),
             reload' \in [Task -> {"none", "sleeping", "waiting", "running"}],
             \A t \in Task : reload'[t] = "running" => lock' = t
      PROVE  LifecycleInv'
  <2> USE SetupTakesUnusedName, <1>1
  <2>1. LifecycleTypeOK'
    BY DEF LifecycleTypeOK, Task
  <2>2. HolderIsSomewhere' /\ ConnectionInUse'
    BY DEF HolderIsSomewhere, ConnectionInUse
  <2>3. \A c \in Coordinator : Idle(c)
    BY DEF WorkFollowsEntry
  <2>4. WorkFollowsEntry'
    BY <2>3 DEF WorkFollowsEntry, Idle
  <2> QED  BY <2>1, <2>2, <2>4
<1>2. entry \in {"not_loaded", "retry", "auth"} => (current # None => Idle(current))
  BY DEF WorkFollowsEntry, HolderIsSomewhere
<1>3. CASE FirstSetup
  <2>1. BeginSetup /\ lock' \in Task /\ reload' = reload /\ lock = None
        /\ entry \in {"not_loaded", "retry"}
    BY <1>3 DEF FirstSetup, Task
  <2> QED  BY <1>1, <1>2, <2>1 DEF LifecycleTypeOK, Task
<1>4. CASE SetupAgain
  <2>1. BeginSetup /\ lock' = lock /\ reload' = reload /\ entry = "unload" /\ phase = "unloaded"
    BY <1>4 DEF SetupAgain
  <2>2. lock' \in Task /\ Idle(current)
    BY <2>1 DEF LifecycleTypeOK, WorkFollowsEntry
  <2> QED  BY <1>1, <2>1, <2>2 DEF LifecycleTypeOK
<1>5. ASSUME NEW t \in Task, ReloadBegins(t)
      PROVE  LifecycleInv'
  <2>1. /\ lock = None /\ lock' = t /\ reload' = [reload EXCEPT ![t] = "running"]
        /\ entry \notin {"setup", "unload"}
    BY <1>5 DEF ReloadBegins, LifecycleTypeOK
  <2>2. /\ reload' \in [Task -> {"none", "sleeping", "waiting", "running"}]
        /\ \A u \in Task : reload'[u] = "running" => lock' = u
    BY <2>1 DEF LifecycleTypeOK, Task
  <2>3. CASE entry = "loaded"
    <3>1. /\ phase' = "platforms" /\ entry' = "unload"
          /\ UNCHANGED <<current, reloadPending, conn, breaking, person, daily>>
      BY <1>5, <2>3 DEF ReloadBegins, workVars
    <3>2. LifecycleTypeOK'
      BY <2>1, <2>2, <3>1 DEF LifecycleTypeOK, Task
    <3>3. HolderIsSomewhere' /\ ConnectionInUse' /\ WorkFollowsEntry'
      BY <2>3, <3>1 DEF HolderIsSomewhere, ConnectionInUse, WorkFollowsEntry, Idle
    <3> QED  BY <3>2, <3>3
  <2>4. CASE entry # "loaded"
    <3>1. BeginSetup /\ entry \in {"not_loaded", "retry", "auth"}
      BY <1>5, <2>1, <2>4 DEF ReloadBegins, LifecycleTypeOK
    <3> QED  BY <1>1, <1>2, <2>1, <2>2, <3>1
  <2> QED  BY <2>3, <2>4
<1> QED  BY <1>3, <1>4, <1>5

(* The task that holds the lock during setup goes on or ends.              *)
LEMMA SetupStepKeepsLifecycleInv ==
  ASSUME LifecycleInv, SetupStep
  PROVE  LifecycleInv'
<1> USE LifecycleAssumption DEF LifecycleAssumption, LifecycleInv
<1>1. /\ lock \in Task /\ entry = "setup" /\ current \in Coordinator /\ Idle(current)
      /\ None \notin Task
  BY DEF SetupStep, Connect, InventoryEnds, NotReady, InitializeEnds, LifecycleTypeOK,
         HolderIsSomewhere, WorkFollowsEntry, Task
<1>2. ReleaseLock =>
        /\ lock' = None /\ phase' = "none"
        /\ reload' \in [Task -> {"none", "sleeping", "waiting", "running"}]
        /\ \A t \in Task : reload'[t] # "running"
        /\ reloadPending' \in [Coordinator -> BOOLEAN]
  BY <1>1 DEF ReleaseLock, LifecycleTypeOK
<1>3. ASSUME NEW state \in {"retry", "auth"}, SetupFails(state)
      PROVE  LifecycleInv'
  <2>1. /\ entry' = state /\ ReleaseLock
        /\ UNCHANGED <<current, conn, breaking, person, daily>>
    BY <1>3 DEF SetupFails, workVars
  <2>2. LifecycleTypeOK'
    BY <1>2, <2>1 DEF LifecycleTypeOK
  <2>3. HolderIsSomewhere' /\ ConnectionInUse' /\ WorkFollowsEntry'
    BY <1>1, <1>2, <2>1 DEF HolderIsSomewhere, ConnectionInUse, WorkFollowsEntry, Idle
  <2> QED  BY <2>2, <2>3
<1>4. ASSUME UNCHANGED <<entry, current, lock, reload, reloadPending, breaking, workVars>>,
             phase' \in {"inventory", "restore"}, conn'[current] \in {"up", "lost"},
             conn' \in [Coordinator -> {"unused", "up", "lost", "closing", "closed"}]
      PROVE  LifecycleInv'
  <2>1. LifecycleTypeOK'
    BY <1>1, <1>4 DEF LifecycleTypeOK, workVars
  <2>2. HolderIsSomewhere' /\ ConnectionInUse' /\ WorkFollowsEntry'
    BY <1>1, <1>4 DEF HolderIsSomewhere, ConnectionInUse, WorkFollowsEntry, Idle, workVars
  <2> QED  BY <2>1, <2>2
<1>5. CASE Connect
  BY <1>1, <1>3, <1>4, <1>5 DEF Connect, LifecycleTypeOK
<1>6. CASE InventoryEnds
  BY <1>1, <1>3, <1>4, <1>6 DEF InventoryEnds, LifecycleTypeOK
<1>7. CASE NotReady
  BY <1>3, <1>7 DEF NotReady
<1>8. CASE InitializeEnds
  <2>1. /\ entry' = "loaded" /\ ReleaseLock /\ conn[current] \in {"up", "lost"}
        /\ person' = [person EXCEPT ![current] = "armed"]
        /\ daily' = [daily EXCEPT ![current] = "timer"]
        /\ UNCHANGED <<current, conn, breaking>>
    BY <1>8 DEF InitializeEnds, ConnectionInUse
  <2>2. LifecycleTypeOK'
    BY <1>1, <1>2, <2>1 DEF LifecycleTypeOK
  <2>3. HolderIsSomewhere' /\ ConnectionInUse' /\ WorkFollowsEntry'
    BY <1>1, <1>2, <2>1 DEF HolderIsSomewhere, ConnectionInUse, WorkFollowsEntry, Idle,
                            LifecycleTypeOK
  <2> QED  BY <2>2, <2>3
<1> QED  BY <1>5, <1>6, <1>7, <1>8 DEF SetupStep

(* disconnect(), await by await.                                           *)
LEMMA DisconnectKeepsLifecycleInv ==
  ASSUME LifecycleInv, DisconnectStep \/ Disconnected
  PROVE  LifecycleInv'
<1> USE LifecycleAssumption DEF LifecycleAssumption, LifecycleInv
<1>1. /\ entry = "unload" /\ current \in Coordinator
      /\ UNCHANGED <<entry, current, lock, reload, reloadPending, breaking>>
      /\ phase' \in {"person", "daily", "close", "unloaded"}
  BY DEF DisconnectStep, DisconnectBegins, DisconnectDaily, DisconnectApi, Disconnected, Awaits,
         HolderIsSomewhere
<1>2. LifecycleTypeOK'
  BY <1>1 DEF DisconnectStep, DisconnectBegins, DisconnectDaily, DisconnectApi, Disconnected,
         Awaits, CancelPerson, workVars, LifecycleTypeOK
<1>3. HolderIsSomewhere'
  BY <1>1 DEF HolderIsSomewhere
<1>4. ConnectionInUse'
  BY <1>1 DEF DisconnectStep, DisconnectBegins, DisconnectDaily, DisconnectApi, Disconnected,
         Awaits, ConnectionInUse
<1>5. WorkFollowsEntry'
  BY <1>1 DEF DisconnectStep, DisconnectBegins, DisconnectDaily, DisconnectApi, Disconnected,
         Awaits, CancelPerson, workVars, WorkFollowsEntry, Idle, LifecycleTypeOK
<1> QED  BY <1>2, <1>3, <1>4, <1>5

(* Losing connections and asking for reloads.                              *)
LEMMA LossKeepsLifecycleInv ==
  ASSUME LifecycleInv, ReloadStep \/ Outage \/ UserReloads \/ ReauthReloads
  PROVE  LifecycleInv'
<1> USE LifecycleAssumption DEF LifecycleAssumption, LifecycleInv
<1>1. UNCHANGED <<entry, current, lock, phase, person, daily>>
  BY DEF ReloadStep, ConnectionCloses, ReloadWakes, Outage, UserReloads, ReauthReloads,
         entryVars, workVars
<1>2. LifecycleTypeOK'
  <2>1. ASSUME NEW c \in Coordinator, ConnectionCloses(c)
        PROVE  LifecycleTypeOK'
    <3>1. conn' \in [Coordinator -> {"unused", "up", "lost", "closing", "closed"}]
          /\ breaking' \subseteq Coordinator
      BY <2>1 DEF ConnectionCloses, LifecycleTypeOK
    <3>2. \/ reloadPending' = reloadPending /\ reload' = reload
          \/ /\ reloadPending' = [reloadPending EXCEPT ![c] = TRUE]
             /\ reload' = [reload EXCEPT ![c] = "sleeping"]
      BY <2>1 DEF ConnectionCloses, OnError
    <3>3. /\ reloadPending' \in [Coordinator -> BOOLEAN]
          /\ reload' \in [Task -> {"none", "sleeping", "waiting", "running"}]
          /\ \A t \in Task : reload'[t] = "running" => lock = t
      BY <3>2 DEF LifecycleTypeOK, Task
    <3> QED  BY <1>1, <3>1, <3>3 DEF LifecycleTypeOK
  <2>2. CASE (\E c \in Coordinator : ReloadWakes(c)) \/ UserReloads \/ Outage
    BY <1>1, <2>2 DEF ReloadWakes, UserReloads, Outage, LifecycleTypeOK, Task
  <2>3. CASE ReauthReloads
    BY <1>1, <2>3 DEF ReauthReloads, LifecycleTypeOK, Task
  <2> QED  BY <2>1, <2>2, <2>3 DEF ReloadStep
<1>3. HolderIsSomewhere' /\ WorkFollowsEntry'
  BY <1>1 DEF HolderIsSomewhere, WorkFollowsEntry, Idle
<1>4. ConnectionInUse'
  <2>1. ASSUME NEW c \in Coordinator, ConnectionCloses(c), conn[current] \in {"up", "lost"}
        PROVE  conn'[current] \in {"up", "lost"}
    BY <2>1 DEF ConnectionCloses, LifecycleTypeOK
  <2>2. CASE ReauthReloads
    BY <1>1, <2>2 DEF ReauthReloads, ConnectionInUse
  <2>3. CASE (\E c \in Coordinator : ReloadWakes(c)) \/ UserReloads \/ Outage
    BY <1>1, <2>3 DEF ReloadWakes, UserReloads, Outage, ConnectionInUse
  <2> QED  BY <1>1, <2>1, <2>2, <2>3 DEF ReloadStep, ConnectionInUse
<1> QED  BY <1>2, <1>3, <1>4

(* Work goes on only where it was armed.                                   *)
LEMMA WorkKeepsLifecycleInv ==
  ASSUME LifecycleInv, NEW c \in Coordinator,
         MotionSeen(c) \/ PersonEnds(c) \/ MaintenanceStarts(c)
  PROVE  LifecycleInv'
<1> USE DEF LifecycleInv
<1>1. UNCHANGED <<entry, current, lock, phase, reload, reloadPending, conn, breaking>>
  BY DEF MotionSeen, PersonEnds, MaintenanceStarts, entryVars
<1>2. LifecycleTypeOK'
  BY <1>1 DEF MotionSeen, PersonEnds, MaintenanceStarts, LifecycleTypeOK
<1>3. HolderIsSomewhere' /\ ConnectionInUse'
  BY <1>1 DEF HolderIsSomewhere, ConnectionInUse
<1>4. WorkFollowsEntry'
  BY <1>1 DEF MotionSeen, PersonEnds, MaintenanceStarts, WorkFollowsEntry, Idle,
         LifecycleTypeOK
<1> QED  BY <1>2, <1>3, <1>4

LEMMA LifecycleStepKeepsLifecycleInv ==
  LifecycleInv /\ [LifecycleNext]_lifecycleVars => LifecycleInv'
<1> SUFFICES ASSUME LifecycleInv, [LifecycleNext]_lifecycleVars PROVE LifecycleInv'
  OBVIOUS
<1>1. CASE UNCHANGED lifecycleVars
  BY <1>1 DEF lifecycleVars, entryVars, workVars, LifecycleInv, LifecycleTypeOK,
              HolderIsSomewhere, ConnectionInUse, WorkFollowsEntry, Idle
<1>2. CASE LifecycleNext
  BY <1>2, BeginSetupKeepsLifecycleInv, SetupStepKeepsLifecycleInv,
     DisconnectKeepsLifecycleInv, LossKeepsLifecycleInv, WorkKeepsLifecycleInv
     DEF LifecycleNext, LockHolderStep, ReloadBeginsSome
<1> QED  BY <1>1, <1>2

(* The inductive invariant of the config entry's life.                     *)
THEOREM LifecycleInvariant == LifecycleSpec => []LifecycleInv
  BY InitEstablishesLifecycleInv, LifecycleStepKeepsLifecycleInv, PTL DEF LifecycleSpec

(* The variables keep their types, and the setup lock is held exactly      *)
(* while the entry is set up or unloaded.                                  *)
THEOREM LifecycleTypesHold == LifecycleSpec => []LifecycleTypeOK
<1>1. LifecycleInv => LifecycleTypeOK
  BY DEF LifecycleInv
<1> QED  BY <1>1, LifecycleInvariant, PTL

(* What disconnect() cancelled stays cancelled while it awaits and after:  *)
(* a retired coordinator does no work (coordinator.py's disconnect).       *)
THEOREM RetiredStaysQuiet == LifecycleSpec => []RetiredIsQuiet
<1>1. ASSUME LifecycleInv, NEW c \in Coordinator, conn[c] = "closed"
      PROVE  Idle(c)
  <2>1. CASE c # current
    BY <1>1, <2>1 DEF LifecycleInv, WorkFollowsEntry
  <2>2. CASE c = current
    <3>1. /\ entry \in {"setup", "loaded", "unload", "retry", "auth"}
          /\ entry = "unload" =>
               phase \in {"platforms", "person", "daily", "close", "unloaded"}
      BY <1>1, <2>2, LifecycleAssumption
         DEF LifecycleAssumption, LifecycleInv, LifecycleTypeOK, HolderIsSomewhere
    <3>2. entry # "loaded" /\ (entry = "unload" => phase \notin {"platforms", "person", "daily"})
      BY <1>1, <2>2 DEF LifecycleInv, ConnectionInUse
    <3> QED  BY <1>1, <2>2, <3>1, <3>2 DEF LifecycleInv, WorkFollowsEntry
  <2> QED  BY <2>1, <2>2
<1>2. LifecycleInv => RetiredIsQuiet
  BY <1>1 DEF RetiredIsQuiet, Idle
<1> QED  BY <1>2, LifecycleInvariant, PTL

=============================================================================
