------------------------ MODULE CoordinatorLifecycle ------------------------
(***************************************************************************)
(* The life of the integration's config entry: setup, initialize() and its *)
(* failures, the loss of the bridge, the reload it leads to, and unload    *)
(* with disconnect().  Every setup makes a new coordinator; one whose      *)
(* setup failed is forgotten by Home Assistant but keeps its connection.   *)
(* Home Assistant's setup lock, retry timer and reload are external.       *)
(***************************************************************************)
EXTENDS Naturals, FiniteSets

CONSTANTS
    Coordinator,      \* bound: coordinators alive at a time; a name is used again
    User,             \* the task of a reload asked for by the user
    Core,             \* Home Assistant's own setup and retry
    None

ASSUME LifecycleAssumption ==
    /\ Cardinality(Coordinator) >= 3
    /\ Coordinator \intersect {None, User, Core} = {}
    /\ None \notin {User, Core} /\ User # Core

VARIABLES
    entry,            \* state of the config entry
    current,          \* its coordinator
    lock,             \* the task that holds the entry's setup lock
    phase,            \* what that task awaits
    reload,           \* per task: where its async_reload is
    reloadPending,    \* _reload_pending
    conn,             \* a coordinator's connection
    breaking,         \* connections that broke, before their close callbacks
    person, daily     \* person recovery and the daily refresh

Task == Coordinator \union {User, Core}
entryVars == <<entry, current, lock, phase>>
workVars == <<person, daily>>
lifecycleVars == <<entryVars, reload, reloadPending, conn, breaking, workVars>>

LifecycleInit ==
    /\ entry = "not_loaded" /\ current = None
    /\ lock = None /\ phase = "none"
    /\ reload = [t \in Task |-> "none"]
    /\ reloadPending = [c \in Coordinator |-> FALSE]
    /\ conn = [c \in Coordinator |-> "unused"]
    /\ breaking = {}
    /\ person = [c \in Coordinator |-> "off"]
    /\ daily = [c \in Coordinator |-> "none"]

(* Nothing is left of an earlier use of the name.                          *)
Unused(c) ==
    /\ conn[c] \in {"unused", "lost", "closed"} /\ c # current
    /\ reload[c] = "none" /\ c \notin breaking

(* Bound on outages and failures: a name is left for every setup to come.  *)
NamesSuffice == Cardinality({c \in Coordinator : Unused(c)}) >= 2

-----------------------------------------------------------------------------
(* Setup, by the task that holds the lock.                                 *)

(* Which name is taken makes no difference.                                *)
Fresh == CHOOSE c \in Coordinator : Unused(c)

(* async_setup_entry: a new coordinator takes the registered one's place.  *)
BeginSetup ==
    /\ \E c \in Coordinator : Unused(c)
    /\ entry' = "setup" /\ current' = Fresh /\ phase' = "connect"
    /\ reloadPending' = [reloadPending EXCEPT ![Fresh] = FALSE]
    /\ conn' = [conn EXCEPT ![Fresh] = "unused"]
    /\ UNCHANGED <<breaking, workVars>>

FirstSetup ==
    /\ entry \in {"not_loaded", "retry"} /\ lock = None
    /\ BeginSetup
    /\ lock' = Core
    /\ UNCHANGED reload

(* defect: who held the lock goes on as if it had it.                      *)
ReleaseLockOnly ==
    /\ lock' = None /\ phase' = "none"
    /\ UNCHANGED <<reload, reloadPending>>

(* The end of the task's setup; _async_reload resets its own flag.         *)
ReleaseLock ==
    /\ lock' = None /\ phase' = "none"
    /\ reload' = [reload EXCEPT ![lock] = "none"]
    /\ reloadPending' = IF lock \in {User, Core} THEN reloadPending
                        ELSE [reloadPending EXCEPT ![lock] = FALSE]

SetupFails(state) ==
    /\ entry' = state
    /\ ReleaseLock
    /\ UNCHANGED <<current, conn, breaking, workVars>>

Connect ==
    /\ entry = "setup" /\ phase = "connect"
    /\ \/ /\ phase' = "inventory"
          /\ conn' = [conn EXCEPT ![current] = "up"]
          /\ UNCHANGED <<entry, current, lock, reload, reloadPending, breaking, workVars>>
       \/ SetupFails("retry")

(* The driver is connected and the inventory complete, or a captcha or a   *)
(* code is wanted.                                                         *)
InventoryEnds ==
    /\ entry = "setup" /\ phase = "inventory" /\ conn[current] = "up"
    /\ \/ /\ phase' = "restore"
          /\ UNCHANGED <<entry, current, lock, reload, reloadPending, conn, breaking, workVars>>
       \/ NamesSuffice /\ SetupFails("auth")

(* The driver is not connected, the connection lost, or 180 seconds over:  *)
(* the client is not disconnected.                                         *)
NotReady ==
    /\ entry = "setup" /\ phase \in {"inventory", "restore"}
    /\ conn[current] = "lost" \/ NamesSuffice
    /\ SetupFails("retry")

(* The snapshots are restored; person recovery and the maintenance timer   *)
(* are set and the entities created.                                       *)
InitializeEnds ==
    /\ entry = "setup" /\ phase = "restore"
    /\ entry' = "loaded"
    /\ ReleaseLock
    /\ person' = [person EXCEPT ![current] = "armed"]
    /\ daily' = [daily EXCEPT ![current] = "timer"]
    /\ UNCHANGED <<current, conn, breaking>>

SetupStep == Connect \/ InventoryEnds \/ NotReady \/ InitializeEnds

-----------------------------------------------------------------------------
(* Loss of the bridge and the reload.                                      *)

(* Connections break together, or one alone.                               *)
Outage ==
    /\ breaking = {} /\ NamesSuffice
    /\ \E some \in SUBSET {c \in Coordinator : conn[c] = "up"} :
          some # {} /\ breaking' = some
    /\ UNCHANGED <<entryVars, reload, reloadPending, conn, workVars>>

(* defect: the flag is one for all coordinators.                           *)
AnyReloadPending(c) == \E d \in Coordinator : reloadPending[d]

AlreadyPending(c) == reloadPending[c]

(* _on_error: the event it fires starts _async_reload at once.             *)
OnError(c) ==
    IF AlreadyPending(c) THEN UNCHANGED <<reloadPending, reload>>
    ELSE /\ reloadPending' = [reloadPending EXCEPT ![c] = TRUE]
         /\ reload' = [reload EXCEPT ![c] = "sleeping"]

(* The close callback; a client being disconnected calls nobody.           *)
ConnectionCloses(c) ==
    /\ c \in breaking
    /\ breaking' = breaking \ {c}
    /\ conn' = [conn EXCEPT ![c] = IF @ = "up" THEN "lost" ELSE @]
    /\ IF conn[c] = "up" THEN OnError(c) ELSE UNCHANGED <<reloadPending, reload>>
    /\ UNCHANGED <<entryVars, workVars>>

ReloadWakes(c) ==
    /\ reload[c] = "sleeping"
    /\ reload' = [reload EXCEPT ![c] = "waiting"]
    /\ UNCHANGED <<entryVars, reloadPending, conn, breaking, workVars>>

UserReloads ==
    /\ entry \in {"loaded", "auth"} /\ reload[User] = "none"
    /\ reload' = [reload EXCEPT ![User] = "waiting"]
    /\ UNCHANGED <<entryVars, reloadPending, conn, breaking, workVars>>

(* The code or captcha was entered and the entry still waits for it.       *)
ReauthReloads ==
    /\ entry = "auth" /\ reload[User] = "none" /\ conn[current] \in {"up", "lost"}
    /\ conn' = [conn EXCEPT ![current] = "closed"]
    /\ reload' = [reload EXCEPT ![User] = "waiting"]
    /\ UNCHANGED <<entryVars, reloadPending, breaking, workVars>>

(* async_reload has the lock: a loaded entry is unloaded first, platforms  *)
(* and coordinator; of any other entry nothing is called.                  *)
ReloadBegins(t) ==
    /\ reload[t] = "waiting" /\ lock = None
    /\ lock' = t
    /\ reload' = [reload EXCEPT ![t] = "running"]
    /\ IF entry = "loaded"
       THEN /\ phase' = "platforms" /\ entry' = "unload"
            /\ UNCHANGED <<current, reloadPending, conn, breaking, workVars>>
       ELSE BeginSetup

-----------------------------------------------------------------------------
(* disconnect(), between its awaits, then the new setup.                   *)

Awaits(from, to) == phase = from /\ phase' = to

(* defect: the listeners of the recovery stay on the products.             *)
CancelPersonTask == person' = [person EXCEPT ![current] = "armed"]

(* Listeners and timers are removed and the recovery is cancelled.         *)
CancelPerson == person' = [person EXCEPT ![current] = "off"]

DisconnectBegins ==
    /\ Awaits("platforms", "person")
    /\ CancelPerson
    /\ UNCHANGED <<conn, daily>>

DisconnectDaily ==
    /\ Awaits("person", "daily")
    /\ daily' = [daily EXCEPT ![current] = "none"]
    /\ UNCHANGED <<conn, person>>

(* The snapshot writer is awaited too, then the API's callback goes.       *)
DisconnectApi ==
    /\ Awaits("daily", "close")
    /\ conn' = [conn EXCEPT ![current] = "closing"]
    /\ UNCHANGED workVars

DisconnectStep ==
    /\ entry = "unload"
    /\ DisconnectBegins \/ DisconnectDaily \/ DisconnectApi
    /\ UNCHANGED <<entry, current, lock, reload, reloadPending, breaking>>

Disconnected ==
    /\ entry = "unload" /\ phase = "close"
    /\ phase' = "unloaded"
    /\ conn' = [conn EXCEPT ![current] = "closed"]
    /\ UNCHANGED <<entry, current, lock, reload, reloadPending, breaking, workVars>>

SetupAgain ==
    /\ entry = "unload" /\ phase = "unloaded"
    /\ BeginSetup
    /\ UNCHANGED <<lock, reload>>

-----------------------------------------------------------------------------
(* A coordinator's work.  Events are applied until its API is disconnected.*)

Applies(c) == conn[c] \in {"up", "lost"} /\ (c = current \/ conn[c] = "up")

(* Motion, as the recovery's listener sees it.                             *)
MotionSeen(c) ==
    /\ Applies(c) /\ person[c] = "armed"
    /\ person' = [person EXCEPT ![c] = "running"]
    /\ UNCHANGED <<entryVars, reload, reloadPending, conn, breaking, daily>>

PersonEnds(c) ==
    /\ person[c] = "running"
    /\ person' = [person EXCEPT ![c] = "armed"]
    /\ UNCHANGED <<entryVars, reload, reloadPending, conn, breaking, daily>>

MaintenanceStarts(c) ==
    /\ daily[c] = "timer"
    /\ daily' = [daily EXCEPT ![c] = "running"]
    /\ UNCHANGED <<entryVars, reload, reloadPending, conn, breaking, person>>

LockHolderStep == SetupStep \/ DisconnectStep \/ Disconnected \/ SetupAgain
ReloadStep == \E c \in Coordinator : ConnectionCloses(c) \/ ReloadWakes(c)
ReloadBeginsSome == \E t \in Task : ReloadBegins(t)

LifecycleNext ==
    \/ FirstSetup \/ LockHolderStep \/ ReloadStep \/ ReloadBeginsSome
    \/ Outage \/ UserReloads \/ ReauthReloads
    \/ \E c \in Coordinator : MotionSeen(c) \/ PersonEnds(c) \/ MaintenanceStarts(c)

(* The loop runs what is ready, Home Assistant retries and gives its lock; *)
(* nothing is assumed of the bridge and the user.                          *)
LifecycleSpec ==
    /\ LifecycleInit /\ [][LifecycleNext]_lifecycleVars
    /\ WF_lifecycleVars(FirstSetup) /\ WF_lifecycleVars(LockHolderStep)
    /\ WF_lifecycleVars(ReloadStep) /\ WF_lifecycleVars(ReloadBeginsSome)

-----------------------------------------------------------------------------
(* Type: in particular only a task that reloads, or Home Assistant's own   *)
(* setup, holds the lock, and it awaits something.                         *)
LifecycleTypeOK ==
    /\ entry \in {"not_loaded", "setup", "loaded", "unload", "retry", "auth"}
    /\ current \in Coordinator \union {None}
    /\ lock \in Task \union {None} /\ (lock = None <=> phase = "none")
    /\ lock # None <=> entry \in {"setup", "unload"}
    /\ reload \in [Task -> {"none", "sleeping", "waiting", "running"}]
    /\ \A t \in Task : reload[t] = "running" => lock = t
    /\ reloadPending \in [Coordinator -> BOOLEAN]
    /\ conn \in [Coordinator -> {"unused", "up", "lost", "closing", "closed"}]
    /\ breaking \subseteq Coordinator
    /\ person \in [Coordinator -> {"off", "armed", "running"}]
    /\ daily \in [Coordinator -> {"none", "timer", "running"}]

(* A connection that is lost, before, while or after another reload runs,  *)
(* and a setup that was not ready, are followed by another setup.          *)
LossLeadsToSetup ==
    (entry = "retry" \/ (entry = "loaded" /\ conn[current] = "lost")) ~> entry = "setup"

(* What disconnect() cancelled stays cancelled, although products change   *)
(* and timers fire while it awaits: a retired coordinator neither reads    *)
(* records nor refreshes pictures.                                         *)
RetiredIsQuiet ==
    \A c \in Coordinator : conn[c] = "closed" => person[c] = "off" /\ daily[c] = "none"
=============================================================================
