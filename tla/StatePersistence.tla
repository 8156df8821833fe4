-------------------------- MODULE StatePersistence --------------------------
(***************************************************************************)
(* How Drove Gateway remembers the DataManager (utils.go): a snapshot in   *)
(* memory, a state file written in the background, its restore at startup  *)
(* (drove.go), and the import of old state when the proxy restarts while   *)
(* controllers are down (SIGUSR2, nixy.go).  The process may crash at any  *)
(* point and is started again; only the file survives.                     *)
(*                                                                         *)
(* The data of a namespace is reduced to the age of the leader and listing *)
(* it was refreshed with, 0 before the first refresh.  A snapshot always   *)
(* has every configured namespace, the ones without data too.  How         *)
(* namespaces are refreshed is the subject of EventPolling, where the      *)
(* startup load is retried.                                                *)
(***************************************************************************)
EXTENDS Naturals, FiniteSets

CONSTANTS
    Namespaces,
    NoState,     \* dataManagerState.state when nil; no state file
    Writers,     \* goroutines started by persistStateToDisk
    MaxCrashes,  \* bound: ends of the process
    MaxEvents,   \* bound: changes of a cluster, outages and SIGUSR2, together
    MaxFaults    \* bound: disk operations and fetches that fail or time out

ASSUME BoundsAssumption == /\ MaxCrashes \in Nat
                           /\ MaxEvents \in Nat /\ MaxFaults \in Nat

Ages == 0 .. MaxEvents + 1
Snapshots == [Namespaces -> Ages]
ASSUME NoStateAssumption == NoState \notin Snapshots

VARIABLES
    cluster,    \* per namespace: age of its controllers' leader and listing
    down,       \* namespaces none of whose endpoints is healthy
    db,         \* the DataManager
    main,       \* program point of waitForFreshDataManagerStateAtStartup
    unsynced,   \* lastUnsyncedNamespaces
    pc,         \* per actor: program point of its refresh and remember
    held,       \* per actor: the state it holds in a local variable
    memory,     \* dataManagerState.state
    inFlight,   \* persistStateToDiskInFlight
    writer,     \* the goroutines of each call of persistStateToDisk
    file,       \* the state file
    handler,    \* program point of the signal goroutine
    offline,    \* the unavailable namespaces it has found
    stale,      \* the state it holds
    reached,    \* observer: namespaces refreshed since the process started
    leaderOnly, \* observer: nothing was refreshed yet, but a new leader found
    restored,   \* observer: the state the startup has restored, or NoState
    behind,     \* observer: why the file may differ from the memory, or "no"
    initial,    \* observer: the file when the process started
    crashes, events, faults

envVars == <<cluster, down>>
startVars == <<main, unsynced>>
actorVars == <<pc, held>>
diskVars == <<inFlight, writer, file>>
signalVars == <<handler, offline, stale>>
observers == <<reached, leaderOnly, restored, behind, initial>>
vars == <<envVars, db, startVars, actorVars, memory, diskVars, signalVars,
          observers, crashes, events, faults>>
----------------------------------------------------------------------------
Actors == {"poller", "startup"}
Idle == [outer |-> "off", inner |-> "off", state |-> NoState]

\* Importing a state gives the namespaces in ns what it has for them, even if
\* that is nothing.
Import(d, s, ns) == [n \in Namespaces |-> IF n \in ns THEN s[n] ELSE d[n]]

Event == events < MaxEvents /\ events' = events + 1 /\ UNCHANGED faults
Fault == faults < MaxFaults /\ faults' = faults + 1 /\ UNCHANGED events

\* A process that has just started knows nothing, whatever it was doing before.
NoData == [n \in Namespaces |-> 0]
AllIdle == [a \in Actors |-> "idle"]
NoneHeld == [a \in Actors |-> NoState]
NoWriter == [w \in Writers |-> Idle]

Init ==
    /\ cluster = [n \in Namespaces |-> 1] /\ down \in SUBSET Namespaces
    /\ db = NoData
    /\ main = "load" /\ unsynced = Namespaces
    /\ pc = AllIdle /\ held = NoneHeld
    /\ memory = NoState
    /\ inFlight = FALSE /\ writer = NoWriter /\ file = NoState
    /\ handler = "idle" /\ offline = {} /\ stale = NoState
    /\ reached = {} /\ leaderOnly = FALSE /\ restored = NoState
    /\ behind = "no" /\ initial = NoState
    /\ crashes = 0 /\ events = 0 /\ faults = 0

Crash ==
    /\ crashes < MaxCrashes /\ crashes' = crashes + 1
    /\ db' = NoData
    /\ main' = "load" /\ unsynced' = Namespaces
    /\ pc' = AllIdle /\ held' = NoneHeld
    /\ memory' = NoState
    /\ inFlight' = FALSE /\ writer' = NoWriter
    /\ handler' = "idle" /\ offline' = {} /\ stale' = NoState
    /\ reached' = {} /\ leaderOnly' = FALSE /\ restored' = NoState
    /\ behind' = "no" /\ initial' = file
    /\ UNCHANGED <<envVars, file, events, faults>>
----------------------------------------------------------------------------
(* The Drove clusters, as the health check sees them.                      *)

EnvFrame == UNCHANGED <<db, startVars, actorVars, memory, diskVars, signalVars,
                        observers, crashes>>

ClusterChange(n) ==
    /\ Event
    /\ cluster' = [cluster EXCEPT ![n] = @ + 1]
    /\ UNCHANGED down /\ EnvFrame

Outage(n) ==
    /\ Event
    /\ n \notin down /\ down' = down \cup {n}
    /\ UNCHANGED cluster /\ EnvFrame

Recovery(n) ==
    /\ n \in down /\ down' = down \ {n}
    /\ UNCHANGED <<cluster, events, faults>> /\ EnvFrame
----------------------------------------------------------------------------
(* Refresh and remember: the poller and the startup load.                  *)

RefreshFrame == UNCHANGED <<envVars, main, held, memory, diskVars, signalVars, behind,
                            crashes, events>>
ActorFrame == UNCHANGED <<envVars, main, signalVars, leaderOnly, restored, initial, crashes,
                          events, faults>>

\* refreshLeaderData and refreshApps: another leader or another listing.  Once
\* every namespace has been refreshed nothing depends on the restored state.
Refresh(a, n) ==
    /\ pc[a] \in {"idle", "export"} /\ n \notin down
    /\ a = "startup" => main = "load"
    /\ db' = [db EXCEPT ![n] = cluster[n]]
    /\ pc' = IF db[n] = cluster[n] THEN pc ELSE [pc EXCEPT ![a] = "export"]
    /\ unsynced' = IF a = "startup" THEN unsynced \ {n} ELSE unsynced
    /\ reached' = reached \cup {n}
    /\ leaderOnly' = FALSE
    /\ IF reached' = Namespaces THEN restored' = NoState /\ initial' = NoState
                               ELSE UNCHANGED <<restored, initial>>
    /\ UNCHANGED faults /\ RefreshFrame

\* A new leader, but fetchApps fails.  A startup load that has nothing else to
\* remember remembers that; a polling round does not.
RefreshFails(n) ==
    /\ main = "load" /\ pc["startup"] = "idle" /\ n \notin down
    /\ db[n] # cluster[n]
    /\ faults < MaxFaults /\ faults' = faults + 1
    /\ pc' = [pc EXCEPT !["startup"] = "export"]
    /\ leaderOnly' = (reached = {})
    /\ UNCHANGED <<db, unsynced, reached, restored, initial>> /\ RefreshFrame

Remembering(a) == pc[a] \in {"store", "persist"}

\* rememberDataManagerState: ExportSnapshot, setDataManagerStateInMemory, the
\* health report and the call of persistStateToDisk follow one another without
\* a lock, so two actors may overtake each other.
Export(a) ==
    /\ pc[a] = "export"
    /\ held' = [held EXCEPT ![a] = db]
    /\ pc' = [pc EXCEPT ![a] = "store"]
    /\ behind' = IF \E b \in Actors \ {a} : Remembering(b) THEN "overlap" ELSE behind
    /\ UNCHANGED <<db, unsynced, memory, diskVars, reached>> /\ ActorFrame

StoreInMemory(a) ==
    /\ pc[a] = "store"
    /\ memory' = held[a]
    /\ pc' = [pc EXCEPT ![a] = "persist"]
    /\ UNCHANGED <<db, unsynced, held, diskVars, observers>> /\ ActorFrame

\* A snapshot that is not written is made good by the next one; a memory and a
\* file from two sources that overtake each other may stay apart.
Lost == IF behind = "no" THEN "lost" ELSE behind
Apart(s) == inFlight \/ file # s \/ \E a \in Actors : Remembering(a)

\* persistStateToDisk drops the snapshot while a write is in flight.
Persist(a) ==
    /\ pc[a] = "persist"
    /\ pc' = [pc EXCEPT ![a] = "idle"] /\ held' = [held EXCEPT ![a] = NoState]
    /\ IF inFlight
       THEN behind' = Lost /\ UNCHANGED <<inFlight, writer>>
       ELSE /\ inFlight' = TRUE
            /\ \E w \in Writers : writer[w] = Idle
            /\ writer' = [writer EXCEPT ![CHOOSE w \in Writers : writer[w] = Idle] =
                  [outer |-> "wait", inner |-> "write", state |-> held[a]]]
            /\ behind' = IF behind = "lost" THEN "no" ELSE behind
    /\ UNCHANGED <<db, unsynced, memory, file, reached>> /\ ActorFrame

Remember(a) == Export(a) \/ StoreInMemory(a) \/ Persist(a)
----------------------------------------------------------------------------
(* The goroutines of one write: one writes, the other waits for it.        *)

WriterFrame == UNCHANGED <<envVars, db, startVars, actorVars, memory, signalVars,
                           reached, leaderOnly, restored, initial, crashes>>

\* Mutant: the temporary file is written but not renamed.
WriteEndsUnrenamed(w) ==
    /\ writer[w].inner = "write"
    /\ writer' = [writer EXCEPT ![w].inner = "ended"]
    /\ UNCHANGED <<file, inFlight, behind, events, faults>> /\ WriterFrame

\* persistStateToDiskSync: a temporary file is written and renamed, or an error
\* leaves the file as it was.
WriteEnds(w) ==
    /\ writer[w].inner = "write"
    /\ file' = writer[w].state
    /\ writer' = [writer EXCEPT ![w].inner = "ended"]
    /\ UNCHANGED <<inFlight, behind, events, faults>> /\ WriterFrame

WriteFails(w) ==
    /\ writer[w].inner = "write" /\ Fault
    /\ writer' = [writer EXCEPT ![w].inner = "ended"]
    /\ behind' = Lost
    /\ UNCHANGED <<file, inFlight>> /\ WriterFrame

\* The result arrives in time and releases the flag.
ResultInTime(w) ==
    /\ writer[w].outer = "wait" /\ writer[w].inner = "ended"
    /\ inFlight' = FALSE
    /\ writer' = [writer EXCEPT ![w] = Idle]
    /\ UNCHANGED <<file, behind, events, faults>> /\ WriterFrame

\* Mutant: the flag is released when the write has timed out.
TimeOutReleases(w) ==
    /\ writer[w].outer = "wait" /\ Fault
    /\ inFlight' = FALSE
    /\ writer' = [writer EXCEPT ![w].outer = "late"]
    /\ UNCHANGED <<file, behind>> /\ WriterFrame

\* The timeout fires; a third goroutine goes on waiting for the result ...
TimeOut(w) ==
    /\ writer[w].outer = "wait" /\ Fault
    /\ writer' = [writer EXCEPT ![w].outer = "late"]
    /\ UNCHANGED <<inFlight, file, behind>> /\ WriterFrame

\* Mutant: nobody waits for a write that has timed out.
LateResultKeepsFlag(w) ==
    /\ writer[w].outer = "late" /\ writer[w].inner = "ended"
    /\ writer' = [writer EXCEPT ![w] = Idle]
    /\ UNCHANGED <<inFlight, file, behind, events, faults>> /\ WriterFrame

\* ... and releases the flag then.
LateResult(w) ==
    /\ writer[w].outer = "late" /\ writer[w].inner = "ended"
    /\ inFlight' = FALSE
    /\ writer' = [writer EXCEPT ![w] = Idle]
    /\ UNCHANGED <<file, behind, events, faults>> /\ WriterFrame

WriterNext(w) == WriteEnds(w) \/ WriteFails(w) \/ ResultInTime(w) \/ TimeOut(w) \/ LateResult(w)
----------------------------------------------------------------------------
(* readPersistedStateFromDisk.                                             *)

ReadSucceeds == file # NoState /\ UNCHANGED <<events, faults>>

\* No file, one that cannot be read or parsed, or a read that times out.
ReadFails == (file = NoState /\ UNCHANGED <<events, faults>>) \/ Fault
----------------------------------------------------------------------------
(* restoreDataManagerStateForNamespaces, in the goroutine of main.         *)

MainFrame == UNCHANGED <<envVars, pc, diskVars, signalVars, reached, leaderOnly, initial,
                         crashes>>

\* A load is retried as a whole: what counts in the end is which namespaces the
\* last one has not refreshed.
LoadAgain ==
    /\ main = "load" /\ pc["startup"] = "idle"
    /\ unsynced # {} /\ unsynced' = Namespaces
    /\ UNCHANGED <<db, main, held, memory, restored, behind, events, faults>> /\ MainFrame

EndLoad ==
    /\ main = "load" /\ pc["startup"] = "idle"
    /\ main' = IF unsynced = {} THEN "running" ELSE "read"
    /\ UNCHANGED <<db, unsynced, held, memory, restored, behind, events, faults>> /\ MainFrame

\* Mutant: the error of the read is ignored.
ReadForRestoreIgnoresError ==
    /\ main = "read"
    /\ (ReadSucceeds \/ ReadFails)
    /\ held' = [held EXCEPT !["startup"] = file]
    /\ main' = "import"
    /\ UNCHANGED <<db, unsynced, memory, restored, behind>> /\ MainFrame

ReadForRestore ==
    /\ main = "read"
    /\ \/ /\ ReadSucceeds
          /\ held' = [held EXCEPT !["startup"] = file]
          /\ main' = "import"
          /\ UNCHANGED unsynced
       \/ ReadFails /\ main' = "running" /\ unsynced' = {} /\ UNCHANGED held
    /\ UNCHANGED <<db, memory, restored, behind>> /\ MainFrame

\* Mutant: namespaces without data of their own are skipped.
ImportAtStartupSkipsEmpty ==
    /\ main = "import"
    /\ db' = Import(db, held["startup"], {n \in unsynced : db[n] # 0})
    /\ main' = "keep"
    /\ UNCHANGED <<unsynced, held, memory, restored, behind, events, faults>> /\ MainFrame

ImportAtStartup ==
    /\ main = "import"
    /\ db' = Import(db, held["startup"], unsynced)
    /\ main' = "keep"
    /\ UNCHANGED <<unsynced, held, memory, restored, behind, events, faults>> /\ MainFrame

KeepRestored ==
    /\ main = "keep"
    /\ memory' = held["startup"]
    /\ held' = [held EXCEPT !["startup"] = NoState]
    /\ main' = "running" /\ unsynced' = {}
    /\ restored' = held["startup"]
    /\ behind' = IF Apart(memory') THEN "overlap" ELSE behind
    /\ UNCHANGED <<db, events, faults>> /\ MainFrame

MainNext == LoadAgain \/ EndLoad \/ ReadForRestore \/ ImportAtStartup \/ KeepRestored
----------------------------------------------------------------------------
(* applyDataManagerStateForOfflineReconcile, in the signal goroutine that  *)
(* main starts last.                                                       *)

SignalFrame == UNCHANGED <<envVars, startVars, actorVars, diskVars, reached, leaderOnly,
                           restored, initial, crashes>>
Handle(l) == handler' = l

ReceiveUSR2 ==
    /\ main = "running" /\ handler = "idle" /\ Event
    /\ down # {}
    /\ offline' = down /\ Handle("state")
    /\ UNCHANGED <<db, memory, stale, behind>> /\ SignalFrame

GetState ==
    /\ handler = "state"
    /\ \/ /\ memory # NoState
          /\ stale' = memory /\ Handle("apply") /\ UNCHANGED <<offline, events, faults>>
       \/ /\ memory = NoState /\ ReadSucceeds
          /\ stale' = file /\ Handle("keep") /\ UNCHANGED offline
       \/ /\ memory = NoState /\ ReadFails
          /\ offline' = {} /\ Handle("idle") /\ UNCHANGED stale
    /\ UNCHANGED <<db, memory, behind>> /\ SignalFrame

\* What came from the file replaces the memory, whatever a poller has put
\* there since.
KeepState ==
    /\ handler = "keep"
    /\ memory' = stale /\ Handle("apply")
    /\ behind' = IF Apart(memory') THEN "overlap" ELSE behind
    /\ UNCHANGED <<db, offline, stale, events, faults>> /\ SignalFrame

ApplyState ==
    /\ handler = "apply"
    /\ db' = Import(db, stale, offline)
    /\ stale' = NoState /\ offline' = {} /\ Handle("idle")
    /\ UNCHANGED <<memory, behind, events, faults>> /\ SignalFrame

SignalNext == ReceiveUSR2 \/ GetState \/ KeepState \/ ApplyState
----------------------------------------------------------------------------
Next == \/ Crash
        \/ \E n \in Namespaces : ClusterChange(n) \/ Outage(n) \/ Recovery(n)
        \/ \E a \in Actors, n \in Namespaces : Refresh(a, n)
        \/ \E n \in Namespaces : RefreshFails(n)
        \/ \E a \in Actors : Remember(a)
        \/ \E w \in Writers : WriterNext(w)
        \/ MainNext \/ SignalNext

Spec == Init /\ [][Next]_vars

\* A write ends or fails, and the select of the goroutine that waits for it is
\* scheduled; nothing else is assumed.
Fairness == \A w \in Writers : /\ WF_vars(WriteEnds(w))
                               /\ WF_vars(ResultInTime(w)) /\ WF_vars(LateResult(w))
FairSpec == Spec /\ Fairness
----------------------------------------------------------------------------
(* Correctness.                                                            *)

States == Snapshots \cup {NoState}

EnvTypes == /\ cluster \in Snapshots /\ down \subseteq Namespaces
            /\ crashes \in 0 .. MaxCrashes /\ events \in 0 .. MaxEvents
            /\ faults \in 0 .. MaxFaults

StateTypes == /\ db \in Snapshots /\ memory \in States /\ file \in States
              /\ initial \in States /\ restored \in States

MainTypes == /\ main \in {"load", "read", "import", "keep", "running"}
             /\ unsynced \subseteq Namespaces /\ reached \subseteq Namespaces
             /\ leaderOnly \in BOOLEAN /\ behind \in {"no", "lost", "overlap"}

ActorTypes ==
    /\ pc \in [Actors -> {"idle", "export", "store", "persist"}]
    /\ held \in [Actors -> States]
    /\ \A a \in Actors : Remembering(a) => held[a] # NoState
    /\ main \in {"import", "keep"} => held["startup"] # NoState
    /\ main # "load" => pc["startup"] = "idle"

WriterTypes ==
    /\ inFlight \in BOOLEAN
    /\ writer \in [Writers -> [outer : {"off", "wait", "late"},
                              inner : {"off", "write", "ended"},
                              state : States]]

SignalTypes == /\ handler \in {"idle", "state", "keep", "apply"}
               /\ offline \subseteq Namespaces /\ stale \in States
               /\ handler \in {"keep", "apply"} => stale # NoState

\* Also: whoever is to store, write or import a state holds one, never the nil
\* of a state that was not there; and the startup load remembers only while it
\* lasts.
TypeOK == EnvTypes /\ StateTypes /\ MainTypes /\ ActorTypes /\ WriterTypes /\ SignalTypes

\* The writers that have not released the flag, and those at the disk.
Holding == {w \in Writers : writer[w].outer \in {"wait", "late"}}
Writing == {w \in Writers : writer[w].inner = "write"}

\* persistStateToDiskInFlight is set exactly while one write is on its way,
\* whether anyone has given up waiting for it or not; no two writes are at the
\* disk at once.
FlagHeldByOne ==
    /\ \A v, w \in Holding : v = w
    /\ inFlight <=> Holding # {}
    /\ Writing \subseteq Holding

\* The state file as the rest of the program sees it: replaced as a whole by one
\* write at a time, through timeouts, errors and crashes.
Written == IF Writing = {} THEN NoState ELSE writer[CHOOSE w \in Writing : TRUE].state
Store == INSTANCE SnapshotStore WITH NoSnapshot <- NoState, writing <- Written
StoreSpec == Store!Spec

\* Once the process has started and nothing is under way, the state file has
\* what is in memory, unless the last write was skipped or failed, or two actors
\* remembered or restored a state at once.
Quiet == /\ main = "running" /\ handler = "idle"
         /\ \A a \in Actors : pc[a] = "idle"
         /\ Holding = {}
FileFollowsMemory == Quiet /\ behind = "no" /\ memory # NoState => file = memory

\* As long as no namespace has been refreshed since the process started, what it
\* restored stays in the DataManager and in memory, whatever SIGUSR2 makes of it
\* and whatever is still on its way to the disk.  It is the state of the earlier
\* run, and the file keeps that too, unless a load that found a new leader but
\* not its apps has exported the empty DataManager over the file: then the
\* startup may restore from what it has just overwritten.
RestoredIsKept ==
    restored # NoState /\ reached = {} =>
        /\ db = restored /\ memory = restored
        /\ ~leaderOnly => restored = initial /\ file = initial

\* Whatever the disk does, the flag is released and the state can be written
\* again.
FlagReleased == inFlight ~> ~inFlight

\* README.md:253: "stale persisted datamanager state is restored for
\* controller-unreachable namespaces": the state the earlier run had left.
UnreachedHaveTheFile ==
    main = "running" /\ restored # NoState /\ initial # NoState =>
        \A n \in Namespaces \ reached : db[n] = initial[n]
=============================================================================
