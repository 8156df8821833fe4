----------------------- MODULE StatePersistenceProofs -----------------------
(***************************************************************************)
(* Proofs about StatePersistence for every set of namespaces and of write  *)
(* goroutines and every bound: the state is well typed, one write at a     *)
(* time holds the flag, the file is a SnapshotStore, and both the file and *)
(* a restored state are what the memory says they are.                     *)
(***************************************************************************)
EXTENDS StatePersistence, TLAPS

LEMMA ActorsAre == Actors = {"poller", "startup"}
  BY DEF Actors

LEMMA AgesAre == Ages \subseteq Nat /\ 0 \in Ages /\ 1 \in Ages
  BY BoundsAssumption DEF Ages

LEMMA NoDataType == NoData \in Snapshots
  BY AgesAre DEF NoData, Snapshots

LEMMA ImportType ==
    ASSUME NEW d \in Snapshots, NEW s \in Snapshots, NEW ns
    PROVE  Import(d, s, ns) \in Snapshots
  BY DEF Import, Snapshots

LEMMA StatesAre == States = Snapshots \cup {NoState} /\ NoState \notin Snapshots
  BY NoStateAssumption DEF States
----------------------------------------------------------------------------
(* Type correctness.                                                       *)

\* No listing is newer than the number of events allows.
AgesBounded == \A n \in Namespaces : cluster[n] <= events + 1
TypeInv == TypeOK /\ AgesBounded

LEMMA InitTypeInv == Init => TypeInv
<1> SUFFICES ASSUME Init PROVE TypeInv
  OBVIOUS
<1>1. EnvTypes /\ AgesBounded
  BY AgesAre, BoundsAssumption DEF Init, EnvTypes, AgesBounded, Snapshots
<1>2. StateTypes /\ MainTypes /\ SignalTypes
  BY NoDataType, StatesAre DEF Init, StateTypes, MainTypes, SignalTypes
<1>3. ActorTypes
  BY StatesAre, ActorsAre DEF Init, ActorTypes, AllIdle, NoneHeld, Remembering
<1>4. WriterTypes
  BY StatesAre DEF Init, WriterTypes, NoWriter, Idle
<1> QED
  BY <1>1, <1>2, <1>3, <1>4 DEF TypeInv, TypeOK

LEMMA CrashTypeInv == TypeInv /\ Crash => TypeInv'
<1> SUFFICES ASSUME TypeInv, Crash PROVE TypeInv'
  OBVIOUS
<1>1. EnvTypes' /\ AgesBounded'
  BY BoundsAssumption DEF Crash, envVars, TypeInv, TypeOK, EnvTypes, AgesBounded
<1>2. StateTypes' /\ MainTypes' /\ SignalTypes'
  BY NoDataType, StatesAre
     DEF Crash, TypeInv, TypeOK, StateTypes, MainTypes, SignalTypes
<1>3. ActorTypes'
  BY StatesAre, ActorsAre DEF Crash, ActorTypes, AllIdle, NoneHeld, Remembering
<1>4. WriterTypes'
  BY StatesAre DEF Crash, WriterTypes, NoWriter, Idle
<1> QED
  BY <1>1, <1>2, <1>3, <1>4 DEF TypeInv, TypeOK

LEMMA EnvTypeInv ==
    ASSUME TypeInv, NEW n \in Namespaces,
           ClusterChange(n) \/ Outage(n) \/ Recovery(n)
    PROVE  TypeInv'
<1>1. EnvTypes' /\ AgesBounded'
<2>1. CASE ClusterChange(n)
<3>1. \A m \in Namespaces : cluster'[m] \in Ages /\ cluster'[m] <= events' + 1
  BY <2>1, BoundsAssumption
     DEF ClusterChange, Event, TypeInv, TypeOK, EnvTypes, AgesBounded, Snapshots, Ages
<3>2. cluster' \in Snapshots
  BY <2>1, <3>1 DEF ClusterChange, TypeInv, TypeOK, EnvTypes, Snapshots
<3> QED
  BY <2>1, <3>1, <3>2, BoundsAssumption
     DEF ClusterChange, Event, EnvFrame, TypeInv, TypeOK, EnvTypes, AgesBounded
<2>2. CASE Outage(n)
  BY <2>2, BoundsAssumption
     DEF Outage, Event, EnvFrame, TypeInv, TypeOK, EnvTypes, AgesBounded, Snapshots, Ages
<2>3. CASE Recovery(n)
  BY <2>3 DEF Recovery, EnvFrame, TypeInv, TypeOK, EnvTypes, AgesBounded
<2> QED
  BY <2>1, <2>2, <2>3
<1>2. UNCHANGED <<db, startVars, actorVars, memory, diskVars, signalVars, observers>>
  BY DEF ClusterChange, Outage, Recovery, EnvFrame
<1> QED
  BY <1>1, <1>2
     DEF TypeInv, TypeOK, StateTypes, MainTypes, ActorTypes, WriterTypes, SignalTypes,
         Remembering, startVars, actorVars, diskVars, signalVars, observers

LEMMA RefreshTypeInv ==
    ASSUME TypeInv, NEW a \in Actors, NEW n \in Namespaces, Refresh(a, n)
    PROVE  TypeInv'
<1>1. db' \in Snapshots
  BY DEF Refresh, TypeInv, TypeOK, EnvTypes, StateTypes, Snapshots
<1>2. ActorTypes'
<2>1. pc' \in [Actors -> {"idle", "export", "store", "persist"}]
  BY DEF Refresh, TypeInv, TypeOK, ActorTypes
<2>2. \A b \in Actors : Remembering(b)' => Remembering(b)
  BY DEF Refresh, TypeInv, TypeOK, ActorTypes, Remembering
<2>3. main # "load" => pc'["startup"] = pc["startup"]
  BY ActorsAre DEF Refresh, TypeInv, TypeOK, ActorTypes
<2> QED
  BY <2>1, <2>2, <2>3 DEF Refresh, RefreshFrame, TypeInv, TypeOK, ActorTypes
<1>3. MainTypes'
  BY DEF Refresh, RefreshFrame, TypeInv, TypeOK, MainTypes
<1>4. StateTypes'
  BY <1>1, StatesAre DEF Refresh, RefreshFrame, TypeInv, TypeOK, StateTypes, diskVars
<1> QED
  BY <1>1, <1>2, <1>3, <1>4
     DEF Refresh, RefreshFrame, TypeInv, TypeOK, AgesBounded, EnvTypes,
         WriterTypes, SignalTypes, envVars, diskVars, signalVars

LEMMA RefreshFailsTypeInv ==
    ASSUME TypeInv, NEW n \in Namespaces, RefreshFails(n)
    PROVE  TypeInv'
<1>1. ActorTypes'
<2>1. pc' \in [Actors -> {"idle", "export", "store", "persist"}]
  BY DEF RefreshFails, TypeInv, TypeOK, ActorTypes
<2>2. \A b \in Actors : Remembering(b)' => Remembering(b)
  BY DEF RefreshFails, TypeInv, TypeOK, ActorTypes, Remembering
<2> QED
  BY <2>1, <2>2 DEF RefreshFails, RefreshFrame, TypeInv, TypeOK, ActorTypes
<1>2. MainTypes'
  BY DEF RefreshFails, RefreshFrame, TypeInv, TypeOK, MainTypes
<1>3. EnvTypes' /\ AgesBounded'
  BY BoundsAssumption
     DEF RefreshFails, RefreshFrame, TypeInv, TypeOK, EnvTypes, AgesBounded, envVars
<1> QED
  BY <1>1, <1>2, <1>3
     DEF RefreshFails, RefreshFrame, TypeInv, TypeOK, StateTypes, WriterTypes, SignalTypes,
         diskVars, signalVars

LEMMA ExportTypeInv ==
    ASSUME TypeInv, NEW a \in Actors, Export(a)
    PROVE  TypeInv'
<1>1. held' \in [Actors -> States] /\ pc' \in [Actors -> {"idle", "export", "store", "persist"}]
  BY StatesAre DEF Export, TypeInv, TypeOK, ActorTypes, StateTypes
<1>2. \A b \in Actors : Remembering(b)' => held'[b] # NoState
  BY StatesAre DEF Export, TypeInv, TypeOK, ActorTypes, StateTypes, Remembering
<1>3. a = "startup" => main = "load"
  BY DEF Export, TypeInv, TypeOK, ActorTypes
<1>4. ActorTypes'
  BY <1>1, <1>2, <1>3 DEF Export, ActorFrame, TypeInv, TypeOK, ActorTypes
<1> QED
  BY <1>4 DEF Export, ActorFrame, TypeInv, TypeOK, AgesBounded, EnvTypes, StateTypes, MainTypes,
              WriterTypes, SignalTypes, envVars, diskVars, signalVars

LEMMA StoreInMemoryTypeInv ==
    ASSUME TypeInv, NEW a \in Actors, StoreInMemory(a)
    PROVE  TypeInv'
<1>1. pc' \in [Actors -> {"idle", "export", "store", "persist"}] /\ memory' \in States
  BY DEF StoreInMemory, TypeInv, TypeOK, ActorTypes
<1>2. \A b \in Actors : Remembering(b)' => Remembering(b)
  BY DEF StoreInMemory, TypeInv, TypeOK, ActorTypes, Remembering
<1>3. a = "startup" => main = "load"
  BY DEF StoreInMemory, TypeInv, TypeOK, ActorTypes
<1>4. ActorTypes'
  BY <1>1, <1>2, <1>3 DEF StoreInMemory, ActorFrame, TypeInv, TypeOK, ActorTypes
<1> QED
  BY <1>1, <1>4
     DEF StoreInMemory, ActorFrame, TypeInv, TypeOK, AgesBounded, EnvTypes, StateTypes,
         MainTypes, WriterTypes, SignalTypes, envVars, diskVars, signalVars, observers

LEMMA PersistTypeInv ==
    ASSUME TypeInv, NEW a \in Actors, Persist(a)
    PROVE  TypeInv'
<1>1. /\ held' \in [Actors -> States]
      /\ pc' \in [Actors -> {"idle", "export", "store", "persist"}]
  BY StatesAre DEF Persist, TypeInv, TypeOK, ActorTypes
<1>2. \A b \in Actors : Remembering(b)' => Remembering(b) /\ held'[b] = held[b]
  BY DEF Persist, TypeInv, TypeOK, ActorTypes, Remembering
<1>3. a = "startup" => main = "load"
  BY DEF Persist, TypeInv, TypeOK, ActorTypes
<1>4. main # "load" => pc'["startup"] = pc["startup"] /\ held'["startup"] = held["startup"]
  BY <1>3, ActorsAre DEF Persist, TypeInv, TypeOK, ActorTypes
<1>5. ActorTypes'
  BY <1>1, <1>2, <1>4 DEF Persist, ActorFrame, TypeInv, TypeOK, ActorTypes
<1>6. WriterTypes'
<2>1. CASE inFlight
  BY <2>1 DEF Persist, TypeInv, TypeOK, WriterTypes
<2>2. CASE ~inFlight
<3>1. PICK w \in Writers :
         writer' = [writer EXCEPT ![w] = [outer |-> "wait", inner |-> "write", state |-> held[a]]]
  BY <2>2 DEF Persist
<3>2. held[a] \in States /\ inFlight' = TRUE
  BY <2>2 DEF Persist, TypeInv, TypeOK, ActorTypes
<3> QED
  BY <3>1, <3>2 DEF TypeInv, TypeOK, WriterTypes
<2> QED
  BY <2>1, <2>2
<1>7. MainTypes'
  BY DEF Persist, Lost, ActorFrame, TypeInv, TypeOK, MainTypes
<1> QED
  BY <1>5, <1>6, <1>7
     DEF Persist, ActorFrame, TypeInv, TypeOK, AgesBounded, EnvTypes, StateTypes,
         SignalTypes, envVars, signalVars

LEMMA WriterTypeInv ==
    ASSUME TypeInv, NEW w \in Writers, WriterNext(w)
    PROVE  TypeInv'
<1> DEFINE Kept == UNCHANGED <<envVars, db, startVars, actorVars, memory, signalVars,
                               reached, leaderOnly, restored, initial, crashes>>
<1>1. Kept
  BY DEF WriterNext, WriteEnds, WriteFails, ResultInTime, TimeOut, LateResult, WriterFrame
<1>2. events' = events /\ (faults' = faults \/ (faults < MaxFaults /\ faults' = faults + 1))
  BY DEF WriterNext, WriteEnds, WriteFails, ResultInTime, TimeOut, LateResult, Fault
<1>3. WriterTypes'
<2> USE DEF TypeInv, TypeOK, WriterTypes
<2>1. CASE WriteEnds(w) \/ WriteFails(w)
  BY <2>1 DEF WriteEnds, WriteFails
<2>2. CASE TimeOut(w)
  BY <2>2 DEF TimeOut
<2>3. CASE ResultInTime(w) \/ LateResult(w)
<3>1. Idle \in [outer : {"off", "wait", "late"}, inner : {"off", "write", "ended"},
                  state : States]
  BY StatesAre DEF Idle
<3>2. writer' = [writer EXCEPT ![w] = Idle] /\ inFlight' = FALSE
  BY <2>3 DEF ResultInTime, LateResult
<3> QED
  BY <3>1, <3>2
<2> QED
  BY <2>1, <2>2, <2>3 DEF WriterNext
<1>4. file' \in States
  BY DEF WriterNext, WriteEnds, WriteFails, ResultInTime, TimeOut, LateResult,
         TypeInv, TypeOK, WriterTypes, StateTypes
<1>5. behind' \in {"no", "lost", "overlap"}
  BY DEF WriterNext, WriteEnds, WriteFails, ResultInTime, TimeOut, LateResult, Lost,
         TypeInv, TypeOK, MainTypes
<1>6. EnvTypes' /\ AgesBounded'
  BY <1>1, <1>2, BoundsAssumption DEF TypeInv, TypeOK, EnvTypes, AgesBounded, envVars
<1> QED
  BY <1>1, <1>3, <1>4, <1>5, <1>6
     DEF TypeInv, TypeOK, StateTypes, MainTypes, ActorTypes, SignalTypes, Remembering,
         startVars, actorVars, signalVars

LEMMA MainTypeInv == TypeInv /\ MainNext => TypeInv'
<1> SUFFICES ASSUME TypeInv, MainNext PROVE TypeInv'
  OBVIOUS
<1> USE DEF TypeInv, TypeOK
<1>1. UNCHANGED <<envVars, pc, diskVars, signalVars, reached, leaderOnly, initial, crashes>>
  BY DEF MainNext, LoadAgain, EndLoad, ReadForRestore, ImportAtStartup, KeepRestored, MainFrame
<1>2. events' = events /\ (faults' = faults \/ (faults < MaxFaults /\ faults' = faults + 1))
  BY DEF MainNext, LoadAgain, EndLoad, ReadForRestore, ReadSucceeds, ReadFails,
         ImportAtStartup, KeepRestored, Fault
<1>3. EnvTypes' /\ AgesBounded'
  BY <1>1, <1>2, BoundsAssumption DEF EnvTypes, AgesBounded, envVars
<1>4. MainTypes'
  BY <1>1 DEF MainNext, LoadAgain, EndLoad, ReadForRestore, ImportAtStartup, KeepRestored, MainTypes
<1>5. main # "load" => held["startup"] \in States /\ pc["startup"] = "idle"
  BY ActorsAre DEF ActorTypes
<1>6. db' \in Snapshots
<2>1. ASSUME ImportAtStartup PROVE held["startup"] \in Snapshots
  BY <2>1, <1>5, StatesAre DEF ImportAtStartup, ActorTypes
<2> QED
  BY <2>1, ImportType
     DEF MainNext, LoadAgain, EndLoad, ReadForRestore, ImportAtStartup, KeepRestored, StateTypes
<1>7. memory' \in States
  BY <1>5 DEF MainNext, LoadAgain, EndLoad, ReadForRestore, ImportAtStartup, KeepRestored,
              StateTypes
<1>8. ActorTypes'
<2>1. held' \in [Actors -> States]
  BY StatesAre DEF MainNext, LoadAgain, EndLoad, ReadForRestore, ImportAtStartup, KeepRestored,
                   ActorTypes, StateTypes
<2>2. main' # "load" => pc["startup"] = "idle"
  BY <1>5 DEF MainNext, LoadAgain, EndLoad, ReadForRestore, ImportAtStartup, KeepRestored
<2>3. main' \in {"import", "keep"} => held'["startup"] # NoState
  BY ActorsAre DEF MainNext, LoadAgain, EndLoad, ReadForRestore, ReadSucceeds, ImportAtStartup,
                   KeepRestored, ActorTypes
<2>4. \A a \in Actors : Remembering(a) => held'[a] = held[a]
  BY <1>5 DEF MainNext, LoadAgain, EndLoad, ReadForRestore, ImportAtStartup, KeepRestored,
              ActorTypes, Remembering
<2> QED
  BY <1>1, <2>1, <2>2, <2>3, <2>4 DEF ActorTypes, Remembering
<1>9. restored' \in States
  BY <1>5 DEF MainNext, LoadAgain, EndLoad, ReadForRestore, ImportAtStartup, KeepRestored,
              StateTypes
<1> QED
  BY <1>1, <1>3, <1>4, <1>6, <1>7, <1>8, <1>9
     DEF StateTypes, WriterTypes, SignalTypes, diskVars, signalVars

LEMMA SignalTypeInv == TypeInv /\ SignalNext => TypeInv'
<1> SUFFICES ASSUME TypeInv, SignalNext PROVE TypeInv'
  OBVIOUS
<1> USE DEF TypeInv, TypeOK, Handle
<1>1. UNCHANGED <<envVars, startVars, actorVars, diskVars, reached, leaderOnly, restored, initial,
                 crashes>>
  BY DEF SignalNext, ReceiveUSR2, GetState, KeepState, ApplyState, SignalFrame
<1>2. /\ events' = events \/ (events < MaxEvents /\ events' = events + 1)
      /\ faults' = faults \/ (faults < MaxFaults /\ faults' = faults + 1)
  BY DEF SignalNext, ReceiveUSR2, GetState, KeepState, ApplyState, ReadSucceeds, ReadFails,
         Fault, Event
<1>3. EnvTypes' /\ AgesBounded'
<2>1. \A n \in Namespaces : cluster[n] \in Nat
  BY AgesAre DEF EnvTypes, Snapshots
<2> QED
  BY <1>1, <1>2, <2>1, BoundsAssumption DEF EnvTypes, AgesBounded, envVars
<1>4. MainTypes'
  BY <1>1 DEF SignalNext, ReceiveUSR2, GetState, KeepState, ApplyState, MainTypes, startVars
<1>5. SignalTypes'
  BY StatesAre DEF SignalNext, ReceiveUSR2, GetState, KeepState, ApplyState, ReadSucceeds,
                   SignalTypes, StateTypes, EnvTypes
<1>6. StateTypes'
<2>1. CASE ApplyState
  BY <1>1, <2>1, StatesAre, ImportType DEF ApplyState, StateTypes, SignalTypes, diskVars
<2>2. CASE ReceiveUSR2 \/ GetState \/ KeepState
  BY <1>1, <2>2 DEF ReceiveUSR2, GetState, KeepState, StateTypes, SignalTypes, diskVars
<2> QED
  BY <2>1, <2>2 DEF SignalNext
<1> QED
  BY <1>1, <1>3, <1>4, <1>5, <1>6
     DEF ActorTypes, WriterTypes, Remembering, startVars, actorVars, diskVars

LEMMA NextTypeInv == TypeInv /\ [Next]_vars => TypeInv'
<1> SUFFICES ASSUME TypeInv, [Next]_vars PROVE TypeInv'
  OBVIOUS
<1>1. CASE UNCHANGED vars
  BY <1>1 DEF TypeInv, TypeOK, AgesBounded, EnvTypes, StateTypes, MainTypes, ActorTypes,
              WriterTypes, SignalTypes, Remembering, vars, envVars, startVars, actorVars,
              diskVars, signalVars, observers
<1>2. CASE Next
  BY <1>2, CrashTypeInv, EnvTypeInv, RefreshTypeInv, RefreshFailsTypeInv, ExportTypeInv,
     StoreInMemoryTypeInv, PersistTypeInv, WriterTypeInv, MainTypeInv, SignalTypeInv DEF Next, Remember
<1> QED
  BY <1>1, <1>2

LEMMA TypeInvariance == Spec => []TypeInv
  BY InitTypeInv, NextTypeInv, PTL DEF Spec

\* Every step of the program keeps the state well typed.
THEOREM TypeCorrect == Spec => []TypeOK
<1>1. TypeInv => TypeOK
  BY DEF TypeInv
<1> QED
  BY <1>1, TypeInvariance, PTL
----------------------------------------------------------------------------
(* The flag, and the file as a SnapshotStore.                              *)

\* What the steps of the other goroutines leave alone.
LEMMA DiskKept ==
    ASSUME [Next]_vars,
           ~Crash, \A a \in Actors : ~Persist(a), \A w \in Writers : ~WriterNext(w)
    PROVE  UNCHANGED diskVars
<1>1. CASE UNCHANGED vars
  BY <1>1 DEF vars
<1>2. CASE Next
<2> USE DEF Next, diskVars
<2>1. ASSUME NEW n \in Namespaces, ClusterChange(n) \/ Outage(n) \/ Recovery(n)
      PROVE UNCHANGED diskVars
  BY <2>1 DEF ClusterChange, Outage, Recovery, EnvFrame
<2>2. ASSUME NEW a \in Actors, NEW n \in Namespaces, Refresh(a, n)
      PROVE UNCHANGED diskVars
  BY <2>2 DEF Refresh, RefreshFrame
<2>3. ASSUME NEW a \in Actors, Remember(a) PROVE UNCHANGED diskVars
  BY <2>3 DEF Remember, Export, StoreInMemory
<2>4. ASSUME MainNext PROVE UNCHANGED diskVars
  BY <2>4 DEF MainNext, LoadAgain, EndLoad, ReadForRestore, ImportAtStartup, KeepRestored, MainFrame
<2>5. ASSUME SignalNext PROVE UNCHANGED diskVars
  BY <2>5 DEF SignalNext, ReceiveUSR2, GetState, KeepState, ApplyState, SignalFrame
<2>6. ASSUME NEW n \in Namespaces, RefreshFails(n) PROVE UNCHANGED diskVars
  BY <2>6 DEF RefreshFails, RefreshFrame
<2> QED
  BY <1>2, <2>1, <2>2, <2>3, <2>4, <2>5, <2>6
<1> QED
  BY <1>1, <1>2

LEMMA InitFlag == Init => FlagHeldByOne
  BY DEF Init, FlagHeldByOne, Holding, Writing, NoWriter, Idle

LEMMA PersistEffect ==
    ASSUME TypeInv, NEW a \in Actors, Persist(a), ~inFlight
    PROVE  /\ held[a] \in Snapshots /\ inFlight' = TRUE /\ file' = file
           /\ \E w \in Writers :
                 /\ writer'[w] = [outer |-> "wait", inner |-> "write", state |-> held[a]]
                 /\ \A v \in Writers : v # w => writer'[v] = writer[v]
<1>1. held[a] \in Snapshots
  BY StatesAre DEF Persist, Remembering, TypeInv, TypeOK, ActorTypes
<1>2. PICK w \in Writers :
         writer' = [writer EXCEPT ![w] = [outer |-> "wait", inner |-> "write", state |-> held[a]]]
  BY DEF Persist
<1>3. /\ writer'[w] = [outer |-> "wait", inner |-> "write", state |-> held[a]]
      /\ \A v \in Writers : v # w => writer'[v] = writer[v]
  BY <1>2 DEF TypeInv, TypeOK, WriterTypes
<1> QED
  BY <1>1, <1>3 DEF Persist

LEMMA NextFlag == TypeInv /\ FlagHeldByOne /\ [Next]_vars => FlagHeldByOne'
<1> SUFFICES ASSUME TypeInv, FlagHeldByOne, [Next]_vars PROVE FlagHeldByOne'
  OBVIOUS
<1> USE DEF FlagHeldByOne, Holding, Writing
<1>1. CASE Crash
  BY <1>1 DEF Crash, NoWriter, Idle
<1>2. ASSUME NEW a \in Actors, Persist(a) PROVE FlagHeldByOne'
<2>1. CASE inFlight
  BY <1>2, <2>1 DEF Persist
<2>2. CASE ~inFlight
<3>1. PICK w \in Writers :
         /\ writer'[w] = [outer |-> "wait", inner |-> "write", state |-> held[a]]
         /\ \A v \in Writers : v # w => writer'[v] = writer[v]
  BY <1>2, <2>2, PersistEffect
<3>2. inFlight' = TRUE
  BY <1>2, <2>2, PersistEffect
<3> QED
  BY <2>2, <3>1, <3>2
<2> QED
  BY <2>1, <2>2
<1>3. ASSUME NEW w \in Writers, WriterNext(w) PROVE FlagHeldByOne'
<2>1. \A v \in Writers : v # w => writer'[v] = writer[v]
  BY <1>3 DEF WriterNext, WriteEnds, WriteFails, ResultInTime, TimeOut, LateResult,
              TypeInv, TypeOK, WriterTypes
<2>2. CASE WriteEnds(w) \/ WriteFails(w) \/ TimeOut(w)
<3>1. /\ inFlight' = inFlight
      /\ writer'[w].outer \in {"wait", "late"} <=> writer[w].outer \in {"wait", "late"}
      /\ writer'[w].inner = "write" => writer[w].inner = "write"
  BY <2>2 DEF WriteEnds, WriteFails, TimeOut, TypeInv, TypeOK, WriterTypes
<3> QED
  BY <2>1, <3>1
<2>3. CASE ResultInTime(w) \/ LateResult(w)
<3>1. /\ inFlight' = FALSE /\ writer[w].outer \in {"wait", "late"}
      /\ writer'[w].outer = "off" /\ writer'[w].inner = "off"
  BY <2>3 DEF ResultInTime, LateResult, Idle, TypeInv, TypeOK, WriterTypes
<3> QED
  BY <2>1, <3>1
<2> QED
  BY <1>3, <2>2, <2>3 DEF WriterNext
<1>4. CASE ~Crash /\ (\A a \in Actors : ~Persist(a)) /\ \A w \in Writers : ~WriterNext(w)
  BY <1>4, DiskKept DEF diskVars
<1> QED
  BY <1>1, <1>2, <1>3, <1>4

FlagInv == TypeInv /\ FlagHeldByOne

LEMMA FlagInvariance == Spec => []FlagInv
<1>1. Init => FlagInv
  BY InitTypeInv, InitFlag DEF FlagInv
<1>2. FlagInv /\ [Next]_vars => FlagInv'
  BY NextTypeInv, NextFlag DEF FlagInv
<1> QED
  BY <1>1, <1>2, PTL DEF Spec

\* utils.go:130: through timeouts and crashes, the flag is set exactly while one
\* write is on its way, and no two writes are at the disk at once.
THEOREM FlagCorrect == Spec => []FlagHeldByOne
<1>1. FlagInv => FlagHeldByOne
  BY DEF FlagInv
<1> QED
  BY <1>1, FlagInvariance, PTL
\* A write goroutine has a snapshot to write.
HasSnapshot == \A w \in Writing : writer[w].state \in Snapshots
StoreInv == FlagInv /\ HasSnapshot

LEMMA NextHasSnapshot == FlagInv /\ HasSnapshot /\ [Next]_vars => HasSnapshot'
<1> SUFFICES ASSUME FlagInv, HasSnapshot, [Next]_vars PROVE HasSnapshot'
  OBVIOUS
<1> USE DEF HasSnapshot, Writing
<1>1. CASE Crash
  BY <1>1 DEF Crash, NoWriter, Idle
<1>2. ASSUME NEW a \in Actors, Persist(a) PROVE HasSnapshot'
<2>1. CASE inFlight
  BY <1>2, <2>1 DEF Persist
<2>2. CASE ~inFlight
<3>1. PICK w \in Writers :
         /\ writer'[w] = [outer |-> "wait", inner |-> "write", state |-> held[a]]
         /\ \A v \in Writers : v # w => writer'[v] = writer[v]
  BY <1>2, <2>2, PersistEffect DEF FlagInv
<3>2. held[a] \in Snapshots
  BY <1>2, <2>2, PersistEffect DEF FlagInv
<3> QED
  BY <3>1, <3>2
<2> QED
  BY <2>1, <2>2
<1>3. ASSUME NEW w \in Writers, WriterNext(w) PROVE HasSnapshot'
  BY <1>3 DEF WriterNext, WriteEnds, WriteFails, ResultInTime, TimeOut, LateResult, Idle,
              FlagInv, TypeInv, TypeOK, WriterTypes
<1>4. CASE ~Crash /\ (\A a \in Actors : ~Persist(a)) /\ \A w \in Writers : ~WriterNext(w)
  BY <1>4, DiskKept DEF diskVars
<1> QED
  BY <1>1, <1>2, <1>3, <1>4

LEMMA StoreInvariance == Spec => []StoreInv
<1>1. Init => HasSnapshot
  BY DEF Init, HasSnapshot, Writing, NoWriter, Idle
<1>2. Init => FlagInv
  BY InitTypeInv, InitFlag DEF FlagInv
<1>3. FlagInv /\ [Next]_vars => FlagInv'
  BY NextTypeInv, NextFlag DEF FlagInv
<1> QED
  BY <1>1, <1>2, <1>3, NextHasSnapshot, PTL DEF Spec, StoreInv

LEMMA WrittenIs ==
    ASSUME FlagHeldByOne, NEW w \in Writing
    PROVE  Written = writer[w].state
  BY DEF Written, FlagHeldByOne

LEMMA WrittenIsNone == Writing = {} => Written = NoState
  BY DEF Written

\* The steps of one write: Commit, Abandon or none.
LEMMA WriterStoreStep ==
    ASSUME StoreInv, NEW w \in Writers, WriterNext(w)
    PROVE  \/ Written # NoState /\ file' = Written /\ Written' = NoState
           \/ Written # NoState /\ file' = file /\ Written' = NoState
           \/ file' = file /\ Written' = Written
<1> USE DEF StoreInv, FlagInv
<1>1. \A v \in Writers : v # w => writer'[v] = writer[v]
  BY DEF WriterNext, WriteEnds, WriteFails, ResultInTime, TimeOut, LateResult,
         TypeInv, TypeOK, WriterTypes
<1>2. CASE WriteEnds(w) \/ WriteFails(w)
<2>1. w \in Writing /\ Written = writer[w].state
  BY <1>2, WrittenIs DEF WriteEnds, WriteFails, Writing
<2>2. Written # NoState
  BY <2>1, StatesAre DEF HasSnapshot
<2>3. writer'[w].inner = "ended"
  BY <1>2 DEF WriteEnds, WriteFails, TypeInv, TypeOK, WriterTypes
<2>4. \A v \in Writing : v = w
  BY <2>1 DEF FlagHeldByOne
<2>5. Writing' = {}
  BY <1>1, <2>3, <2>4 DEF Writing
<2>6. Written' = NoState
  BY <2>5 DEF Written
<2> QED
  BY <1>2, <2>1, <2>2, <2>6 DEF WriteEnds, WriteFails
<1>3. CASE ResultInTime(w) \/ TimeOut(w) \/ LateResult(w)
<2>1. /\ file' = file
      /\ writer'[w].inner = "write" <=> writer[w].inner = "write"
      /\ writer[w].inner = "write" => writer'[w].state = writer[w].state
  BY <1>3 DEF ResultInTime, TimeOut, LateResult, Idle, TypeInv, TypeOK, WriterTypes
<2>2. Writing' = Writing /\ \A v \in Writing : writer'[v].state = writer[v].state
  BY <1>1, <2>1 DEF Writing
<2>3. Written' = Written
  BY <2>2 DEF Written
<2> QED
  BY <2>1, <2>3
<1> QED
  BY <1>2, <1>3 DEF WriterNext

LEMMA StoreStep ==
    ASSUME StoreInv, StoreInv', [Next]_vars
    PROVE  [Store!Next]_(Store!vars)
<1> USE DEF StoreInv, FlagInv
<1>1. CASE Crash
<2>1. Writing' = {} /\ file' = file
  BY <1>1 DEF Crash, Writing, NoWriter, Idle
<2>2. Written' = NoState
  BY <2>1 DEF Written
<2>3. CASE Written = NoState
  BY <2>1, <2>2, <2>3 DEF Store!vars
<2>4. CASE Written # NoState
  BY <2>1, <2>2, <2>4 DEF Store!Next, Store!Abandon
<2> QED
  BY <2>3, <2>4
<1>2. ASSUME NEW a \in Actors, Persist(a) PROVE [Store!Next]_(Store!vars)
<2>1. CASE inFlight
<3>1. writer' = writer /\ file' = file
  BY <1>2, <2>1 DEF Persist
<3> QED
  BY <3>1 DEF Store!vars, Written, Writing
<2>2. CASE ~inFlight
<3>1. Writing = {}
  BY <2>2 DEF FlagHeldByOne
<3>2. PICK w \in Writers : writer'[w] = [outer |-> "wait", inner |-> "write", state |-> held[a]]
  BY <1>2, <2>2, PersistEffect
<3>3. held[a] \in Snapshots /\ file' = file
  BY <1>2, <2>2, PersistEffect
<3>4. Written = NoState
  BY <3>1, WrittenIsNone
<3>5. (w \in Writing)'
  BY <3>2 DEF Writing
<3>6. Written' = held[a]
<4>1. \A v \in Writing' : v = w
  BY <3>5 DEF FlagHeldByOne
<4>2. Written' = writer'[w].state
  BY <3>5, <4>1 DEF Written
<4> QED
  BY <3>2, <4>2
<3> QED
  BY <3>3, <3>4, <3>6 DEF Store!Next, Store!Begin
<2> QED
  BY <2>1, <2>2
<1>3. ASSUME NEW w \in Writers, WriterNext(w) PROVE [Store!Next]_(Store!vars)
  BY <1>3, WriterStoreStep DEF Store!Next, Store!Commit, Store!Abandon, Store!vars
<1>4. CASE ~Crash /\ (\A a \in Actors : ~Persist(a)) /\ \A w \in Writers : ~WriterNext(w)
<2>1. writer' = writer /\ file' = file
  BY <1>4, DiskKept DEF diskVars
<2> QED
  BY <2>1 DEF Store!vars, Written, Writing
<1> QED
  BY <1>1, <1>2, <1>3, <1>4

\* utils.go:200-220 and :102-140: to whoever reads it, the state file is a store
\* of whole snapshots with one writer at a time.
THEOREM StoreRefined == Spec => StoreSpec
<1>1. Init => Store!Init
<2> SUFFICES ASSUME Init PROVE Store!Init
  OBVIOUS
<2>1. Writing = {} /\ file = NoState
  BY DEF Init, Writing, NoWriter, Idle
<2> QED
  BY <2>1, WrittenIsNone DEF Store!Init
<1>2. StoreInv /\ StoreInv' /\ [Next]_vars => [Store!Next]_(Store!vars)
  BY StoreStep
<1> QED
  BY <1>1, <1>2, StoreInvariance, PTL DEF Spec, StoreSpec, Store!Spec
----------------------------------------------------------------------------
(* The file follows the memory.                                            *)

NobodyRemembers == \A a \in Actors : ~Remembering(a)

\* Unless two remembered or restored at once, one actor at most is remembering
\* and persists what is in memory; if no write was lost either, what is written
\* or was written last is what is in memory.
OneRemembers ==
    /\ \A a, b \in Actors : Remembering(a) /\ Remembering(b) => a = b
    /\ \A a \in Actors : pc[a] = "persist" => memory = held[a]
DiskHasMemory ==
    /\ \A w \in Writing : writer[w].state = memory
    /\ Writing = {} /\ memory # NoState => file = memory
FileInv == /\ behind # "overlap" => OneRemembers
           /\ behind = "no" /\ NobodyRemembers => DiskHasMemory

LEMMA InitFile == Init => FileInv
  BY DEF Init, FileInv, OneRemembers, DiskHasMemory, NobodyRemembers, Remembering, AllIdle,
         NoWriter, Idle, Writing

LEMMA RememberFile ==
    ASSUME FlagInv, FileInv, NEW a \in Actors, Remember(a)
    PROVE  FileInv'
<1> USE DEF FlagInv, TypeInv, TypeOK, ActorTypes
<1>1. CASE Export(a)
<2>1. behind' # "overlap" => behind # "overlap" /\ \A b \in Actors \ {a} : ~Remembering(b)
  BY <1>1 DEF Export
<2>2. /\ \A b \in Actors \ {a} : pc'[b] = pc[b] /\ held'[b] = held[b]
      /\ pc'[a] = "store" /\ memory' = memory
  BY <1>1 DEF Export
<2>3. ~NobodyRemembers'
  BY <2>2 DEF NobodyRemembers, Remembering
<2> QED
  BY <2>1, <2>2, <2>3 DEF FileInv, OneRemembers, Remembering
<1>2. CASE StoreInMemory(a)
<2>1. /\ \A b \in Actors \ {a} : pc'[b] = pc[b]
      /\ pc'[a] = "persist" /\ memory' = held[a] /\ held' = held /\ behind' = behind
      /\ Remembering(a)
  BY <1>2 DEF StoreInMemory, observers, Remembering
<2>2. ~NobodyRemembers'
  BY <2>1 DEF NobodyRemembers, Remembering
<2> QED
  BY <2>1, <2>2 DEF FileInv, OneRemembers, Remembering
<1>3. CASE Persist(a)
<2>1. /\ \A b \in Actors \ {a} : pc'[b] = pc[b] /\ held'[b] = held[b]
      /\ pc[a] = "persist" /\ pc'[a] = "idle" /\ memory' = memory
      /\ behind' # "overlap" => behind # "overlap"
  BY <1>3 DEF Persist, Lost
<2>2. behind' # "overlap" => OneRemembers'
  BY <2>1 DEF FileInv, OneRemembers, Remembering
<2>3. CASE inFlight
  BY <1>3, <2>2, <2>3 DEF Persist, Lost, FileInv
<2>4. CASE ~inFlight
<3>1. PICK w \in Writers :
         /\ writer'[w] = [outer |-> "wait", inner |-> "write", state |-> held[a]]
         /\ \A v \in Writers : v # w => writer'[v] = writer[v]
  BY <1>3, <2>4, PersistEffect
<3>2. Writing = {}
  BY <2>4 DEF FlagHeldByOne
<3>3. Writing' = {w} /\ writer'[w].state = held[a]
  BY <3>1, <3>2 DEF Writing
<3>4. behind' = "no" => memory = held[a]
  BY <2>1 DEF FileInv, OneRemembers
<3>5. behind' = "no" => DiskHasMemory'
  BY <2>1, <3>3, <3>4 DEF DiskHasMemory
<3> QED
  BY <2>2, <3>5 DEF FileInv
<2> QED
  BY <2>3, <2>4
<1> QED
  BY <1>1, <1>2, <1>3 DEF Remember

LEMMA WriterFile ==
    ASSUME FlagInv, FileInv, NEW w \in Writers, WriterNext(w)
    PROVE  FileInv'
<1> USE DEF FlagInv, TypeInv, TypeOK, WriterTypes
<1>1. UNCHANGED <<pc, held, memory>>
  BY DEF WriterNext, WriteEnds, WriteFails, ResultInTime, TimeOut, LateResult, WriterFrame,
         actorVars
<1>2. \A v \in Writers : v # w => writer'[v] = writer[v]
  BY DEF WriterNext, WriteEnds, WriteFails, ResultInTime, TimeOut, LateResult
<1>3. behind' # "overlap" => behind # "overlap"
  BY DEF WriterNext, WriteEnds, WriteFails, ResultInTime, TimeOut, LateResult, Lost
<1>4. OneRemembers' <=> OneRemembers
  BY <1>1 DEF OneRemembers, Remembering
<1>5. NobodyRemembers' <=> NobodyRemembers
  BY <1>1 DEF NobodyRemembers, Remembering
<1>6. ASSUME behind' = "no", NobodyRemembers PROVE DiskHasMemory'
<2>1. CASE WriteEnds(w)
<3>1. w \in Writing /\ behind = "no"
  BY <1>6, <2>1 DEF WriteEnds, Writing
<3>2. writer[w].state = memory /\ file' = memory
  BY <1>6, <2>1, <3>1 DEF WriteEnds, FileInv, DiskHasMemory
<3>3. \A v \in Writing : v = w
  BY <3>1 DEF FlagHeldByOne
<3>4. writer'[w].inner = "ended"
  BY <2>1 DEF WriteEnds
<3>5. Writing' = {}
  BY <1>2, <3>3, <3>4 DEF Writing
<3> QED
  BY <1>1, <3>2, <3>5 DEF DiskHasMemory
<2>2. CASE ResultInTime(w) \/ TimeOut(w) \/ LateResult(w)
<3>1. /\ file' = file /\ behind' = behind
      /\ writer'[w].inner = "write" <=> writer[w].inner = "write"
      /\ writer[w].inner = "write" => writer'[w].state = writer[w].state
  BY <2>2 DEF ResultInTime, TimeOut, LateResult, Idle
<3>2. Writing' = Writing /\ \A v \in Writing : writer'[v].state = writer[v].state
  BY <1>2, <3>1 DEF Writing
<3> QED
  BY <1>1, <1>6, <3>1, <3>2 DEF FileInv, DiskHasMemory
<2>3. CASE WriteFails(w)
  BY <1>6, <2>3 DEF WriteFails, Lost
<2> QED
  BY <2>1, <2>2, <2>3 DEF WriterNext
<1> QED
  BY <1>3, <1>4, <1>5, <1>6 DEF FileInv

\* A state from the file replaces the memory.
LEMMA KeepFile ==
    ASSUME FlagInv, FileInv, NEW s, memory' = s,
           behind' = IF Apart(s) THEN "overlap" ELSE behind,
           UNCHANGED <<pc, diskVars>>,
           \A a \in Actors : Remembering(a) => held'[a] = held[a]
    PROVE  FileInv'
<1>1. CASE Apart(s)
  BY <1>1 DEF FileInv
<1>2. CASE ~Apart(s)
<2>1. /\ ~inFlight /\ file = s /\ NobodyRemembers /\ NobodyRemembers'
  BY <1>2 DEF Apart, NobodyRemembers, Remembering
<2>2. Writing' = {} /\ file' = s
  BY <2>1 DEF FlagInv, FlagHeldByOne, Writing, diskVars
<2> QED
  BY <2>1, <2>2 DEF FileInv, OneRemembers, DiskHasMemory, NobodyRemembers, Remembering
<1> QED
  BY <1>1, <1>2

\* Steps after which the same state is in memory, held and on its way.
LEMMA SameFile ==
    ASSUME FileInv, UNCHANGED <<memory, diskVars, behind>>,
           \A a \in Actors : /\ pc'[a] = "store" <=> pc[a] = "store"
                             /\ pc'[a] = "persist" <=> pc[a] = "persist"
                             /\ Remembering(a) => held'[a] = held[a]
    PROVE  FileInv'
<1>1. NobodyRemembers' <=> NobodyRemembers
  BY DEF NobodyRemembers, Remembering
<1>2. OneRemembers => OneRemembers'
  BY DEF OneRemembers, Remembering
<1>3. DiskHasMemory' <=> DiskHasMemory
  BY DEF DiskHasMemory, Writing, diskVars
<1> QED
  BY <1>1, <1>2, <1>3 DEF FileInv

LEMMA NextFile == FlagInv /\ FileInv /\ [Next]_vars => FileInv'
<1> SUFFICES ASSUME FlagInv, FileInv, [Next]_vars PROVE FileInv'
  OBVIOUS
<1>1. CASE UNCHANGED vars
  BY <1>1, SameFile DEF vars, actorVars, observers
<1>2. CASE Crash
  BY <1>2 DEF Crash, FileInv, OneRemembers, DiskHasMemory, NobodyRemembers, Remembering, AllIdle,
              NoWriter, Idle, Writing
<1>3. ASSUME NEW n \in Namespaces, ClusterChange(n) \/ Outage(n) \/ Recovery(n) PROVE FileInv'
  BY <1>3, SameFile DEF ClusterChange, Outage, Recovery, EnvFrame, actorVars, observers
<1>4. ASSUME NEW a \in Actors, NEW n \in Namespaces, Refresh(a, n) PROVE FileInv'
<2>1. \A b \in Actors : /\ pc'[b] = "store" <=> pc[b] = "store"
                        /\ pc'[b] = "persist" <=> pc[b] = "persist"
  BY <1>4 DEF Refresh, FlagInv, TypeInv, TypeOK, ActorTypes
<2> QED
  BY <1>4, <2>1, SameFile DEF Refresh, RefreshFrame
<1>5. CASE MainNext
<2>1. main # "load" => ~Remembering("startup")
  BY DEF Remembering, FlagInv, TypeInv, TypeOK, ActorTypes
<2>2. \A a \in Actors : Remembering(a) => held'[a] = held[a]
  BY <1>5, <2>1 DEF MainNext, LoadAgain, EndLoad, ReadForRestore, ImportAtStartup, KeepRestored,
                    FlagInv, TypeInv, TypeOK, ActorTypes
<2>3. UNCHANGED <<pc, diskVars>>
  BY <1>5 DEF MainNext, LoadAgain, EndLoad, ReadForRestore, ImportAtStartup, KeepRestored, MainFrame
<2>4. CASE KeepRestored
  BY <2>2, <2>3, <2>4, KeepFile DEF KeepRestored
<2>5. CASE LoadAgain \/ EndLoad \/ ReadForRestore \/ ImportAtStartup
<3>1. UNCHANGED <<memory, diskVars, behind>>
  BY <2>3, <2>5 DEF LoadAgain, EndLoad, ReadForRestore, ImportAtStartup
<3> QED
  BY <2>2, <2>3, <3>1, SameFile
<2> QED
  BY <1>5, <2>4, <2>5 DEF MainNext
<1>6. CASE SignalNext
<2>1. UNCHANGED <<pc, held, diskVars>>
  BY <1>6 DEF SignalNext, ReceiveUSR2, GetState, KeepState, ApplyState, SignalFrame, actorVars
<2>2. CASE KeepState
  BY <2>1, <2>2, KeepFile DEF KeepState
<2>3. CASE ReceiveUSR2 \/ GetState \/ ApplyState
  BY <2>1, <2>3, SameFile DEF ReceiveUSR2, GetState, ApplyState
<2> QED
  BY <1>6, <2>2, <2>3 DEF SignalNext
<1>7. ASSUME NEW n \in Namespaces, RefreshFails(n) PROVE FileInv'
<2>1. \A b \in Actors : /\ pc'[b] = "store" <=> pc[b] = "store"
                        /\ pc'[b] = "persist" <=> pc[b] = "persist"
  BY <1>7 DEF RefreshFails, FlagInv, TypeInv, TypeOK, ActorTypes
<2> QED
  BY <1>7, <2>1, SameFile DEF RefreshFails, RefreshFrame
<1> QED
  BY <1>1, <1>2, <1>3, <1>4, <1>5, <1>6, <1>7, RememberFile, WriterFile DEF Next

\* utils.go:130: a snapshot dropped while a write is in flight, a failed write
\* and two actors that overtake each other are the only ways to leave an older
\* state in the file than in memory.
THEOREM FileCorrect == Spec => []FileFollowsMemory
<1>1. Init => FlagInv /\ FileInv
  BY InitTypeInv, InitFlag, InitFile DEF FlagInv
<1>2. FlagInv /\ FileInv /\ [Next]_vars => FlagInv' /\ FileInv'
  BY NextTypeInv, NextFlag, NextFile DEF FlagInv
<1>3. FlagInv /\ FileInv => FileFollowsMemory
<2> SUFFICES ASSUME FlagInv, FileInv, Quiet, behind = "no", memory # NoState
             PROVE  file = memory
  BY DEF FileFollowsMemory
<2>1. NobodyRemembers /\ Writing = {}
  BY DEF Quiet, NobodyRemembers, Remembering, FlagInv, FlagHeldByOne
<2> QED
  BY <2>1 DEF FileInv, DiskHasMemory
<1> QED
  BY <1>1, <1>2, <1>3, PTL DEF Spec
----------------------------------------------------------------------------
(* What is restored is kept.                                               *)

\* As long as no namespace has been reached, no poller remembers anything and
\* SIGUSR2 finds nothing but what was restored: that is in the DataManager from
\* the import on, and in memory once it is kept.
RestoredHeld ==
    /\ pc["poller"] = "idle"
    /\ main # "running" => /\ unsynced = Namespaces /\ restored = NoState
                           /\ handler = "idle" /\ stale = NoState
    /\ main = "keep" => db = held["startup"]
    /\ restored # NoState => /\ main = "running" /\ handler # "keep"
                             /\ db = restored /\ memory = restored
                             /\ stale \in {NoState, restored}

\* If no new leader was found either, the startup load remembers nothing, and
\* whatever anybody holds is the state from the file.
FileUntouched ==
    /\ pc["startup"] = "idle" /\ Writing = {} /\ file = initial
    /\ memory \in {NoState, initial} /\ stale \in {NoState, initial}
    /\ main \in {"import", "keep"} => held["startup"] = initial
    /\ restored \in {NoState, initial}

Unreached == RestoredHeld /\ (~leaderOnly => FileUntouched)
RestoreInv == reached = {} => Unreached

LEMMA ImportAgain ==
    ASSUME NEW s \in Snapshots, NEW ns
    PROVE  Import(s, s, ns) = s
  BY DEF Import, Snapshots

LEMMA ImportAll ==
    ASSUME NEW d \in Snapshots, NEW s \in Snapshots
    PROVE  Import(d, s, Namespaces) = s
  BY DEF Import, Snapshots

LEMMA InitRestore == Init => RestoreInv
  BY ActorsAre DEF Init, RestoreInv, Unreached, RestoredHeld, FileUntouched, AllIdle, NoWriter,
                   Idle, Writing

LEMMA CrashRestore == Crash => RestoreInv'
  BY ActorsAre DEF Crash, RestoreInv, Unreached, RestoredHeld, FileUntouched, AllIdle, NoWriter,
                   Idle, Writing

LEMMA MainRestore ==
    ASSUME TypeInv, Unreached, MainNext
    PROVE  Unreached'
<1> USE DEF Unreached, RestoredHeld, FileUntouched
<1>1. UNCHANGED <<pc, diskVars, signalVars, leaderOnly, initial>>
  BY DEF MainNext, LoadAgain, EndLoad, ReadForRestore, ImportAtStartup, KeepRestored, MainFrame
<1>2. /\ Writing' = Writing /\ file' = file
      /\ stale' = stale /\ handler' = handler /\ leaderOnly' = leaderOnly
  BY <1>1 DEF Writing, diskVars, signalVars
<1>3. CASE LoadAgain \/ EndLoad
  BY <1>1, <1>2, <1>3 DEF LoadAgain, EndLoad
<1>4. CASE ReadForRestore
<2>1. held' = held \/ held'["startup"] = file
  BY <1>4, ActorsAre DEF ReadForRestore, TypeInv, TypeOK, ActorTypes
<2> QED
  BY <1>1, <1>2, <1>4, <2>1, ActorsAre DEF ReadForRestore, TypeInv, TypeOK, ActorTypes
<1>5. CASE ImportAtStartup
<2>1. db' = held["startup"]
  BY <1>5, StatesAre, ActorsAre, ImportAll
     DEF ImportAtStartup, TypeInv, TypeOK, ActorTypes, StateTypes
<2> QED
  BY <1>1, <1>2, <1>5, <2>1 DEF ImportAtStartup
<1>6. CASE KeepRestored
  BY <1>1, <1>2, <1>6 DEF KeepRestored
<1> QED
  BY <1>3, <1>4, <1>5, <1>6 DEF MainNext

LEMMA SignalRestore ==
    ASSUME TypeInv, Unreached, SignalNext
    PROVE  Unreached'
<1> USE DEF Unreached, RestoredHeld, FileUntouched
<1>1. UNCHANGED <<startVars, actorVars, diskVars, leaderOnly, restored, initial>>
  BY DEF SignalNext, ReceiveUSR2, GetState, KeepState, ApplyState, SignalFrame
<1>2. /\ UNCHANGED <<main, unsynced, pc, held, file>>
      /\ Writing' = Writing
  BY <1>1 DEF Writing, diskVars, startVars, actorVars
<1>3. main = "running"
  BY DEF SignalNext, ReceiveUSR2, GetState, KeepState, ApplyState
<1>4. handler \in {"keep", "apply"} => stale \in Snapshots
  BY StatesAre DEF TypeInv, TypeOK, SignalTypes, StateTypes
<1>5. CASE ReceiveUSR2
  BY <1>1, <1>2, <1>3, <1>5 DEF ReceiveUSR2, Handle
<1>6. CASE GetState
  BY <1>1, <1>2, <1>3, <1>6 DEF GetState, Handle
<1>7. CASE KeepState
  BY <1>1, <1>2, <1>3, <1>4, <1>7, StatesAre DEF KeepState, Handle
<1>8. CASE ApplyState
<2>1. restored # NoState => db' = restored
<3> SUFFICES ASSUME restored # NoState PROVE db' = restored
  OBVIOUS
<3>1. stale = restored /\ stale \in Snapshots
  BY <1>4, <1>8, StatesAre DEF ApplyState
<3> QED
  BY <1>8, <3>1, ImportAgain DEF ApplyState
<2> QED
  BY <1>1, <1>2, <1>3, <1>8, <2>1 DEF ApplyState, Handle
<1> QED
  BY <1>5, <1>6, <1>7, <1>8 DEF SignalNext

LEMMA WriterRestore ==
    ASSUME TypeInv, Unreached, NEW w \in Writers, WriterNext(w)
    PROVE  Unreached'
<1> USE DEF Unreached, RestoredHeld, FileUntouched
<1>1. UNCHANGED <<db, startVars, actorVars, memory, signalVars, leaderOnly, restored, initial>>
  BY DEF WriterNext, WriteEnds, WriteFails, ResultInTime, TimeOut, LateResult, WriterFrame
<1>2. ASSUME Writing = {} PROVE Writing' = {} /\ file' = file
<2>1. writer[w].inner # "write"
  BY <1>2 DEF Writing
<2>2. file' = file
  BY <2>1 DEF WriterNext, WriteEnds, WriteFails, ResultInTime, TimeOut, LateResult
<2>3. Writing' = {}
  BY <1>2, <2>1 DEF WriterNext, WriteEnds, WriteFails, ResultInTime, TimeOut, LateResult, Idle,
                    Writing, TypeInv, TypeOK, WriterTypes
<2> QED
  BY <2>2, <2>3
<1> QED
  BY <1>1, <1>2 DEF startVars, actorVars, signalVars

\* The startup load remembers what it has found of a leader without apps; that
\* is over when the state is restored.
LEMMA ActorRestore ==
    ASSUME TypeInv, reached = {}, Unreached,
           \/ \E n \in Namespaces : RefreshFails(n)
           \/ \E a \in Actors : Remember(a)
    PROVE  Unreached'
<1> USE DEF Unreached, RestoredHeld
<1>1. CASE \E n \in Namespaces : RefreshFails(n)
<2>1. leaderOnly' = TRUE /\ pc'["poller"] = pc["poller"]
  BY <1>1, ActorsAre DEF RefreshFails, TypeInv, TypeOK, ActorTypes
<2> QED
  BY <1>1, <2>1 DEF RefreshFails, RefreshFrame, signalVars
<1>2. CASE \E a \in Actors : Remember(a)
<2>1. Remember("startup")
  BY <1>2, ActorsAre DEF Remember, Export, StoreInMemory, Persist
<2>2. main = "load" /\ leaderOnly = TRUE
  BY <2>1, ActorsAre
     DEF Remember, Export, StoreInMemory, Persist, FileUntouched, TypeInv, TypeOK, ActorTypes,
         MainTypes
<2>3. /\ pc'["poller"] = pc["poller"]
      /\ UNCHANGED <<main, unsynced, restored, handler, stale, leaderOnly>>
  BY <2>1, ActorsAre
     DEF Remember, Export, StoreInMemory, Persist, ActorFrame, TypeInv, TypeOK, ActorTypes,
         signalVars, observers
<2> QED
  BY <2>2, <2>3
<1> QED
  BY <1>1, <1>2

LEMMA NextRestore == TypeInv /\ RestoreInv /\ [Next]_vars => RestoreInv'
<1> SUFFICES ASSUME TypeInv, RestoreInv, [Next]_vars, reached' = {} PROVE Unreached'
  BY DEF RestoreInv
<1>1. CASE UNCHANGED vars
  BY <1>1 DEF RestoreInv, Unreached, RestoredHeld, FileUntouched, Writing, vars, startVars,
              actorVars, diskVars, signalVars, observers
<1>2. CASE Crash
  BY <1>2, CrashRestore DEF RestoreInv
<1>3. ASSUME NEW n \in Namespaces, ClusterChange(n) \/ Outage(n) \/ Recovery(n) PROVE Unreached'
  BY <1>3 DEF ClusterChange, Outage, Recovery, EnvFrame, RestoreInv, Unreached, RestoredHeld,
              FileUntouched, Writing, startVars, actorVars, diskVars, signalVars, observers
<1>4. ASSUME NEW a \in Actors, NEW n \in Namespaces, Refresh(a, n) PROVE FALSE
  BY <1>4 DEF Refresh
<1>5. CASE \/ \E n \in Namespaces : RefreshFails(n)
           \/ \E a \in Actors : Remember(a)
<2>1. reached' = reached
  BY <1>5 DEF RefreshFails, Remember, Export, StoreInMemory, Persist, observers
<2> QED
  BY <1>5, <2>1, ActorRestore DEF RestoreInv
<1>6. ASSUME NEW w \in Writers, WriterNext(w) PROVE Unreached'
<2>1. reached' = reached
  BY <1>6 DEF WriterNext, WriteEnds, WriteFails, ResultInTime, TimeOut, LateResult, WriterFrame
<2> QED
  BY <1>6, <2>1, WriterRestore DEF RestoreInv
<1>7. CASE MainNext
<2>1. reached' = reached
  BY <1>7 DEF MainNext, LoadAgain, EndLoad, ReadForRestore, ImportAtStartup, KeepRestored, MainFrame
<2> QED
  BY <1>7, <2>1, MainRestore DEF RestoreInv
<1>8. CASE SignalNext
<2>1. reached' = reached
  BY <1>8 DEF SignalNext, ReceiveUSR2, GetState, KeepState, ApplyState, SignalFrame
<2> QED
  BY <1>8, <2>1, SignalRestore DEF RestoreInv
<1> QED
  BY <1>1, <1>2, <1>3, <1>4, <1>5, <1>6, <1>7, <1>8 DEF Next

\* src/README.md:244: until fresh controller data is reachable, the restored
\* state stays what the gateway works with and keeps.  drove.go:444-446: it is
\* the state the file has had and still has, unless a load that found a new
\* leader but not its apps has written over it.
THEOREM RestoreCorrect == Spec => []RestoredIsKept
<1>1. Init => TypeInv /\ RestoreInv
  BY InitTypeInv, InitRestore
<1>2. TypeInv /\ RestoreInv /\ [Next]_vars => TypeInv' /\ RestoreInv'
  BY NextTypeInv, NextRestore
<1>3. RestoreInv => RestoredIsKept
  BY DEF RestoreInv, Unreached, RestoredHeld, FileUntouched, RestoredIsKept
<1> QED
  BY <1>1, <1>2, <1>3, PTL DEF Spec
=============================================================================
