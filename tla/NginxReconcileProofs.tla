------------------------ MODULE NginxReconcileProofs ------------------------
(***************************************************************************)
(* Proofs about NginxReconcile for every set of vhosts, servers and plans  *)
(* and every number of failures.                                           *)
(***************************************************************************)
EXTENDS NginxReconcile, TLAPS

\* What TypeOK leaves open between two Reconciles and for the vhosts to come:
\* nothing is decided about them, and each has servers.
LoopInv ==
    /\ pc = "idle" => left = {} /\ done = {} /\ failed = {} /\ ignored = {}
    /\ left \cap done = {}
    /\ \A b \in left : desired[b] # {}
    /\ at # NoBackend => desired[at] # {}

\* A vhost is lost to the loop only as a failed one; the hosts of the vhost at
\* hand were all resolved, or it has failed; and what is deleted is never desired.
Progress ==
    /\ pc # "idle" =>
          \A b \in Backends : desired[b] # {} => b \in left \cup done \cup failed \cup {at}
    /\ \A b \in done \ (failed \cup ignored) : upstream[b] = desired[b]
    /\ at # NoBackend /\ at \notin failed => servers = desired[at]
    /\ pc = "delete" => servers \subseteq upstream[at]

ReconcileInv == TypeOK /\ LoopInv /\ Progress
----------------------------------------------------------------------------
LEMMA InitInv == Init => ReconcileInv
  BY NoBackendAssumption, MaxFaultsAssumption
  DEF Init, LoopInit, ReconcileInv, TypeOK, LoopTypeOK, LoopInv, Progress

LEMMA StartInv == ReconcileInv /\ Start => ReconcileInv'
<1> SUFFICES ASSUME ReconcileInv, Start PROVE ReconcileInv'
  OBVIOUS
<1>1. desired' \in [Backends -> SUBSET Servers]
  BY PlansAssumption DEF Start, Begin
<1>2. at = NoBackend /\ left = {} /\ done = {} /\ failed = {} /\ ignored = {}
  BY DEF Start, Begin, ReconcileInv, TypeOK, LoopTypeOK, LoopInv
<1>3. TypeOK'
  BY <1>1, <1>2, NoBackendAssumption
  DEF ReconcileInv, TypeOK, LoopTypeOK, Start, Begin, Goto
<1>4. LoopInv' /\ Progress'
  BY <1>1, <1>2 DEF LoopInv, Progress, Start, Begin, Goto
<1> QED
  BY <1>3, <1>4 DEF ReconcileInv

LEMMA ResolveInv ==
    ASSUME ReconcileInv, NEW b \in Backends, NEW hosts \in SUBSET desired[b], Resolve(b, hosts)
    PROVE  ReconcileInv'
<1>1. b \notin done /\ b # NoBackend /\ at = NoBackend
  BY NoBackendAssumption DEF Resolve, Take, ReconcileInv, TypeOK, LoopTypeOK, LoopInv
<1>2. TypeOK'
  BY <1>1, MaxFaultsAssumption
  DEF ReconcileInv, TypeOK, LoopTypeOK, Resolve, Take, Goto, NoFault, Fault
<1>3. LoopInv'
  BY <1>1 DEF ReconcileInv, LoopInv, Resolve, Take, Goto
<1>4. Progress'
<2>1. /\ pc = "pick" /\ pc' = "check" /\ at' = b /\ left' = left \ {b} /\ servers' = hosts
      /\ UNCHANGED <<desired, done, upstream, ignored>>
      /\ (hosts = desired[b] /\ failed' = failed) \/ failed' = failed \cup {b}
  BY DEF Resolve, Take, Goto
<2>2. \A c \in Backends : desired[c] # {} => c \in left \cup done \cup failed
  BY <1>1, <2>1, NoBackendAssumption DEF ReconcileInv, Progress
<2> QED
  BY <1>1, <2>1, <2>2 DEF ReconcileInv, Progress
<1> QED
  BY <1>2, <1>3, <1>4 DEF ReconcileInv

LEMMA CallInv == ReconcileInv /\ CallNext => ReconcileInv'
<1> SUFFICES ASSUME ReconcileInv, CallNext PROVE ReconcileInv'
  OBVIOUS
<1> USE NoBackendAssumption, MaxFaultsAssumption
    DEF ReconcileInv, TypeOK, LoopTypeOK, LoopInv, Progress, CallFrame, Stay, GoOn, Leave, Goto,
        Fault, NoFault, UpstreamExists, SetUpstream
<1>1. CASE CheckUpstream
  BY <1>1 DEF CheckUpstream
<1>2. CASE CheckFails
  BY <1>2 DEF CheckFails
<1>3. CASE AddFirst
  BY <1>3 DEF AddFirst, FirstServer
<1>4. CASE PollSucceeds
  BY <1>4 DEF PollSucceeds
<1>5. CASE PollTimesOut
<2>1. /\ at \in Backends /\ pc' = "pick" /\ at' = NoBackend /\ servers' = {}
      /\ failed' = failed \cup {at} /\ done' = done /\ pc = "poll"
      /\ faults' \in 0 .. MaxFaults /\ healthy' = FALSE
      /\ UNCHANGED <<upstream, ignored, desired, left>>
  BY <1>5 DEF PollTimesOut
<2>2. TypeOK'
  BY <2>1
<2>3. LoopInv' /\ Progress'
  BY <2>1
<2> QED
  BY <2>2, <2>3
<1>6. CASE AddServers
  BY <1>6 DEF AddServers
<1>7. CASE DeleteServers
  BY <1>7 DEF DeleteServers
<1>8. CASE UpdateFails
  BY <1>8 DEF UpdateFails
<1> QED
  BY <1>1, <1>2, <1>3, <1>4, <1>5, <1>6, <1>7, <1>8 DEF CallNext

LEMMA FinishInv == ReconcileInv /\ Finish => ReconcileInv'
  BY NoBackendAssumption
  DEF ReconcileInv, TypeOK, LoopTypeOK, LoopInv, Progress, Finish, EndLoop, Forget, Goto,
      NoFault, Verdict

\* One step keeps the invariant.
LEMMA NextInv == ReconcileInv /\ [Next]_vars => ReconcileInv'
<1>1. ReconcileInv /\ UNCHANGED vars => ReconcileInv'
  BY DEF vars, planVars, ReconcileInv, TypeOK, LoopTypeOK, LoopInv, Progress
<1> QED
  BY <1>1, StartInv, ResolveInv, CallInv, FinishInv DEF Next, ReconcileNext

\* What is taken from an upstream is not desired, so it keeps a server.
LEMMA KeepsServer ==
    ASSUME ReconcileInv, [Next]_vars,
           NEW b \in Backends, upstream[b] # {}, upstream'[b] = {}
    PROVE  servers = {}
<1> USE DEF ReconcileInv, TypeOK, LoopTypeOK, SetUpstream
<1>1. CASE AddFirst \/ AddServers
  BY <1>1 DEF AddFirst, FirstServer, AddServers
<1>2. CASE DeleteServers
  BY <1>2 DEF DeleteServers, Progress
<1>3. CASE UNCHANGED upstream
  BY <1>3
<1>4. UNCHANGED upstream \/ AddFirst \/ AddServers \/ DeleteServers
  BY DEF Next, ReconcileNext, CallNext, Start, Resolve, CheckUpstream, CheckFails,
         PollSucceeds, PollTimesOut, UpdateFails, Finish, vars
<1> QED
  BY <1>1, <1>2, <1>3, <1>4
----------------------------------------------------------------------------
\* Every variable keeps its type, the program points that need an upstream or a
\* first server have one (ReconcileAllVhosts and what it calls).
THEOREM TypeCorrect == Spec => []TypeOK
<1>1. ReconcileInv => TypeOK
  BY DEF ReconcileInv
<1> QED
  BY <1>1, InitInv, NextInv, PTL DEF Spec

\* Whatever calls are lost and lookups fail, a Reconcile that reports success has
\* left every vhost with exactly its hosts, unless an update's error went
\* unrecorded (nginx_http_api_client.go:216).
THEOREM SuccessCorrect == Spec => []SuccessMeansDesired
<1>1. ReconcileInv => SuccessMeansDesired
  BY NoBackendAssumption DEF ReconcileInv, TypeOK, LoopTypeOK, Progress, SuccessMeansDesired
<1> QED
  BY <1>1, InitInv, NextInv, PTL DEF Spec

\* No Reconcile takes the last server of a vhost whose hosts could be resolved.
THEOREM DowntimeFree == Spec => NoDowntime
<1>1. ReconcileInv /\ [Next]_vars =>
        [\A b \in Backends : upstream[b] # {} /\ upstream'[b] = {} => servers = {}]_vars
  BY KeepsServer
<1> QED
  BY <1>1, InitInv, NextInv, PTL DEF Spec, NoDowntime
=============================================================================
