--------------------------- MODULE MuninDaemonProofs ---------------------------
(***************************************************************************)
(* Theorems about MuninDaemon, for any number of CLI processes and daemon  *)
(* slots.  TypeCorrect, LockCorrect and SoleDaemonCorrect hold under every *)
(* command and fault; the theorems after SpawnOnly are about a system      *)
(* whose commands only start the daemon and whose only fault is its death. *)
(***************************************************************************)
EXTENDS MuninDaemon, TLAPS

(***************************************************************************)
(* munind.rs and daemon.rs: every process stays at a known point of its    *)
(* code, and the path leads nowhere or to a socket some munind bound.      *)
(***************************************************************************)
THEOREM TypeCorrect == Spec => []TypeOK
<1> USE ConstantsAssumption
<1>1. Init => TypeOK
  BY DEF Init, TypeOK, ClientPC, MainPC, ServePC
<1>2. TypeOK /\ [Next]_vars => TypeOK'
  <2> SUFFICES ASSUME TypeOK, [Next]_vars PROVE TypeOK'
    OBVIOUS
  <2> USE DEF TypeOK, ClientPC, MainPC, ServePC, Critical, clientVars, daemonVars,
              GoTo, ServeGoTo
  <2>1. ASSUME NEW c \in Clients, Begin(c) \/ SpawnLock(c) PROVE TypeOK'
    BY <2>1 DEF Begin, SpawnLock
  <2>2. ASSUME NEW c \in Clients, EnsureStep(c) PROVE TypeOK'
    <3>1. CASE Check(c)          BY <3>1 DEF Check, Return
    <3>2. CASE Recheck(c)        BY <3>2 DEF Recheck, Return
    <3>3. CASE SpawnDetached(c)
      <4>1. ASSUME NEW d \in Daemons, Launch(d),
                   peer' = [peer EXCEPT ![c] = d], GoTo(c, "await"),
                   UNCHANGED <<restarting, lock>>
            PROVE  TypeOK'
        <5>1. overlap' \in BOOLEAN
          BY <4>1, Zenon DEF Launch
        <5>2. QED BY <4>1, <5>1 DEF Launch
      <4>2. CASE Return(c) /\ UNCHANGED <<daemonVars, sock, overlap>>
        BY <4>2 DEF Return
      <4>3. QED BY <3>3, <4>1, <4>2 DEF SpawnDetached
    <3>4. CASE WaitForSocket(c)  BY <3>4 DEF WaitForSocket, Return
    <3>5. CASE SpawnTimeout(c)   BY <3>5 DEF SpawnTimeout, Return
    <3>6. QED BY <2>2, <3>1, <3>2, <3>3, <3>4, <3>5 DEF EnsureStep
  <2>3. ASSUME NEW c \in Clients, StopStep(c) PROVE TypeOK'
    <3>1. CASE StopNotRunning(c) BY <3>1 DEF StopNotRunning, Return
    <3>2. CASE StopConnect(c)    BY <3>2 DEF StopConnect, Reachable
    <3>3. CASE HandleShutdown(c) BY <3>3 DEF HandleShutdown
    <3>4. CASE RequestLost(c)    BY <3>4 DEF RequestLost, Return
    <3>5. CASE StopWait(c)       BY <3>5 DEF StopWait, Return
    <3>6. CASE StopTimeout(c)    BY <3>6 DEF StopTimeout, Return
    <3>7. QED BY <2>3, <3>1, <3>2, <3>3, <3>4, <3>5, <3>6 DEF StopStep
  <2>4. ASSUME NEW c \in Clients, KillClient(c) PROVE TypeOK'
    BY <2>4 DEF KillClient, Return
  <2>5. ASSUME NEW d \in Daemons, MainStep(d) PROVE TypeOK'
    BY <2>5 DEF MainStep, OpenStore, InstallHandlers, DropRuntime, RemoveSocket,
                JoinStorage, EndProcess
  <2>6. ASSUME NEW d \in Daemons, ServeStep(d) PROVE TypeOK'
    BY <2>6 DEF ServeStep, ProbePath, ProbeConnect, RemoveStale, Bind, Listen,
                RestrictPermissions
  <2>7. ASSUME NEW d \in Daemons, RaiseTerm(d) \/ Terminate(d) PROVE TypeOK'
    BY <2>7 DEF RaiseTerm, Terminate, Signalled, EndProcess
  <2>8. ASSUME NEW d \in Daemons, Die(d) \/ LaunchByHand(d) PROVE TypeOK'
    <3>1. CASE Die(d)          BY <3>1 DEF Die, EndProcess
    <3>2. CASE LaunchByHand(d)
      <4>1. overlap' \in BOOLEAN
        BY <3>2, Zenon DEF LaunchByHand, Launch
      <4>2. QED BY <3>2, <4>1 DEF LaunchByHand, Launch
    <3>3. QED BY <2>8, <3>1, <3>2
  <2>9. CASE UNCHANGED vars
    BY <2>9 DEF vars
  <2>10. QED
    BY <2>1, <2>2, <2>3, <2>4, <2>5, <2>6, <2>7, <2>8, <2>9 DEF Next
<1>3. QED BY <1>1, <1>2, PTL DEF Spec

-----------------------------------------------------------------------------
(***************************************************************************)
(* daemon.rs, spawn_lock(): the guard is held from taking the lock to      *)
(* leaving ensure_running, on every path, so two processes are never       *)
(* between the second look and readiness at once.  No strengthening is     *)
(* needed: each step moves pc[c] and lock together.                        *)
(***************************************************************************)
THEOREM LockCorrect == Spec => []LockHeldInsideOnly
<1> USE ConstantsAssumption DEF LockHeldInsideOnly, Critical
<1>1. Init => LockHeldInsideOnly
  BY DEF Init
<1>2. TypeOK /\ LockHeldInsideOnly /\ [Next]_vars => LockHeldInsideOnly'
  <2> SUFFICES ASSUME TypeOK, LockHeldInsideOnly, [Next]_vars PROVE LockHeldInsideOnly'
    OBVIOUS
  <2>0. pc \in [Clients -> ClientPC]
    BY DEF TypeOK
  <2> USE <2>0 DEF GoTo, Return
  <2>1. ASSUME NEW c \in Clients, Begin(c) \/ SpawnLock(c) \/ KillClient(c)
        PROVE  LockHeldInsideOnly'
    BY <2>1 DEF Begin, SpawnLock, KillClient
  <2>2. ASSUME NEW c \in Clients, EnsureStep(c) PROVE LockHeldInsideOnly'
    <3>1. CASE Check(c)          BY <3>1 DEF Check
    <3>2. CASE Recheck(c)        BY <3>2 DEF Recheck
    <3>3. CASE SpawnDetached(c)  BY <3>3 DEF SpawnDetached
    <3>4. CASE WaitForSocket(c)  BY <3>4 DEF WaitForSocket
    <3>5. CASE SpawnTimeout(c)   BY <3>5 DEF SpawnTimeout
    <3>6. QED BY <2>2, <3>1, <3>2, <3>3, <3>4, <3>5 DEF EnsureStep
  <2>3. ASSUME NEW c \in Clients, StopStep(c) PROVE LockHeldInsideOnly'
    <3>1. CASE StopNotRunning(c) BY <3>1 DEF StopNotRunning
    <3>2. CASE StopConnect(c)    BY <3>2 DEF StopConnect
    <3>3. CASE HandleShutdown(c) BY <3>3 DEF HandleShutdown
    <3>4. CASE RequestLost(c)    BY <3>4 DEF RequestLost
    <3>5. CASE StopWait(c)       BY <3>5 DEF StopWait
    <3>6. CASE StopTimeout(c)    BY <3>6 DEF StopTimeout
    <3>7. QED BY <2>3, <3>1, <3>2, <3>3, <3>4, <3>5, <3>6 DEF StopStep
  <2>4. ASSUME NEW d \in Daemons,
               \/ MainStep(d) \/ ServeStep(d) \/ RaiseTerm(d)
               \/ Terminate(d) \/ Die(d) \/ LaunchByHand(d)
        PROVE  UNCHANGED <<pc, lock>>
    BY <2>4 DEF clientVars, MainStep, OpenStore, InstallHandlers, DropRuntime,
                RemoveSocket, JoinStorage, ServeStep, ProbePath, ProbeConnect,
                RemoveStale, Bind, Listen, RestrictPermissions, RaiseTerm,
                Terminate, Die, LaunchByHand
  <2>5. (pc' = pc /\ lock' = lock) => LockHeldInsideOnly'
    OBVIOUS
  <2>6. QED
    BY <2>1, <2>2, <2>3, <2>4, <2>5 DEF vars, Next
<1>3. QED BY <1>1, <1>2, TypeCorrect, PTL DEF Spec

-----------------------------------------------------------------------------
(***************************************************************************)
(* SoleDaemonServes is not inductive: it needs to know what the one live   *)
(* daemon has established at each step of bind_clean and bind.             *)
(***************************************************************************)
ServeInsideProcess ==
  \A d \in Daemons : srv[d] # "none" => main[d] \in {"starting", "waiting", "stopping"}

\* The raise that follows an answer happens in the same poll as the answer.
AckWhileServing == \A d \in ack : srv[d] = "serving"

AtMostOneLive == \A d, e \in Daemons : Live(d) /\ Live(e) => d = e

PathKnown(d) ==
  /\ srv[d] \in {"bound", "listening", "serving"} => sock = d
  /\ srv[d] = "bind" => sock = NoDaemon
  /\ srv[d] \in {"connect", "unlink"} => sock # NoDaemon
  /\ srv[d] # "failed"

SoleInv ==
  /\ ServeInsideProcess
  /\ AckWhileServing
  /\ ~overlap => AtMostOneLive /\ \A d \in Daemons : PathKnown(d)

\* What the steps of the CLI may do to the daemons: nothing, or a launch.
LEMMA ClientSteps ==
  ASSUME NEW c \in Clients,
         Begin(c) \/ SpawnLock(c) \/ EnsureStep(c) \/ StopStep(c) \/ KillClient(c)
  PROVE  \/ /\ UNCHANGED <<main, srv, sock, overlap>>
            /\ \A d \in ack' \ ack : srv[d] = "serving"
         \/ \E d \in Daemons : Launch(d)
<1>1. CASE SpawnDetached(c)
  BY <1>1 DEF SpawnDetached, daemonVars
<1>2. CASE ~SpawnDetached(c)
  BY <1>2 DEF Begin, SpawnLock, KillClient, EnsureStep, Check, Recheck, WaitForSocket,
              SpawnTimeout, StopStep, StopNotRunning, StopConnect, HandleShutdown,
              RequestLost, StopWait, StopTimeout, daemonVars
<1>3. QED BY <1>1, <1>2

\* A process that starts serves nothing yet, and an overlap it makes is recorded.
LEMMA LaunchKeepsSoleInv ==
  ASSUME TypeOK, SoleInv, NEW d \in Daemons, Launch(d)
  PROVE  SoleInv'
<1> USE DEF TypeOK, Launch, Free, Live
<1>1. srv[d] = "none"
  BY DEF SoleInv, ServeInsideProcess, ServePC
<1>2. ServeInsideProcess' /\ AckWhileServing'
  BY <1>1 DEF SoleInv, ServeInsideProcess, AckWhileServing
<1>3. ASSUME ~overlap' PROVE AtMostOneLive' /\ \A e \in Daemons : PathKnown(e)'
  <2>1. ~overlap /\ \A e \in Daemons : ~Live(e)
    BY <1>3
  <2>2. AtMostOneLive'
    BY <2>1 DEF AtMostOneLive
  <2>3. \A e \in Daemons : PathKnown(e)'
    BY <2>1 DEF SoleInv, PathKnown
  <2>4. QED BY <2>2, <2>3
<1>4. QED BY <1>2, <1>3 DEF SoleInv

\* A thread of daemon d moves: only d's own entries change, and no process is born.
LEMMA DaemonKeepsSoleInv ==
  ASSUME TypeOK, SoleInv, NEW d \in Daemons,
         MainStep(d) \/ ServeStep(d) \/ RaiseTerm(d) \/ Terminate(d) \/ Die(d)
  PROVE  SoleInv'
<1> USE ConstantsAssumption DEF TypeOK, MainPC, ServePC, GoTo, ServeGoTo, EndProcess
<1>1. /\ Live(d)
      /\ overlap' = overlap
      /\ \A e \in Daemons \ {d} : main'[e] = main[e] /\ srv'[e] = srv[e]
      /\ sock' \in {sock, d, NoDaemon}
  <2>1. CASE MainStep(d)
    BY <2>1 DEF MainStep, OpenStore, InstallHandlers, DropRuntime, RemoveSocket,
                JoinStorage, Live
  <2>2. CASE ServeStep(d)
    <3>1. srv[d] # "none"
      BY <2>2 DEF ServeStep, ProbePath, ProbeConnect, RemoveStale, Bind, Listen,
                  RestrictPermissions
    <3>2. Live(d)
      BY <3>1 DEF SoleInv, ServeInsideProcess, Live
    <3>3. QED
      BY <3>2, <2>2 DEF ServeStep, ProbePath, ProbeConnect, RemoveStale, Bind, Listen,
                        RestrictPermissions
  <2>3. CASE Terminate(d) \/ Die(d)
    BY <2>3 DEF Terminate, Die, Signalled, Live
  <2>4. CASE RaiseTerm(d)
    BY <2>4 DEF RaiseTerm, Signalled, Live, SoleInv, AckWhileServing, ServeInsideProcess
  <2>5. QED BY <2>1, <2>2, <2>3, <2>4
<1>2. ServeInsideProcess'
  <2>1. srv'[d] # "none" => main'[d] \in {"starting", "waiting", "stopping"}
    <3>1. CASE MainStep(d)
      BY <3>1 DEF MainStep, OpenStore, InstallHandlers, DropRuntime, RemoveSocket,
                  JoinStorage, SoleInv, ServeInsideProcess
    <3>2. CASE ServeStep(d)
      BY <3>2 DEF ServeStep, ProbePath, ProbeConnect, RemoveStale, Bind, Listen,
                  RestrictPermissions, SoleInv, ServeInsideProcess
    <3>3. CASE RaiseTerm(d) \/ Terminate(d) \/ Die(d)
      BY <3>3 DEF RaiseTerm, Terminate, Die, Signalled, SoleInv, ServeInsideProcess
    <3>4. QED BY <3>1, <3>2, <3>3
  <2>2. QED BY <1>1, <2>1 DEF SoleInv, ServeInsideProcess
<1>3. AckWhileServing'
  <2>1. ack' \subseteq ack /\ (d \in ack' => srv'[d] = srv[d])
    <3>1. CASE MainStep(d)
      BY <3>1 DEF MainStep, OpenStore, InstallHandlers, DropRuntime, RemoveSocket,
                  JoinStorage, SoleInv, AckWhileServing, ServeInsideProcess
    <3>2. CASE ServeStep(d)
      BY <3>2 DEF ServeStep, ProbePath, ProbeConnect, RemoveStale, Bind, Listen,
                  RestrictPermissions, SoleInv, AckWhileServing
    <3>3. CASE RaiseTerm(d) \/ Terminate(d) \/ Die(d)
      BY <3>3 DEF RaiseTerm, Terminate, Die, Signalled
    <3>4. QED BY <3>1, <3>2, <3>3
  <2>2. QED BY <1>1, <2>1 DEF SoleInv, AckWhileServing
<1>4. ASSUME ~overlap PROVE AtMostOneLive' /\ \A e \in Daemons : PathKnown(e)'
  <2>1. \A e \in Daemons \ {d} : ~Live(e) /\ ~Live(e)' /\ srv'[e] = "none"
    BY <1>1, <1>4 DEF SoleInv, AtMostOneLive, ServeInsideProcess, Live
  <2>2. AtMostOneLive'
    BY <2>1 DEF AtMostOneLive
  <2>3. PathKnown(d)'
    <3>1. PathKnown(d) /\ (Reachable => Accepts(d))
      BY <1>4, <2>1, <1>1 DEF SoleInv, Reachable, Accepts, ServeInsideProcess, Live
    <3> USE <3>1 DEF PathKnown, Accepts
    <3>2. CASE MainStep(d)
      BY <3>2 DEF MainStep, OpenStore, InstallHandlers, DropRuntime, RemoveSocket,
                  JoinStorage, SoleInv, ServeInsideProcess
    <3>3. CASE ProbePath(d) \/ ProbeConnect(d)
      BY <3>3 DEF ProbePath, ProbeConnect
    <3>4. CASE RemoveStale(d) \/ Bind(d)
      BY <3>4 DEF RemoveStale, Bind
    <3>5. CASE Listen(d) \/ RestrictPermissions(d)
      BY <3>5 DEF Listen, RestrictPermissions
    <3>6. CASE RaiseTerm(d) \/ Terminate(d) \/ Die(d)
      BY <3>6 DEF RaiseTerm, Terminate, Die, Signalled
    <3>7. QED BY <3>2, <3>3, <3>4, <3>5, <3>6 DEF ServeStep
  <2>4. QED BY <2>1, <2>2, <2>3 DEF PathKnown
<1>5. QED BY <1>1, <1>2, <1>3, <1>4 DEF SoleInv

\* A server runs inside a process, and unless processes overlap one is live and knows its path.
LEMMA SoleInvariant == Spec => []SoleInv
<1>1. Init => SoleInv
  BY DEF Init, SoleInv, ServeInsideProcess, AckWhileServing, AtMostOneLive, PathKnown, Live
<1>2. TypeOK /\ SoleInv /\ [Next]_vars => SoleInv'
  <2> SUFFICES ASSUME TypeOK, SoleInv, [Next]_vars PROVE SoleInv'
    OBVIOUS
  <2>1. CASE /\ UNCHANGED <<main, srv, sock, overlap>>
             /\ \A d \in ack' \ ack : srv[d] = "serving"
    BY <2>1 DEF SoleInv, ServeInsideProcess, AckWhileServing, AtMostOneLive, PathKnown, Live
  <2>2. CASE \E d \in Daemons : Launch(d)
    BY <2>2, LaunchKeepsSoleInv
  <2>3. CASE \E d \in Daemons :
               MainStep(d) \/ ServeStep(d) \/ RaiseTerm(d) \/ Terminate(d) \/ Die(d)
    BY <2>3, DaemonKeepsSoleInv
  <2>4. QED
    BY <2>1, <2>2, <2>3, ClientSteps DEF Next, LaunchByHand, vars
<1>3. QED BY <1>1, <1>2, TypeCorrect, PTL DEF Spec

(***************************************************************************)
(* ipc.rs, serve() and bind_clean(), with munind.rs, main(): under every   *)
(* command and fault, as long as no two daemon lifetimes have overlapped,  *)
(* a listening daemon is the one the path leads to and no serve task fails.*)
(***************************************************************************)
THEOREM SoleDaemonCorrect == Spec => []SoleDaemonServes
<1>1. SoleInv => SoleDaemonServes
  BY DEF SoleInv, PathKnown, SoleDaemonServes, Accepts
<1>2. QED BY <1>1, SoleInvariant, PTL

-----------------------------------------------------------------------------
(***************************************************************************)
(* From here on the commands only start the daemon, and the only fault is  *)
(* that a daemon dies.                                                     *)
(***************************************************************************)
SpawnOnly == Commands \subseteq {"ensure"} /\ Faults \subseteq {"die"}

\* Nothing asks a daemon to stop, so it never leaves its two loops.
NobodyStops ==
  /\ restarting = {} /\ ack = {}
  /\ \A c \in Clients : pc[c] \in {"idle", "check", "lock"} \cup Critical
  /\ \A d \in Daemons : main[d] \in {"gone", "opening", "starting", "waiting"}

\* A live daemon is reachable, or the holder of the lock still waits for it.
LiveIsReachableOrAwaited ==
  \A d \in Daemons : Live(d) =>
    \/ sock = d /\ Accepts(d)
    \/ \E c \in Clients : pc[c] = "await" /\ peer[c] = d

\* Between the second look and the spawn there is no daemon at all.
SpawnerIsAlone ==
  \A c \in Clients : pc[c] = "spawn" => \A d \in Daemons : ~Live(d)

SpawnInv ==
  /\ TypeOK /\ LockHeldInsideOnly /\ SoleInv
  /\ ~overlap
  /\ NobodyStops
  /\ \A d \in Daemons : main[d] \in {"starting", "waiting"} => srv[d] # "none"
  /\ LiveIsReachableOrAwaited
  /\ SpawnerIsAlone

\* Without stops and kills, a step is a client that spawns or a daemon that comes up.
LEMMA StepKinds ==
  ASSUME SpawnOnly, SpawnInv, [Next]_vars
  PROVE  \/ \E c \in Clients : Begin(c) \/ SpawnLock(c) \/ EnsureStep(c)
         \/ \E d \in Daemons :
              OpenStore(d) \/ InstallHandlers(d) \/ ServeStep(d) \/ Die(d)
         \/ UNCHANGED vars
<1> USE DEF SpawnOnly, SpawnInv, NobodyStops, Critical
<1>1. ASSUME NEW c \in Clients, StopStep(c) \/ KillClient(c) PROVE FALSE
  BY <1>1 DEF StopStep, StopNotRunning, StopConnect, HandleShutdown, RequestLost,
              StopWait, StopTimeout, KillClient
<1>2. ASSUME NEW d \in Daemons,
             \/ DropRuntime(d) \/ RemoveSocket(d) \/ JoinStorage(d)
             \/ RaiseTerm(d) \/ Terminate(d) \/ LaunchByHand(d)
      PROVE  FALSE
  BY <1>2 DEF DropRuntime, RemoveSocket, JoinStorage, RaiseTerm, Terminate, LaunchByHand
<1>3. QED BY <1>1, <1>2 DEF Next, MainStep

\* The three facts a live daemon's place is derived from.
LEMMA OneAwaiter ==
  ASSUME SpawnInv, NEW c \in Clients, pc[c] \in Critical, NEW e \in Clients, e # c
  PROVE  pc[e] \notin Critical
BY ConstantsAssumption DEF SpawnInv, LockHeldInsideOnly

\* A live daemon while none is reachable is one its spawner waits for.
LEMMA LiveButUnreachable ==
  ASSUME SpawnInv, NEW d \in Daemons, Live(d), ~Reachable
  PROVE  \E c \in Clients : pc[c] = "await" /\ peer[c] = d
BY DEF SpawnInv, LiveIsReachableOrAwaited, Reachable

\* While a daemon is reachable, it is the live one.
LEMMA ReachableIsSole ==
  ASSUME SpawnInv, Reachable, NEW d \in Daemons, Live(d)
  PROVE  sock = d /\ Accepts(d)
<1>1. PICK e \in Daemons : sock = e /\ Accepts(e)
  BY DEF Reachable
<1>2. Live(e)
  BY <1>1 DEF SpawnInv, SoleInv, ServeInsideProcess, Accepts, Live
<1>3. e = d
  BY <1>2 DEF SpawnInv, SoleInv, AtMostOneLive
<1>4. QED BY <1>1, <1>3

(***************************************************************************)
(* daemon.rs, SPAWN_TIMEOUT: when the wait is given up, the child is dead. *)
(***************************************************************************)
LEMMA TimeoutMeansDeath ==
  ASSUME SpawnOnly, SpawnInv, NEW c \in Clients, SpawnTimeout(c)
  PROVE  ~Live(peer[c]) /\ ~Reachable
<1> DEFINE d == peer[c]
<1>1. pc[c] = "await" /\ ~Reachable /\ ~ComingUp(d) /\ d \in Daemons
  BY DEF SpawnTimeout, SpawnOnly, SpawnInv, TypeOK
<1>2. SUFFICES ASSUME Live(d) PROVE FALSE
  BY <1>1
<1>3. main[d] \in {"starting", "waiting"}
  BY <1>1, <1>2 DEF SpawnInv, NobodyStops, Live, ComingUp
<1>4. srv[d] \in {"listening", "serving"} /\ sock = d
  BY <1>1, <1>3 DEF SpawnInv, SoleInv, PathKnown, TypeOK, ServePC, ComingUp
<1>5. QED BY <1>1, <1>4 DEF Reachable, Accepts

\* The spawn lock lets one client at a time launch, and only while nobody is up.
LEMMA ClientKeepsPlaces ==
  ASSUME SpawnOnly, SpawnInv, NEW c \in Clients,
         Begin(c) \/ SpawnLock(c) \/ EnsureStep(c)
  PROVE  /\ ~overlap'
         /\ NobodyStops'
         /\ \A d \in Daemons : main'[d] \in {"starting", "waiting"} => srv'[d] # "none"
         /\ LiveIsReachableOrAwaited'
         /\ SpawnerIsAlone'
<1> USE DEF GoTo, daemonVars, Critical
<1>0. /\ pc \in [Clients -> ClientPC] /\ peer \in [Clients -> Daemons \cup {NoDaemon}]
      /\ main \in [Daemons -> MainPC]
  BY DEF SpawnInv, TypeOK
<1>1. CASE SpawnDetached(c) /\ \E d \in Daemons : Launch(d) /\ pc' = [pc EXCEPT ![c] = "await"]
  <2>1. pc[c] = "spawn" /\ \A d \in Daemons : ~Live(d)
    BY <1>1 DEF SpawnDetached, SpawnInv, SpawnerIsAlone
  <2>2. PICK d \in Daemons : Launch(d) /\ peer' = [peer EXCEPT ![c] = d]
                             /\ pc' = [pc EXCEPT ![c] = "await"] /\ restarting' = restarting
    BY <1>0, <1>1, <2>1 DEF SpawnDetached, Return
  <2>3. ~overlap'
    BY <2>1, <2>2 DEF Launch, SpawnInv
  <2>4. NobodyStops'
    BY <1>0, <2>2 DEF Launch, SpawnInv, NobodyStops
  <2>5. \A e \in Daemons : main'[e] \in {"starting", "waiting"} => srv'[e] # "none"
    BY <1>0, <2>2 DEF Launch, SpawnInv
  <2>6. LiveIsReachableOrAwaited'
    <3> SUFFICES ASSUME NEW e \in Daemons, Live(e)'
                 PROVE  \E b \in Clients : pc'[b] = "await" /\ peer'[b] = e
      BY DEF LiveIsReachableOrAwaited
    <3>1. e = d
      BY <1>0, <2>1, <2>2 DEF Launch, Live
    <3>2. QED BY <1>0, <2>2, <3>1
  <2>7. SpawnerIsAlone'
    <3>1. \A b \in Clients : pc'[b] # "spawn"
      BY <1>0, <2>1, <2>2, OneAwaiter
    <3>2. QED BY <3>1 DEF SpawnerIsAlone
  <2>8. QED BY <2>3, <2>4, <2>5, <2>6, <2>7
<1>2. CASE UNCHANGED <<main, srv, ack, sock, overlap>>
  <2>1. /\ pc' \in [Clients -> ClientPC] /\ peer' \in [Clients -> Daemons \cup {NoDaemon}]
        /\ pc' = [pc EXCEPT ![c] = pc'[c]]
        /\ peer' = peer \/ peer' = [peer EXCEPT ![c] = NoDaemon]
        /\ pc'[c] \in {"idle", "check", "lock", "recheck", "spawn"}
        /\ restarting' = {}
    BY <1>0, <1>2, ConstantsAssumption
       DEF Begin, SpawnLock, EnsureStep, Check, Recheck, SpawnDetached, WaitForSocket,
           SpawnTimeout, Return, Launch, Free, Live, SpawnInv, NobodyStops, SpawnOnly, ClientPC
  <2>2. ~overlap' /\ NobodyStops'
        /\ \A d \in Daemons : main'[d] \in {"starting", "waiting"} => srv'[d] # "none"
    BY <1>2, <2>1 DEF SpawnInv, NobodyStops
  <2>3. LiveIsReachableOrAwaited'
    <3> SUFFICES ASSUME NEW d \in Daemons, Live(d)
                 PROVE  \/ sock = d /\ Accepts(d)
                        \/ \E b \in Clients : pc'[b] = "await" /\ peer'[b] = d
      BY <1>2 DEF LiveIsReachableOrAwaited, Live, Accepts
    <3>1. CASE pc[c] = "await"
      <4>1. WaitForSocket(c) \/ SpawnTimeout(c)
        BY <3>1 DEF Begin, SpawnLock, EnsureStep, Check, Recheck, SpawnDetached
      <4>2. CASE WaitForSocket(c)
        BY <4>2, ReachableIsSole DEF WaitForSocket
      <4>3. CASE SpawnTimeout(c)
        <5>1. ~Live(peer[c]) /\ ~Reachable
          BY <4>3, TimeoutMeansDeath
        <5>2. PICK b \in Clients : pc[b] = "await" /\ peer[b] = d
          BY <5>1, LiveButUnreachable
        <5>3. b # c
          BY <5>1, <5>2
        <5>4. QED BY <3>1, <5>2, <5>3, OneAwaiter
      <4>4. QED BY <4>1, <4>2, <4>3
    <3>2. CASE pc[c] # "await"
      BY <1>0, <2>1, <3>2 DEF SpawnInv, LiveIsReachableOrAwaited
    <3>3. QED BY <3>1, <3>2
  <2>4. SpawnerIsAlone'
    <3>1. CASE Recheck(c) /\ ~Reachable
      <4>1. pc[c] = "recheck"
        BY <3>1 DEF Recheck
      <4>2. \A b \in Clients : pc[b] # "await"
        BY <4>1, OneAwaiter
      <4>3. \A d \in Daemons : ~Live(d)
        BY <3>1, <4>2, LiveButUnreachable
      <4>4. QED BY <1>2, <4>3 DEF SpawnerIsAlone, Live
    <3>2. CASE ~(Recheck(c) /\ ~Reachable)
      <4>1. pc'[c] # "spawn"
        BY <1>0, <1>2, <3>2
           DEF Begin, SpawnLock, EnsureStep, Check, Recheck, SpawnDetached, WaitForSocket,
               SpawnTimeout, Return
      <4>2. QED BY <1>0, <1>2, <2>1, <4>1 DEF SpawnInv, SpawnerIsAlone, Live
    <3>3. QED BY <3>1, <3>2
  <2>5. QED BY <2>2, <2>3, <2>4
<1>3. QED
  BY <1>1, <1>2 DEF Begin, SpawnLock, EnsureStep, Check, Recheck, SpawnDetached,
                    WaitForSocket, SpawnTimeout

\* A daemon that comes up or fails leaves the clients where the invariant has them.
LEMMA DaemonKeepsPlaces ==
  ASSUME SpawnOnly, SpawnInv, NEW d \in Daemons,
         OpenStore(d) \/ InstallHandlers(d) \/ ServeStep(d) \/ Die(d)
  PROVE  /\ ~overlap'
         /\ NobodyStops'
         /\ \A e \in Daemons : main'[e] \in {"starting", "waiting"} => srv'[e] # "none"
         /\ LiveIsReachableOrAwaited'
         /\ SpawnerIsAlone'
<1> USE DEF ServeGoTo, EndProcess, clientVars
<1>0. main \in [Daemons -> MainPC] /\ srv \in [Daemons -> ServePC]
  BY DEF SpawnInv, TypeOK
<1>1. Live(d)
  <2>1. srv[d] # "none" => Live(d)
    BY DEF SpawnInv, SoleInv, ServeInsideProcess, Live
  <2>2. QED
    BY <2>1 DEF Live, OpenStore, InstallHandlers, Die, ServeStep, ProbePath, ProbeConnect,
                RemoveStale, Bind, Listen, RestrictPermissions
<1>2. UNCHANGED <<pc, restarting, peer, lock, overlap>> /\ ack' = {}
  BY DEF OpenStore, InstallHandlers, Die, ServeStep, ProbePath, ProbeConnect,
         RemoveStale, Bind, Listen, RestrictPermissions, SpawnInv, NobodyStops
<1>3. /\ \A e \in Daemons \ {d} : main'[e] = main[e] /\ srv'[e] = srv[e]
      /\ main'[d] \in {"gone", "opening", "starting", "waiting"}
      /\ main'[d] \in {"starting", "waiting"} => srv'[d] # "none"
  BY <1>0 DEF OpenStore, InstallHandlers, Die, ServeStep, ProbePath, ProbeConnect,
              RemoveStale, Bind, Listen, RestrictPermissions, SpawnInv, NobodyStops
<1>4. \A e \in Daemons \ {d} : ~Live(e) /\ ~Live(e)'
  BY <1>1, <1>3 DEF SpawnInv, SoleInv, AtMostOneLive, Live
<1>5. LiveIsReachableOrAwaited'
  <2> SUFFICES ASSUME Live(d)'
               PROVE  \/ sock' = d /\ Accepts(d)'
                      \/ \E c \in Clients : pc[c] = "await" /\ peer[c] = d
    BY <1>2, <1>4 DEF LiveIsReachableOrAwaited
  <2>1. CASE sock = d /\ Accepts(d)
    <3>1. ~Die(d) /\ ~OpenStore(d) /\ sock # NoDaemon
      BY <1>0, <2>1, ConstantsAssumption
         DEF Die, Live, OpenStore, Accepts, SpawnInv, SoleInv, ServeInsideProcess
    <3>2. sock' = d /\ Accepts(d)'
      BY <1>0, <2>1, <3>1 DEF InstallHandlers, ServeStep, ProbePath, ProbeConnect,
                              RemoveStale, Bind, Listen, RestrictPermissions, Accepts
    <3>3. QED BY <3>2
  <2>2. CASE ~(sock = d /\ Accepts(d))
    BY <1>1, <2>2 DEF SpawnInv, LiveIsReachableOrAwaited
  <2>3. QED BY <2>1, <2>2
<1>6. QED
  BY <1>1, <1>2, <1>3, <1>4, <1>5 DEF SpawnInv, NobodyStops, SpawnerIsAlone

\* Of clients that only spawn, none ever launches a second daemon.
LEMMA SpawnInvariant == ASSUME SpawnOnly PROVE Spec => []SpawnInv
<1> DEFINE Places == /\ ~overlap /\ NobodyStops
                     /\ \A d \in Daemons : main[d] \in {"starting", "waiting"} => srv[d] # "none"
                     /\ LiveIsReachableOrAwaited /\ SpawnerIsAlone
<1>1. Init => Places
  BY DEF Init, NobodyStops, LiveIsReachableOrAwaited, SpawnerIsAlone, Live
<1>2. TypeOK /\ LockHeldInsideOnly /\ SoleInv /\ Places /\ [Next]_vars => Places'
  <2> SUFFICES ASSUME SpawnInv, [Next]_vars PROVE Places'
    BY DEF SpawnInv
  <2>1. CASE \E c \in Clients : Begin(c) \/ SpawnLock(c) \/ EnsureStep(c)
    BY <2>1, ClientKeepsPlaces
  <2>2. CASE \E d \in Daemons :
               OpenStore(d) \/ InstallHandlers(d) \/ ServeStep(d) \/ Die(d)
    BY <2>2, DaemonKeepsPlaces
  <2>3. CASE UNCHANGED vars
    BY <2>3 DEF vars, SpawnInv, NobodyStops, LiveIsReachableOrAwaited, SpawnerIsAlone,
                Live, Accepts
  <2>4. QED BY <2>1, <2>2, <2>3, StepKinds
<1>3. SpawnInv <=> TypeOK /\ LockHeldInsideOnly /\ SoleInv /\ Places
  BY DEF SpawnInv
<1> HIDE DEF Places
<1>4. QED BY <1>1, <1>2, <1>3, TypeCorrect, LockCorrect, SoleInvariant, PTL DEF Spec

(***************************************************************************)
(* daemon.rs, ensure_running(): race-free for any number of CLI processes  *)
(* and any pattern of daemon deaths.                                       *)
(***************************************************************************)
THEOREM NoDoubleStartCorrect == ASSUME SpawnOnly PROVE Spec => []NoDoubleStart
<1>1. SpawnInv => NoDoubleStart
  BY DEF SpawnInv, NoDoubleStart
<1>2. QED BY <1>1, SpawnInvariant, PTL

(***************************************************************************)
(* daemon.rs, wait_for_socket() with ipc.rs, bind_clean(): a start runs    *)
(* out of time only if its daemon died, whatever file a dead daemon left.  *)
(***************************************************************************)
THEOREM StartFailsOnlyByDeathCorrect ==
  ASSUME SpawnOnly PROVE Spec => StartFailsOnlyByDeath
<1>1. SpawnInv => [\A c \in Clients : SpawnTimeout(c) => ~Live(peer[c])]_vars
  BY TimeoutMeansDeath
<1>2. QED BY <1>1, SpawnInvariant, PTL DEF StartFailsOnlyByDeath

-----------------------------------------------------------------------------
(***************************************************************************)
(* The refinement: who owns the service is the one live process, and the   *)
(* service answers when that process is reachable.                         *)
(***************************************************************************)
LEMMA OwnerOfSole ==
  ASSUME NEW d \in Daemons, Live(d), \A e \in Daemons : Live(e) => e = d
  PROVE  Owner = d
<1>1. (CHOOSE e \in Daemons : Live(e)) = d
  OBVIOUS
<1>2. QED BY <1>1 DEF Owner

\* No daemon, no owner.
LEMMA OwnerOfNone ==
  ASSUME \A e \in Daemons : ~Live(e)
  PROVE  Owner = NoDaemon
BY DEF Owner

\* What a daemon does is a step of the singleton, or none.
LEMMA DaemonStepRefines ==
  ASSUME SpawnOnly, SpawnInv, NEW d \in Daemons,
         OpenStore(d) \/ InstallHandlers(d) \/ ServeStep(d) \/ Die(d)
  PROVE  [Singleton!Next]_<<Owner, Reachable>>
<1> USE DEF ServeGoTo, EndProcess, clientVars
<1>0. main \in [Daemons -> MainPC] /\ srv \in [Daemons -> ServePC] /\ d # NoDaemon
  BY ConstantsAssumption DEF SpawnInv, TypeOK
<1>1. Live(d)
  <2>1. srv[d] # "none" => Live(d)
    BY DEF SpawnInv, SoleInv, ServeInsideProcess, Live
  <2>2. QED
    BY <2>1 DEF Live, OpenStore, InstallHandlers, Die, ServeStep, ProbePath, ProbeConnect,
                RemoveStale, Bind, Listen, RestrictPermissions
<1>2. \A e \in Daemons \ {d} : main'[e] = main[e] /\ srv'[e] = srv[e]
  BY <1>0 DEF OpenStore, InstallHandlers, Die, ServeStep, ProbePath, ProbeConnect,
              RemoveStale, Bind, Listen, RestrictPermissions
<1>3. \A e \in Daemons : Live(e) => e = d
  BY <1>1 DEF SpawnInv, SoleInv, AtMostOneLive
<1>4. \A e \in Daemons : Live(e)' => e = d
  BY <1>2, <1>3 DEF Live
<1>5. \A e \in Daemons \ {d} : ~Accepts(e)'
  BY <1>2, <1>3 DEF SpawnInv, SoleInv, ServeInsideProcess, Live, Accepts
<1>6. Owner = d
  BY <1>1, <1>3, OwnerOfSole
<1>7. CASE Die(d)
  <2>1. ~Live(d)' /\ ~Accepts(d)'
    BY <1>0, <1>7 DEF Die, Live, Accepts
  <2>2. Owner' = NoDaemon
    BY <1>4, <2>1 DEF Owner
  <2>3. Reachable' = FALSE
    BY <1>5, <2>1 DEF Reachable
  <2>4. Singleton!End
    BY <1>0, <1>6, <2>2, <2>3 DEF Singleton!End
  <2>5. QED BY <2>4 DEF Singleton!Next
<1>8. CASE ~Die(d)
  <2>1. Live(d)'
    BY <1>0, <1>1, <1>8 DEF Live, OpenStore, InstallHandlers, ServeStep, ProbePath,
                            ProbeConnect, RemoveStale, Bind, Listen, RestrictPermissions
  <2>2. Owner' = d
    <3>1. (CHOOSE e \in Daemons : Live(e)') = d
      BY <1>4, <2>1
    <3>2. QED BY <2>1, <3>1 DEF Owner
  <2>3. CASE Reachable'
    BY <1>0, <1>6, <2>2, <2>3 DEF Singleton!Answer, Singleton!Next
  <2>4. CASE ~Reachable'
    <3>1. ~Reachable
      <4> SUFFICES ASSUME Reachable PROVE Reachable'
        BY <2>4
      <4>1. sock = d /\ Accepts(d)
        BY <1>1, ReachableIsSole
      <4>2. ~OpenStore(d)
        BY <4>1 DEF OpenStore, Accepts, SpawnInv, SoleInv, ServeInsideProcess
      <4>3. sock' = d /\ Accepts(d)'
        BY <1>0, <1>8, <4>1, <4>2
           DEF InstallHandlers, ServeStep, ProbePath, ProbeConnect, RemoveStale, Bind,
               Listen, RestrictPermissions, Accepts
      <4>4. QED BY <4>3 DEF Reachable
    <3>2. Reachable' = Reachable
      BY <2>4, <3>1, Zenon DEF Reachable
    <3>3. QED BY <1>6, <2>2, <3>2
  <2>5. QED BY <2>3, <2>4
<1>9. QED BY <1>7, <1>8

\* What a client does leaves the owner alone, a launch apart.
LEMMA ClientStepRefines ==
  ASSUME SpawnOnly, SpawnInv, NEW c \in Clients,
         Begin(c) \/ SpawnLock(c) \/ EnsureStep(c)
  PROVE  [Singleton!Next]_<<Owner, Reachable>>
<1>1. CASE UNCHANGED <<main, srv, sock>>
  BY <1>1 DEF Owner, Reachable, Live, Accepts
<1>2. CASE pc[c] = "spawn" /\ \E d \in Daemons : Launch(d)
  <2>1. \A d \in Daemons : ~Live(d)
    BY <1>2 DEF SpawnInv, SpawnerIsAlone
  <2>2. PICK d \in Daemons : Launch(d)
    BY <1>2
  <2>3. main' = [main EXCEPT ![d] = "opening"] /\ UNCHANGED <<srv, sock>>
    BY <2>2 DEF Launch
  <2>4. \A e \in Daemons : Live(e)' <=> e = d
    BY <2>1, <2>3 DEF Live, SpawnInv, TypeOK
  <2>5. Owner' = d
    <3>1. (CHOOSE e \in Daemons : Live(e)') = d
      BY <2>4
    <3>2. QED BY <2>4, <3>1 DEF Owner
  <2>6. Reachable' = FALSE
    BY <2>1, <2>3 DEF Reachable, Accepts, SpawnInv, SoleInv, ServeInsideProcess, Live
  <2>7. Singleton!Start(d)
    BY <2>1, <2>5, <2>6, OwnerOfNone DEF Singleton!Start
  <2>8. QED BY <2>7 DEF Singleton!Next
<1>3. QED
  BY <1>1, <1>2 DEF Begin, SpawnLock, EnsureStep, Check, Recheck, SpawnDetached,
                    WaitForSocket, SpawnTimeout, daemonVars

(***************************************************************************)
(* daemon.rs and ipc.rs: the protocol of lock, second look, bind_clean and *)
(* wait implements the promise of MuninSingleton.                          *)
(***************************************************************************)
THEOREM SpawnImplementsSingleton == ASSUME SpawnOnly PROVE Spec => SingletonSpec
<1>1. Init => Singleton!Init
  <2> SUFFICES ASSUME Init PROVE Singleton!Init
    OBVIOUS
  <2>1. Owner = NoDaemon
    BY DEF Init, Owner, Live
  <2>2. Reachable = FALSE
    BY DEF Init, Reachable, Accepts
  <2>3. QED BY <2>1, <2>2 DEF Singleton!Init
<1>2. SpawnInv /\ [Next]_vars => [Singleton!Next]_<<Owner, Reachable>>
  <2> SUFFICES ASSUME SpawnInv, [Next]_vars PROVE [Singleton!Next]_<<Owner, Reachable>>
    OBVIOUS
  <2>1. CASE \E c \in Clients : Begin(c) \/ SpawnLock(c) \/ EnsureStep(c)
    BY <2>1, ClientStepRefines
  <2>2. CASE \E d \in Daemons :
               OpenStore(d) \/ InstallHandlers(d) \/ ServeStep(d) \/ Die(d)
    BY <2>2, DaemonStepRefines
  <2>3. CASE UNCHANGED vars
    BY <2>3 DEF vars, Owner, Reachable, Live, Accepts
  <2>4. QED BY <2>1, <2>2, <2>3, StepKinds
<1>3. QED BY <1>1, <1>2, SpawnInvariant, PTL DEF Spec, SingletonSpec, Singleton!Spec
=============================================================================
