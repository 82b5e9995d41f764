------------------------------ MODULE MuninDaemon ------------------------------
(***************************************************************************)
(* The life of munind: the CLI processes that start, stop and restart it   *)
(* (munin/src/daemon.rs, run_daemon in bin/munin.rs), the daemon processes *)
(* that bind and release the socket (bin/munind.rs, ipc.rs), the spawn     *)
(* lock and the socket path they share.  Every system call that another    *)
(* process can observe is a step of its own.                               *)
(*                                                                         *)
(* A daemon process binds at most once, so its name also names the socket  *)
(* file it created: sock = d says the path leads to the file d bound,      *)
(* whether or not d still listens on it (a stale socket when it does not). *)
(***************************************************************************)
EXTENDS Naturals, FiniteSets

CONSTANTS
  Clients,    \* CLI processes
  Daemons,    \* slots for munind processes
  Commands,   \* the commands the CLI issues, a subset of AllCommands
  Faults,     \* what the environment may do, a subset of AllFaults
  NoClient, NoDaemon

AllCommands == {"ensure", "stop", "restart"}

(***************************************************************************)
(* "die": a munind ends abruptly (SIGKILL, out of memory, Store::open      *)
(* fails).  "kill": a CLI process is interrupted.  "launch": somebody runs *)
(* the munind binary by hand.  "sigterm": somebody sends munind SIGTERM.   *)
(* "slow": a starting or stopping daemon may outlast the CLI's two         *)
(* seconds; without it the CLI gives up only on a daemon that has failed.  *)
(***************************************************************************)
AllFaults == {"die", "kill", "launch", "sigterm", "slow"}

ASSUME ConstantsAssumption ==
  /\ NoClient \notin Clients
  /\ NoDaemon \notin Daemons
  /\ Commands \subseteq AllCommands
  /\ Faults \subseteq AllFaults

VARIABLES
  pc,          \* pc[c]: where CLI process c is in its command
  restarting,  \* the clients whose stop is the first half of a restart
  peer,        \* peer[c]: the daemon c spawned, or asked to shut down
  lock,        \* holder of the flock on munin.spawn.lock
  main,        \* main[d]: the main thread of munind process d
  srv,         \* srv[d]: the serve task on d's runtime
  ack,         \* the daemons that answered Ok to Shutdown, SIGTERM not yet raised
  sock,        \* the daemon whose socket file is at the path
  overlap      \* history: some munind was started while another was alive

clientVars == <<pc, restarting, peer, lock>>
daemonVars == <<main, srv, ack>>
vars == <<pc, restarting, peer, lock, main, srv, ack, sock, overlap>>

(***************************************************************************)
(* "stop", "request" and "stopwait" are inside stop(); "check" to "await"  *)
(* inside ensure_running(), of which "recheck", "spawn" and "await" hold   *)
(* the lock guard.                                                         *)
(***************************************************************************)
Critical == {"recheck", "spawn", "await"}
ClientPC == {"idle", "stop", "request", "stopwait", "check", "lock"} \cup Critical

MainPC == {"gone", "opening", "starting", "waiting", "stopping", "unlinking", "draining"}
ServePC == {"none", "queued", "connect", "unlink", "bind", "bound", "listening",
            "serving", "failed"}

TypeOK ==
  /\ pc \in [Clients -> ClientPC]
  /\ restarting \subseteq Clients
  /\ peer \in [Clients -> Daemons \cup {NoDaemon}]
  /\ \A c \in Clients : pc[c] \in {"await", "request", "stopwait"} => peer[c] \in Daemons
  /\ lock \in Clients \cup {NoClient}
  /\ main \in [Daemons -> MainPC]
  /\ srv \in [Daemons -> ServePC]
  /\ ack \subseteq Daemons
  /\ sock \in Daemons \cup {NoDaemon}
  /\ overlap \in BOOLEAN

Init ==
  /\ pc = [c \in Clients |-> "idle"]
  /\ restarting = {}
  /\ peer = [c \in Clients |-> NoDaemon]
  /\ lock = NoClient
  /\ main = [d \in Daemons |-> "gone"]
  /\ srv = [d \in Daemons |-> "none"]
  /\ ack = {}
  /\ sock = NoDaemon
  /\ overlap = FALSE

Live(d) == main[d] # "gone"
Accepts(d) == srv[d] \in {"listening", "serving"}

\* connect(2) on the path succeeds: some process listens on the file there.
Reachable == \E d \in Daemons : sock = d /\ Accepts(d)

\* On its way to listening: alive, and no step of bind_clean or bind has failed.
ComingUp(d) ==
  main[d] = "opening" \/ srv[d] \in {"queued", "connect", "unlink", "bind", "bound"}

\* A slot for a new process, with no trace of its previous use.
Free(d) == ~Live(d) /\ sock # d /\ \A c \in Clients : peer[c] # d

-----------------------------------------------------------------------------
(* The CLI.                                                                *)

GoTo(c, label) == pc' = [pc EXCEPT ![c] = label]

\* The process exits, by whatever path: the lock guard drops with it.
Return(c) ==
  /\ GoTo(c, "idle")
  /\ restarting' = restarting \ {c}
  /\ peer' = [peer EXCEPT ![c] = NoDaemon]
  /\ lock' = IF lock = c THEN NoClient ELSE lock

Begin(c) ==
  /\ pc[c] = "idle"
  /\ \E cmd \in Commands :
        /\ GoTo(c, IF cmd = "ensure" THEN "check" ELSE "stop")
        /\ restarting' = IF cmd = "restart" THEN restarting \cup {c} ELSE restarting
  /\ UNCHANGED <<peer, lock, daemonVars, sock, overlap>>

Check(c) ==
  /\ pc[c] = "check"
  /\ \/ Reachable /\ Return(c)
     \/ ~Reachable /\ GoTo(c, "lock") /\ UNCHANGED <<restarting, peer, lock>>
  /\ UNCHANGED <<daemonVars, sock, overlap>>

SpawnLock(c) ==
  /\ pc[c] = "lock"
  /\ lock = NoClient
  /\ lock' = c
  /\ GoTo(c, "recheck")
  /\ UNCHANGED <<restarting, peer, daemonVars, sock, overlap>>

\* mutant: no second look after the lock was granted
Recheck_TrustsFirstLook(c) ==
  /\ pc[c] = "recheck"
  /\ GoTo(c, "spawn")
  /\ UNCHANGED <<restarting, peer, lock, daemonVars, sock, overlap>>

Recheck(c) ==
  /\ pc[c] = "recheck"
  /\ \/ Reachable /\ Return(c)
     \/ ~Reachable /\ GoTo(c, "spawn") /\ UNCHANGED <<restarting, peer, lock>>
  /\ UNCHANGED <<daemonVars, sock, overlap>>

\* A new munind process: its main thread is about to open the store.
Launch(d) ==
  /\ Free(d)
  /\ main' = [main EXCEPT ![d] = "opening"]
  /\ overlap' = (overlap \/ \E e \in Daemons : Live(e))
  /\ UNCHANGED <<srv, ack, sock>>

\* mutant: the guard is dropped as soon as the child runs
SpawnDetached_DropsGuard(c) ==
  /\ pc[c] = "spawn"
  /\ \E d \in Daemons :
        /\ Launch(d)
        /\ peer' = [peer EXCEPT ![c] = d]
        /\ GoTo(c, "await")
        /\ lock' = NoClient
        /\ UNCHANGED restarting

SpawnDetached(c) ==
  /\ pc[c] = "spawn"
  /\ \/ \E d \in Daemons :
          /\ Launch(d)
          /\ peer' = [peer EXCEPT ![c] = d]
          /\ GoTo(c, "await")
          /\ UNCHANGED <<restarting, lock>>
     \/ Return(c) /\ UNCHANGED <<daemonVars, sock, overlap>>  \* no log file, no binary, no fork

WaitForSocket(c) ==
  /\ pc[c] = "await"
  /\ Reachable
  /\ Return(c)
  /\ UNCHANGED <<daemonVars, sock, overlap>>

\* mutant: the error path leaks the guard
SpawnTimeout_LeaksGuard(c) ==
  /\ pc[c] = "await"
  /\ "slow" \in Faults \/ (~Reachable /\ ~ComingUp(peer[c]))
  /\ GoTo(c, "idle")
  /\ peer' = [peer EXCEPT ![c] = NoDaemon]
  /\ UNCHANGED <<restarting, lock, daemonVars, sock, overlap>>

SpawnTimeout(c) ==
  /\ pc[c] = "await"
  /\ "slow" \in Faults \/ (~Reachable /\ ~ComingUp(peer[c]))
  /\ Return(c)
  /\ UNCHANGED <<daemonVars, sock, overlap>>

\* stop() finds nobody: restart goes on to ensure_running.
StopNotRunning(c) ==
  /\ pc[c] = "stop"
  /\ ~Reachable
  /\ IF c \in restarting
     THEN GoTo(c, "check") /\ restarting' = restarting \ {c} /\ UNCHANGED <<peer, lock>>
     ELSE Return(c)
  /\ UNCHANGED <<daemonVars, sock, overlap>>

StopConnect(c) ==
  /\ pc[c] = "stop"
  /\ Reachable
  /\ peer' = [peer EXCEPT ![c] = sock]
  /\ GoTo(c, "request")
  /\ UNCHANGED <<restarting, lock, daemonVars, sock, overlap>>

\* mutant: end of file is not noticed
RequestLost_Never(c) == pc[c] = "request" /\ UNCHANGED vars

\* The daemon went away before it answered: end of file, "parse response".
RequestLost(c) ==
  /\ pc[c] = "request"
  /\ ~Accepts(peer[c])
  /\ Return(c)
  /\ UNCHANGED <<daemonVars, sock, overlap>>

StopWait(c) ==
  /\ pc[c] = "stopwait"
  /\ ~Reachable
  /\ IF c \in restarting
     THEN /\ GoTo(c, "check")
          /\ restarting' = restarting \ {c}
          /\ peer' = [peer EXCEPT ![c] = NoDaemon]
          /\ UNCHANGED lock
     ELSE Return(c)
  /\ UNCHANGED <<daemonVars, sock, overlap>>

StopTimeout(c) ==
  /\ pc[c] = "stopwait"
  /\ Reachable
  /\ "slow" \in Faults \/ sock # peer[c]
  /\ Return(c)
  /\ UNCHANGED <<daemonVars, sock, overlap>>

KillClient(c) ==
  /\ "kill" \in Faults
  /\ pc[c] # "idle"
  /\ Return(c)
  /\ UNCHANGED <<daemonVars, sock, overlap>>

-----------------------------------------------------------------------------
(* munind: main() and the serve task.                                      *)

ServeGoTo(d, label) == srv' = [srv EXCEPT ![d] = label]

\* mutant: the process is never reaped
EndProcess_Zombie(d) ==
  /\ main' = [main EXCEPT ![d] = "zombie"]
  /\ ServeGoTo(d, "none")
  /\ ack' = ack \ {d}

\* The process is gone; the kernel closes its listener, the file stays.
EndProcess(d) ==
  /\ main' = [main EXCEPT ![d] = "gone"]
  /\ ServeGoTo(d, "none")
  /\ ack' = ack \ {d}

OpenStore(d) ==
  /\ main[d] = "opening"
  /\ main' = [main EXCEPT ![d] = "starting"]
  /\ ServeGoTo(d, "queued")
  /\ UNCHANGED <<clientVars, ack, sock, overlap>>

InstallHandlers(d) ==
  /\ main[d] = "starting"
  /\ main' = [main EXCEPT ![d] = "waiting"]
  /\ UNCHANGED <<clientVars, srv, ack, sock, overlap>>

\* mutant: a signal that comes before the handlers is dropped
Signalled_Dropped(d) ==
  /\ main' = [main EXCEPT ![d] = IF @ = "waiting" THEN "stopping" ELSE @]
  /\ ack' = ack \ {d}
  /\ UNCHANGED srv

\* SIGTERM before the handlers are installed takes the default action.
Signalled(d) ==
  \/ main[d] \in {"opening", "starting"} /\ EndProcess(d)
  \/ /\ main[d] \notin {"opening", "starting"}
     /\ main' = [main EXCEPT ![d] = IF @ = "waiting" THEN "stopping" ELSE @]
     /\ ack' = ack \ {d}
     /\ UNCHANGED srv

\* The handler of Shutdown answers first and raises the signal afterwards.
HandleShutdown(c) ==
  /\ pc[c] = "request"
  /\ srv[peer[c]] = "serving"
  /\ ack' = ack \cup {peer[c]}
  /\ GoTo(c, "stopwait")
  /\ UNCHANGED <<restarting, peer, lock, main, srv, sock, overlap>>

RaiseTerm(d) ==
  /\ d \in ack
  /\ Signalled(d)
  /\ UNCHANGED <<clientVars, sock, overlap>>

Terminate(d) ==
  /\ "sigterm" \in Faults
  /\ Live(d)
  /\ d \notin ack
  /\ Signalled(d)
  /\ UNCHANGED <<clientVars, sock, overlap>>

\* mutant: the socket is removed while the listener is still open
DropRuntime_AfterRemoval(d) ==
  /\ main[d] = "stopping"
  /\ d \notin ack
  /\ main' = [main EXCEPT ![d] = "unlinking"]
  /\ sock' = NoDaemon
  /\ UNCHANGED <<clientVars, srv, ack, overlap>>

\* drop(runtime) waits for a task in the middle of a poll: bind_clean to
\* chmod is one poll, and so is the answer to Shutdown with its raise.
DropRuntime(d) ==
  /\ main[d] = "stopping"
  /\ srv[d] \in {"queued", "serving", "failed"}
  /\ d \notin ack
  /\ main' = [main EXCEPT ![d] = "unlinking"]
  /\ ServeGoTo(d, "none")
  /\ UNCHANGED <<clientVars, ack, sock, overlap>>

\* remove_file takes whatever the path leads to.
RemoveSocket(d) ==
  /\ main[d] = "unlinking"
  /\ main' = [main EXCEPT ![d] = "draining"]
  /\ sock' = NoDaemon
  /\ UNCHANGED <<clientVars, srv, ack, overlap>>

JoinStorage(d) ==
  /\ main[d] = "draining"
  /\ EndProcess(d)
  /\ UNCHANGED <<clientVars, sock, overlap>>

Die(d) ==
  /\ "die" \in Faults
  /\ Live(d)
  /\ EndProcess(d)
  /\ UNCHANGED <<clientVars, sock, overlap>>

LaunchByHand(d) ==
  /\ "launch" \in Faults
  /\ Launch(d)
  /\ UNCHANGED clientVars

\* bind_clean: path.exists()
ProbePath(d) ==
  /\ srv[d] = "queued"
  /\ ServeGoTo(d, IF sock = NoDaemon THEN "bind" ELSE "connect")
  /\ UNCHANGED <<clientVars, main, ack, sock, overlap>>

\* bind_clean: connect, and refuse if somebody answers
ProbeConnect(d) ==
  /\ srv[d] = "connect"
  /\ ServeGoTo(d, IF Reachable THEN "failed" ELSE "unlink")
  /\ UNCHANGED <<clientVars, main, ack, sock, overlap>>

\* mutant: the stale file is left where it is
RemoveStale_KeepsFile(d) ==
  /\ srv[d] = "unlink"
  /\ ServeGoTo(d, "bind")
  /\ UNCHANGED <<clientVars, main, ack, sock, overlap>>

\* bind_clean: remove_file, an error if the file vanished meanwhile
RemoveStale(d) ==
  /\ srv[d] = "unlink"
  /\ ServeGoTo(d, IF sock = NoDaemon THEN "failed" ELSE "bind")
  /\ sock' = NoDaemon
  /\ UNCHANGED <<clientVars, main, ack, overlap>>

\* UnixListener::bind is two system calls: the file exists before it accepts.
Bind(d) ==
  /\ srv[d] = "bind"
  /\ ServeGoTo(d, IF sock = NoDaemon THEN "bound" ELSE "failed")
  /\ sock' = IF sock = NoDaemon THEN d ELSE sock
  /\ UNCHANGED <<clientVars, main, ack, overlap>>

Listen(d) ==
  /\ srv[d] = "bound"
  /\ ServeGoTo(d, "listening")
  /\ UNCHANGED <<clientVars, main, ack, sock, overlap>>

\* chmod 0600 by path, then the accept loop
RestrictPermissions(d) ==
  /\ srv[d] = "listening"
  /\ ServeGoTo(d, IF sock = NoDaemon THEN "failed" ELSE "serving")
  /\ UNCHANGED <<clientVars, main, ack, sock, overlap>>

-----------------------------------------------------------------------------
EnsureStep(c) ==
  Check(c) \/ Recheck(c) \/ SpawnDetached(c) \/ WaitForSocket(c) \/ SpawnTimeout(c)

StopStep(c) ==
  \/ StopNotRunning(c) \/ StopConnect(c) \/ HandleShutdown(c)
  \/ RequestLost(c) \/ StopWait(c) \/ StopTimeout(c)

MainStep(d) ==
  OpenStore(d) \/ InstallHandlers(d) \/ DropRuntime(d) \/ RemoveSocket(d) \/ JoinStorage(d)

ServeStep(d) ==
  \/ ProbePath(d) \/ ProbeConnect(d) \/ RemoveStale(d)
  \/ Bind(d) \/ Listen(d) \/ RestrictPermissions(d)

Next ==
  \/ \E c \in Clients :
       Begin(c) \/ SpawnLock(c) \/ EnsureStep(c) \/ StopStep(c) \/ KillClient(c)
  \/ \E d \in Daemons :
       \/ MainStep(d) \/ ServeStep(d) \/ RaiseTerm(d)
       \/ Terminate(d) \/ Die(d) \/ LaunchByHand(d)

Spec == Init /\ [][Next]_vars

(***************************************************************************)
(* The scheduler runs every process and thread; flock serves its waiters   *)
(* in turn, and a runtime being dropped starts no further poll, so that a  *)
(* stream of Shutdown requests cannot hold it up.  Nothing obliges a       *)
(* user to issue a command or a fault to occur.                            *)
(***************************************************************************)
Fairness ==
  /\ \A c \in Clients : WF_vars(EnsureStep(c)) /\ WF_vars(StopStep(c)) /\ SF_vars(SpawnLock(c))
  /\ \A d \in Daemons :
       /\ WF_vars(MainStep(d)) /\ WF_vars(ServeStep(d)) /\ WF_vars(RaiseTerm(d))
       /\ SF_vars(DropRuntime(d))

FairSpec == Spec /\ Fairness

-----------------------------------------------------------------------------
(* Properties.                                                             *)

(***************************************************************************)
(* The spawn lock is held by exactly the process that is between taking    *)
(* spawn_lock() and leaving ensure_running, however it leaves: success,    *)
(* error, timeout or a signal.  A lock left behind would block every later *)
(* command that needs the daemon.                                          *)
(***************************************************************************)
LockHeldInsideOnly == \A c \in Clients : pc[c] \in Critical <=> lock = c

(***************************************************************************)
(* ensure_running is race-free (daemon.rs, header): as long as commands    *)
(* only start the daemon, and no CLI process is interrupted between spawn  *)
(* and readiness, no munind is started while another is alive, even when   *)
(* daemons die and leave stale sockets.                                    *)
(***************************************************************************)
NoDoubleStart == ~overlap

(***************************************************************************)
(* A start that is not overtaken by its daemon's death succeeds: a stale   *)
(* socket, a crash in the middle of bind_clean or another starter never    *)
(* makes wait_for_socket run out of time.                                  *)
(***************************************************************************)
StartFailsOnlyByDeath ==
  [][\A c \in Clients : SpawnTimeout(c) => ~Live(peer[c])]_vars

(***************************************************************************)
(* While daemon lifetimes have never overlapped, bind_clean, bind, chmod   *)
(* and the removal on exit never fail a daemon or hide one: whoever        *)
(* listens is the one the path leads to, and no daemon lost its serve      *)
(* task.  Holds under every command and fault; the whole lifecycle's       *)
(* safety rests on lifetimes not overlapping.                              *)
(***************************************************************************)
SoleDaemonServes ==
  ~overlap => \A d \in Daemons : (Accepts(d) => sock = d) /\ srv[d] # "failed"

(***************************************************************************)
(* No command hangs: whatever dies, is killed, is late or races, every CLI *)
(* process leaves ensure_running and stop with a result or an error.       *)
(***************************************************************************)
CommandsReturn == \A c \in Clients : pc[c] # "idle" ~> pc[c] = "idle"

(***************************************************************************)
(* A daemon that acknowledged Shutdown does end, also when the signal      *)
(* comes before its handlers, or after it lost its socket.                 *)
(***************************************************************************)
AcknowledgedShutdownEnds == \A d \in Daemons : d \in ack ~> main[d] = "gone"

(***************************************************************************)
(* daemon.rs, stop(): "Wait for the daemon to actually exit (it removes    *)
(* the socket on the way out)".  When stop leaves its wait because nobody  *)
(* answers, the daemon it stopped has done its removal.                    *)
(***************************************************************************)
StopWaitsForExit ==
  [][\A c \in Clients : StopWait(c) => main[peer[c]] \in {"draining", "gone"}]_vars

(***************************************************************************)
(* The promise of the lifecycle to the rest of munin, see MuninSingleton.  *)
(* The owner is the live daemon process; it answers once it is reachable.  *)
(***************************************************************************)
Owner == IF \E d \in Daemons : Live(d) THEN CHOOSE d \in Daemons : Live(d) ELSE NoDaemon

Singleton == INSTANCE MuninSingleton WITH owner <- Owner, answering <- Reachable
SingletonSpec == Singleton!Spec
=============================================================================
