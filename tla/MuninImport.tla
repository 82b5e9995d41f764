------------------------------ MODULE MuninImport ------------------------------
(***************************************************************************)
(* `munin import`: the request's way from a CLI process (bin/munin.rs,     *)
(* main) over the socket to a connection task (ipc.rs, dispatch), through  *)
(* the channel to the storage thread (storage.rs, run_storage_thread,      *)
(* import_file, import_atuin_db) and back over the oneshot reply.          *)
(*                                                                         *)
(* MuninDaemon shows that the old munind may still be joining its storage  *)
(* thread when the next one serves, so several munind processes work on    *)
(* one database here.  Two that serve at once are allowed, which is more   *)
(* than the socket allows: it stands for every way in which a CLI can come *)
(* to another munind than the one before.  SQLite is external: one writer, *)
(* a transaction that others see once it is committed, a UNIQUE uuid that  *)
(* an INSERT checks against the committed rows and its own.                *)
(***************************************************************************)
EXTENDS Naturals, Sequences

CONSTANTS
  Clients,       \* CLI processes, each of which issues one import
  Daemons,       \* slots for munind processes
  Atuin, Files,  \* the sources: atuin databases, shell history files
  MaxSize,       \* bound on the commands in a source
  Faults,        \* what may happen, a subset of AllFaults
  None

(***************************************************************************)
(* "die": a munind is killed.  "stop": it is shut down.  "disconnect": the *)
(* CLI process is interrupted.  "fail": reading the source or writing a    *)
(* row fails (no such file, busy database, disk full).                     *)
(***************************************************************************)
AllFaults == {"die", "stop", "disconnect", "fail"}

Sources == Atuin \cup Files
Results == {"imported", "error"}

ASSUME ConstantsAssumption ==
  /\ Atuin \cap Files = {}
  /\ MaxSize \in Nat \ {0}
  /\ Faults \subseteq AllFaults
  /\ None \notin Clients \cup Daemons \cup Sources \cup Results

VARIABLES
  cli,     \* cli[c]: "new", "waiting" for the reply, "gone" without one, or the result
  asked,   \* asked[c]: the source c names, and its size when c asked
  conn,    \* conn[c]: the daemon c is connected to
  unread,  \* the clients whose request no connection task has read yet
  reply,   \* reply[c]: what the storage thread sent on c's oneshot channel
  daemon,  \* daemon[d]: "off", "up", or "draining" once its runtime is dropped
  queue,   \* queue[d]: the clients whose StoreCmd is in d's channel
  job,     \* job[d]: the import that d's storage thread works on
  writer,  \* the daemon whose transaction holds the write lock
  size,    \* size[x]: the commands source x holds
  db,      \* the committed rows of the table entries
  done,    \* history: the clients whose import was committed
  spoiled  \* history: those whose import failed or was killed with its daemon

vars == <<cli, asked, conn, unread, reply, daemon, queue, job, writer, size, db, done, spoiled>>

\* A row: the source's cmd-th command, inserted by the import of client "by".
Rows == [source : Sources, cmd : 1..MaxSize, by : Clients]

\* atuin's own uuid names the command, uuid_for_ts makes one for this insertion.
Uuid(r) == IF r.source \in Atuin THEN <<r.source, r.cmd>> ELSE <<r.source, r.cmd, r.by>>

\* rows: the entries read from the source; next: the one to insert next;
\* tx: what the open transaction has inserted.
Jobs == [client : Clients \cup {None}, rows : 0..MaxSize, next : 0..MaxSize + 1, tx : SUBSET Rows]

NoJob == [client |-> None, rows |-> 0, next |-> 0, tx |-> {}]

\* What c asked for is in d's channel or on its storage thread.
Accepted(c, d) ==
  job[d].client = c \/ \E i \in 1..Len(queue[d]) : queue[d][i] = c

TypeOK ==
  /\ cli \in [Clients -> {"new", "waiting", "gone"} \cup Results]
  /\ asked \in [Clients -> [source : Sources \cup {None}, size : 0..MaxSize]]
  /\ conn \in [Clients -> Daemons \cup {None}]
  /\ unread \subseteq {c \in Clients : conn[c] # None}
  /\ reply \in [Clients -> Results \cup {None}]
  /\ daemon \in [Daemons -> {"off", "up", "draining"}]
  /\ queue \in [Daemons -> Seq(Clients)]
  /\ job \in [Daemons -> Jobs]
  /\ \A d \in Daemons : daemon[d] = "off" => queue[d] = <<>> /\ job[d] = NoJob
  /\ writer \in Daemons \cup {None}
  /\ size \in [Sources -> 0..MaxSize]
  /\ db \subseteq Rows
  /\ done \subseteq Clients
  /\ spoiled \subseteq Clients

Init ==
  /\ cli = [c \in Clients |-> "new"]
  /\ asked = [c \in Clients |-> [source |-> None, size |-> 0]]
  /\ conn = [c \in Clients |-> None]
  /\ unread = {}
  /\ reply = [c \in Clients |-> None]
  /\ daemon = [d \in Daemons |-> "off"]
  /\ queue = [d \in Daemons |-> <<>>]
  /\ job = [d \in Daemons |-> NoJob]
  /\ writer = None
  /\ size = [x \in Sources |-> 0]
  /\ db = {}
  /\ done = {}
  /\ spoiled = {}

-----------------------------------------------------------------------------
(* The CLI process.                                                        *)

\* main: ensure_running, connect, send
SendImport(c) ==
  /\ cli[c] = "new"
  /\ \E d \in Daemons, x \in Sources :
        /\ daemon[d] = "up"
        /\ conn' = [conn EXCEPT ![c] = d]
        /\ asked' = [asked EXCEPT ![c] = [source |-> x, size |-> size[x]]]
  /\ cli' = [cli EXCEPT ![c] = "waiting"]
  /\ unread' = unread \cup {c}
  /\ UNCHANGED <<reply, daemon, queue, job, writer, size, db, done, spoiled>>

\* The connection task writes the response, main prints it.
Deliver(c) ==
  /\ cli[c] = "waiting"
  /\ daemon[conn[c]] = "up"
  /\ reply[c] # None
  /\ cli' = [cli EXCEPT ![c] = reply[c]]
  /\ UNCHANGED <<asked, conn, unread, reply, daemon, queue, job, writer, size, db, done, spoiled>>

\* mutant: the client does not see that its connection was closed
EndOfFile_Unseen(c) ==
  /\ cli[c] = "waiting"
  /\ daemon[conn[c]] = "off"
  /\ UNCHANGED vars

\* The task went with its runtime: main fails to parse a response.
EndOfFile(c) ==
  /\ cli[c] = "waiting"
  /\ daemon[conn[c]] # "up"
  /\ cli' = [cli EXCEPT ![c] = "gone"]
  /\ UNCHANGED <<asked, conn, unread, reply, daemon, queue, job, writer, size, db, done, spoiled>>

\* The user interrupts the CLI; what it sent stays in the socket.
Disconnect(c) ==
  /\ "disconnect" \in Faults
  /\ cli[c] = "waiting"
  /\ cli' = [cli EXCEPT ![c] = "gone"]
  /\ UNCHANGED <<asked, conn, unread, reply, daemon, queue, job, writer, size, db, done, spoiled>>

-----------------------------------------------------------------------------
(* munind: connection tasks and lifetime.                                  *)

Dispatch(c) ==
  /\ c \in unread
  /\ daemon[conn[c]] = "up"
  /\ unread' = unread \ {c}
  /\ queue' = [queue EXCEPT ![conn[c]] = Append(@, c)]
  /\ UNCHANGED <<cli, asked, conn, reply, daemon, job, writer, size, db, done, spoiled>>

StartDaemon(d) ==
  /\ daemon[d] = "off"
  /\ \A c \in Clients : cli[c] = "waiting" => conn[c] # d
  /\ daemon' = [daemon EXCEPT ![d] = "up"]
  /\ UNCHANGED <<cli, asked, conn, unread, reply, queue, job, writer, size, db, done, spoiled>>

\* mutant: what is in the channel goes with the runtime
DropRuntime_ClosesQueue(d) ==
  /\ "stop" \in Faults
  /\ daemon[d] = "up"
  /\ daemon' = [daemon EXCEPT ![d] = "draining"]
  /\ unread' = {c \in unread : conn[c] # d}
  /\ queue' = [queue EXCEPT ![d] = <<>>]
  /\ UNCHANGED <<cli, asked, conn, reply, job, writer, size, db, done, spoiled>>

\* main, after the signal: every connection task and sender is dropped.
DropRuntime(d) ==
  /\ "stop" \in Faults
  /\ daemon[d] = "up"
  /\ daemon' = [daemon EXCEPT ![d] = "draining"]
  /\ unread' = {c \in unread : conn[c] # d}
  /\ UNCHANGED <<cli, asked, conn, reply, queue, job, writer, size, db, done, spoiled>>

\* The receiver's loop ends when the channel is closed and empty.
JoinStorage(d) ==
  /\ daemon[d] = "draining"
  /\ queue[d] = <<>> /\ job[d] = NoJob
  /\ daemon' = [daemon EXCEPT ![d] = "off"]
  /\ UNCHANGED <<cli, asked, conn, unread, reply, queue, job, writer, size, db, done, spoiled>>

Die(d) ==
  /\ "die" \in Faults
  /\ daemon[d] # "off"
  /\ daemon' = [daemon EXCEPT ![d] = "off"]
  /\ unread' = {c \in unread : conn[c] # d}
  /\ queue' = [queue EXCEPT ![d] = <<>>]
  /\ job' = [job EXCEPT ![d] = NoJob]
  /\ writer' = IF writer = d THEN None ELSE writer
  /\ spoiled' = spoiled \cup {c \in Clients \ done : Accepted(c, d)}
  /\ UNCHANGED <<cli, asked, conn, reply, size, db, done>>

-----------------------------------------------------------------------------
(* The storage thread.                                                     *)

\* oneshot send; without a receiver the result is discarded.
Answer(d, result) ==
  /\ reply' = IF daemon[d] = "up" THEN [reply EXCEPT ![job[d].client] = result] ELSE reply
  /\ job' = [job EXCEPT ![d] = NoJob]

\* rx.recv, and the source is read as it is now.
TakeCommand(d) ==
  /\ job[d] = NoJob /\ queue[d] # <<>>
  /\ LET c == Head(queue[d]) IN
       job' = [job EXCEPT ![d] =
         [client |-> c, rows |-> size[asked[c].source], next |-> 1, tx |-> {}]]
  /\ queue' = [queue EXCEPT ![d] = Tail(@)]
  /\ UNCHANGED <<cli, asked, conn, unread, reply, daemon, writer, size, db, done, spoiled>>

\* d's import has not been committed yet.
Importing(d) == job[d].client # None /\ job[d].client \notin done

\* The row that d inserts next, and whether one with its uuid is there already.
NextRow(d) ==
  [source |-> asked[job[d].client].source, cmd |-> job[d].next, by |-> job[d].client]
Known(d) == \E r \in db \cup job[d].tx : Uuid(r) = Uuid(NextRow(d))

\* mutant: the uuids are looked up first and what is new is written at the end
InsertRow_Unlocked(d) ==
  /\ Importing(d) /\ job[d].next <= job[d].rows
  /\ job' = [job EXCEPT ![d].next = @ + 1,
                       ![d].tx = @ \cup (IF Known(d) THEN {} ELSE {NextRow(d)})]
  /\ UNCHANGED <<cli, asked, conn, unread, reply, daemon, queue, writer, size, db, done, spoiled>>

\* INSERT OR IGNORE of an atuin row, INSERT of a file's; the first INSERT of
\* the transaction takes the write lock.
InsertRow(d) ==
  /\ Importing(d) /\ job[d].next <= job[d].rows
  /\ writer \in {None, d}
  /\ writer' = d
  /\ job' = [job EXCEPT ![d].next = @ + 1,
                       ![d].tx = @ \cup (IF Known(d) THEN {} ELSE {NextRow(d)})]
  /\ UNCHANGED <<cli, asked, conn, unread, reply, daemon, queue, size, db, done, spoiled>>

\* mutant: rows are committed as they are inserted
FailImport_KeepsRows(d) ==
  /\ "fail" \in Faults
  /\ Importing(d)
  /\ db' = db \cup job[d].tx
  /\ writer' = IF writer = d THEN None ELSE writer
  /\ Answer(d, "error")
  /\ spoiled' = spoiled \cup {job[d].client}
  /\ UNCHANGED <<cli, asked, conn, unread, daemon, queue, size, done>>

\* `?` on the way: the transaction is dropped, which rolls it back.
FailImport(d) ==
  /\ "fail" \in Faults
  /\ Importing(d)
  /\ writer' = IF writer = d THEN None ELSE writer
  /\ Answer(d, "error")
  /\ spoiled' = spoiled \cup {job[d].client}
  /\ UNCHANGED <<cli, asked, conn, unread, daemon, queue, size, db, done>>

\* tx.commit, also when the source was empty and nothing was written.
Commit(d) ==
  /\ Importing(d) /\ job[d].next > job[d].rows
  /\ db' = db \cup job[d].tx
  /\ job' = [job EXCEPT ![d].tx = {}]
  /\ writer' = IF writer = d THEN None ELSE writer
  /\ done' = done \cup {job[d].client}
  /\ UNCHANGED <<cli, asked, conn, unread, reply, daemon, queue, size, spoiled>>

\* mutant: the result is sent before the commit
SendReply_BeforeCommit(d) ==
  /\ job[d].client # None
  /\ reply[job[d].client] = None
  /\ reply' = [reply EXCEPT ![job[d].client] = "imported"]
  /\ UNCHANGED <<cli, asked, conn, unread, daemon, queue, job, writer, size, db, done, spoiled>>

SendReply(d) ==
  /\ job[d].client \in done
  /\ Answer(d, "imported")
  /\ UNCHANGED <<cli, asked, conn, unread, daemon, queue, writer, size, db, done, spoiled>>

\* A shell or atuin records a command meanwhile.
Grow(x) ==
  /\ size[x] < MaxSize
  /\ size' = [size EXCEPT ![x] = @ + 1]
  /\ UNCHANGED <<cli, asked, conn, unread, reply, daemon, queue, job, writer, db, done, spoiled>>

-----------------------------------------------------------------------------
StorageStep(d) ==
  TakeCommand(d) \/ InsertRow(d) \/ FailImport(d) \/ Commit(d) \/ SendReply(d)

Next ==
  \/ \E c \in Clients :
       SendImport(c) \/ Deliver(c) \/ EndOfFile(c) \/ Disconnect(c) \/ Dispatch(c)
  \/ \E d \in Daemons :
       StartDaemon(d) \/ DropRuntime(d) \/ JoinStorage(d) \/ Die(d) \/ StorageStep(d)
  \/ \E x \in Sources : Grow(x)

Spec == Init /\ [][Next]_vars

(***************************************************************************)
(* Tasks and threads are scheduled, and a closed connection is noticed.    *)
(* InsertRow waits for the other daemon's transaction at most once per     *)
(* import of that daemon, so weak fairness is enough.                      *)
(***************************************************************************)
Fairness ==
  /\ \A c \in Clients : WF_vars(Deliver(c) \/ EndOfFile(c)) /\ WF_vars(Dispatch(c))
  /\ \A d \in Daemons : WF_vars(StorageStep(d) \/ JoinStorage(d))

FairSpec == Spec /\ Fairness


-----------------------------------------------------------------------------
\* What c's source held when c asked is in the table.
Stored(c) == \A i \in 1..asked[c].size :
  \E r \in db : r.source = asked[c].source /\ r.cmd = i

(***************************************************************************)
(* "imported" is durable and "error" means that nothing was inserted:      *)
(* whoever is told "imported" finds every command its source held when it  *)
(* asked, and whoever is told "error" can ask again with nothing doubled.  *)
(***************************************************************************)
ReplyTruthful == \A c \in Clients :
  /\ cli[c] = "imported" => c \in done /\ Stored(c)
  /\ cli[c] = "error" => c \notin done

(***************************************************************************)
(* import_file, "All inserts happen inside one transaction": a row in the  *)
(* table comes from an import that went through as a whole.  No failure,   *)
(* death or second munind leaves the rows of half an import behind.        *)
(***************************************************************************)
WholeImports == \A r \in db : r.by \in done /\ Stored(r.by)

(***************************************************************************)
(* import_atuin_db, "the operation is idempotent": no command of an atuin  *)
(* database is there twice, whatever is repeated after whatever failure,   *)
(* also while another munind works on the same import and has looked for   *)
(* the same uuids.                                                         *)
(***************************************************************************)
AtuinOnce == \A r, s \in db :
  r.source \in Atuin /\ r.source = s.source /\ r.cmd = s.cmd => r = s

(***************************************************************************)
(* src/README.org:117: "Re-imports are idempotent - atuin's UUIDv7 ids are *)
(* preserved as munin's =uuid=, and shell-history files dedupe on the same *)
(* key".  import_file makes a new uuid for every row it inserts.           *)
(***************************************************************************)
ReimportIdempotent == \A r, s \in db :
  r.source = s.source /\ r.cmd = s.cmd => r = s

(***************************************************************************)
(* run_storage_thread: "the work is done either way".  What reached the    *)
(* channel is imported although the client leaves or the daemon is told to *)
(* stop, unless the import itself fails or its daemon is killed.           *)
(***************************************************************************)
AcceptedIsDone == \A c \in Clients, d \in Daemons :
  Accepted(c, d) ~> c \in done \cup spoiled

(***************************************************************************)
(* No import command hangs, whatever happens to the daemon.                *)
(***************************************************************************)
ClientReturns == \A c \in Clients : cli[c] = "waiting" ~> cli[c] # "waiting"
=============================================================================
