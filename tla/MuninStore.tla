------------------------------ MODULE MuninStore ------------------------------
(***************************************************************************)
(* Store::open (munin/src/storage.rs) run by processes that share one      *)
(* SQLite file: every capture hook is a short-lived munin process that     *)
(* opens the store, and munind keeps it open for imports.  The version     *)
(* gate is levelup-core/src/sqlite.rs.                                     *)
(*                                                                         *)
(* SQLite in WAL mode is external: one writer at a time; a statement that  *)
(* starts by writing waits for the writer (busy_timeout); a transaction    *)
(* that read first keeps its snapshot, and fails at once, without waiting, *)
(* when it turns to writing while there is a writer or after a commit it   *)
(* has not seen.  The switch of a new file to WAL mode always succeeds.    *)
(***************************************************************************)
EXTENDS Naturals

CONSTANTS
  Procs,   \* the processes that open the store
  Slow,    \* a writer may keep others waiting beyond busy_timeout
  None

ASSUME ConstantsAssumption == None \notin Procs /\ Slow \in BOOLEAN

DB_VERSION == 1

VARIABLES
  pc,        \* pc[p]: where p is in Store::open, or what came of it
  writer,    \* the process whose transaction writes
  wrote,     \* what the writer's transaction has changed in the schema, not yet committed
  snap,      \* the processes whose transaction has only read so far
  stale,     \* those of snap that a commit has overtaken
  version,   \* PRAGMA user_version, as committed
  tables,    \* the tables exist, as committed
  clientId,  \* config row client_id; a process's candidate is its own name
  id,        \* id[p]: the client_id that p's Store carries
  late       \* history: the processes that began after the schema's commit

db == <<version, tables, clientId>>
vars == <<pc, writer, wrote, snap, stale, version, tables, clientId, id, late>>

Outcome == {"ready", "refused", "busy"}
PC == {"down", "version", "sentinel", "create", "verify", "stamp", "commit",
       "claim", "fetch", "writing"} \cup Outcome

TypeOK ==
  /\ pc \in [Procs -> PC]
  /\ writer \in Procs \cup {None}
  /\ wrote \subseteq {"tables", "stamp"}
  /\ snap \subseteq Procs
  /\ stale \subseteq snap
  /\ version \in {0, DB_VERSION}
  /\ tables \in BOOLEAN
  /\ clientId \in Procs \cup {None}
  /\ id \in [Procs -> Procs \cup {None}]
  /\ late \subseteq Procs

Init ==
  /\ pc = [p \in Procs |-> "down"]
  /\ writer = None /\ wrote = {}
  /\ snap = {} /\ stale = {}
  /\ version = 0 /\ tables = FALSE /\ clientId = None
  /\ id = [p \in Procs |-> None]
  /\ late = {}

GoTo(p, label) == pc' = [pc EXCEPT ![p] = label]

\* mutant: the overtaken snapshot is not let go
EndTx_KeepsStale(p, committed) ==
  /\ writer' = IF writer = p THEN None ELSE writer
  /\ wrote' = IF writer = p THEN {} ELSE wrote
  /\ snap' = snap \ {p}
  /\ stale' = IF committed THEN snap ELSE stale

\* p's transaction and snapshot end; a commit overtakes every other snapshot.
EndTx(p, committed) ==
  /\ writer' = IF writer = p THEN None ELSE writer
  /\ wrote' = IF writer = p THEN {} ELSE wrote
  /\ snap' = snap \ {p}
  /\ stale' = (IF committed THEN snap ELSE stale) \ {p}

Begin(p) ==
  /\ pc[p] = "down"
  /\ GoTo(p, "version")
  /\ late' = IF tables THEN late \cup {p} ELSE late \ {p}
  /\ UNCHANGED <<writer, wrote, snap, stale, db, id>>

\* mutant: the gate asks for the sentinel whatever the version
ReadVersion_NoEarlyReturn(p) ==
  /\ pc[p] = "version"
  /\ GoTo(p, "sentinel")
  /\ UNCHANGED <<writer, wrote, snap, stale, db, id, late>>

\* ensure_compatible_schema: PRAGMA user_version
ReadVersion(p) ==
  /\ pc[p] = "version"
  /\ GoTo(p, IF version = DB_VERSION THEN "verify" ELSE "sentinel")
  /\ UNCHANGED <<writer, wrote, snap, stale, db, id, late>>

\* ensure_compatible_schema: table_exists, a query of its own
ReadSentinel(p) ==
  /\ pc[p] = "sentinel"
  /\ GoTo(p, IF tables THEN "refused" ELSE "create")
  /\ UNCHANGED <<writer, wrote, snap, stale, db, id, late>>

\* mutant: the tables are created before the transaction begins
Create_Autocommit(p) ==
  /\ pc[p] = "create"
  /\ writer = None
  /\ tables' = TRUE
  /\ stale' = snap
  /\ GoTo(p, "stamp")
  /\ UNCHANGED <<writer, wrote, snap, version, clientId, id, late>>

\* CREATE TABLE IF NOT EXISTS on tables that are missing starts by writing.
Create(p) ==
  /\ pc[p] = "create"
  /\ writer = None
  /\ writer' = p
  /\ wrote' = {"tables"}
  /\ GoTo(p, "stamp")
  /\ UNCHANGED <<snap, stale, db, id, late>>

\* CREATE TABLE IF NOT EXISTS on tables that are there only reads, also when
\* they have come since the gate.
Verify(p) ==
  /\ pc[p] = "verify" \/ (pc[p] = "create" /\ tables)
  /\ snap' = snap \cup {p}
  /\ GoTo(p, "stamp")
  /\ UNCHANGED <<writer, wrote, stale, db, id, late>>

\* PRAGMA user_version = 1 writes, also when the value is there already.
Stamp(p) ==
  /\ pc[p] = "stamp"
  /\ writer = p \/ (writer = None /\ p \notin stale)
  /\ writer' = p
  /\ wrote' = wrote \cup {"stamp"}
  /\ GoTo(p, "commit")
  /\ UNCHANGED <<snap, stale, db, id, late>>

\* ... and fails without waiting when the snapshot cannot become a writer.
StampBusy(p) ==
  /\ pc[p] = "stamp"
  /\ writer # p
  /\ writer # None \/ p \in stale
  /\ EndTx(p, FALSE)
  /\ GoTo(p, "busy")
  /\ UNCHANGED <<db, id, late>>

\* tx.commit: the file shows what the transaction wrote.
Commit(p) ==
  /\ pc[p] = "commit"
  /\ tables' = (tables \/ "tables" \in wrote)
  /\ version' = IF "stamp" \in wrote THEN DB_VERSION ELSE version
  /\ EndTx(p, TRUE)
  /\ GoTo(p, "claim")
  /\ UNCHANGED <<clientId, id, late>>

\* mutant: INSERT OR REPLACE
Claim_Replaces(p) ==
  /\ pc[p] = "claim"
  /\ writer = None
  /\ clientId' = p
  /\ stale' = snap
  /\ GoTo(p, "fetch")
  /\ UNCHANGED <<writer, wrote, snap, version, tables, id, late>>

\* ensure_client_id: INSERT OR IGNORE; an ignored row commits nothing.
Claim(p) ==
  /\ pc[p] = "claim"
  /\ writer = None
  /\ IF clientId = None
     THEN clientId' = p /\ stale' = snap
     ELSE UNCHANGED <<clientId, stale>>
  /\ GoTo(p, "fetch")
  /\ UNCHANGED <<writer, wrote, snap, version, tables, id, late>>

\* ensure_client_id: SELECT
Fetch(p) ==
  /\ pc[p] = "fetch"
  /\ id' = [id EXCEPT ![p] = clientId]
  /\ GoTo(p, "ready")
  /\ UNCHANGED <<writer, wrote, snap, stale, db, late>>

\* A capture's INSERT, or the first row of an import's transaction.
BeginWrite(p) ==
  /\ pc[p] = "ready"
  /\ writer = None
  /\ writer' = p
  /\ GoTo(p, "writing")
  /\ UNCHANGED <<wrote, snap, stale, db, id, late>>

EndWrite(p) ==
  /\ pc[p] = "writing"
  /\ EndTx(p, TRUE)
  /\ GoTo(p, "ready")
  /\ UNCHANGED <<db, id, late>>

\* mutant: busy_timeout is not set, the wait has no end
BusyTimeout_Never(p) == pc[p] \in {"create", "claim"} /\ UNCHANGED vars

\* busy_timeout runs out for a statement that starts by writing.
BusyTimeout(p) ==
  /\ Slow
  /\ pc[p] \in {"create", "claim", "ready"}
  /\ writer # None
  /\ GoTo(p, "busy")
  /\ UNCHANGED <<writer, wrote, snap, stale, db, id, late>>

Exit(p) ==
  /\ pc[p] \in Outcome
  /\ GoTo(p, "down")
  /\ id' = [id EXCEPT ![p] = None]
  /\ UNCHANGED <<writer, wrote, snap, stale, db, late>>

\* The process is killed: what its transaction wrote is rolled back.
Crash(p) ==
  /\ pc[p] \notin {"down"} \cup Outcome
  /\ EndTx(p, FALSE)
  /\ GoTo(p, "down")
  /\ id' = [id EXCEPT ![p] = None]
  /\ UNCHANGED <<db, late>>

-----------------------------------------------------------------------------
OpenStep(p) ==
  \/ ReadVersion(p) \/ ReadSentinel(p) \/ Create(p) \/ Verify(p)
  \/ Stamp(p) \/ StampBusy(p) \/ Commit(p) \/ Claim(p) \/ Fetch(p)

WaitStep(p) == OpenStep(p) \/ EndWrite(p) \/ BusyTimeout(p)

Next == \E p \in Procs :
  Begin(p) \/ WaitStep(p) \/ BeginWrite(p) \/ Exit(p) \/ Crash(p)

Spec == Init /\ [][Next]_vars

(***************************************************************************)
(* A process that runs goes on, and its wait for the writer is bounded by  *)
(* busy_timeout; nobody is obliged to start, to write or to exit.          *)
(***************************************************************************)
FairSpec == Spec /\ \A p \in Procs : WF_vars(WaitStep(p))

-----------------------------------------------------------------------------
(***************************************************************************)
(* "Schema apply and the version stamp must be atomic" (storage.rs, open): *)
(* whoever crashes after whichever statement, and whoever opens the file   *)
(* meanwhile, no reader ever finds tables without the stamp, which the     *)
(* version gate would reject for ever, nor the stamp without tables.       *)
(***************************************************************************)
SchemaAtomic == tables <=> version = DB_VERSION

(***************************************************************************)
(* ensure_client_id: "The id is stable per machine".  Every process that   *)
(* has opened the store carries the stored id, whoever created the file    *)
(* and however many processes raced to.                                    *)
(***************************************************************************)
OneClientId ==
  \A p \in Procs : pc[p] \in {"ready", "writing"} => id[p] # None /\ id[p] = clientId

(***************************************************************************)
(* The version gate never turns away a process that started after the      *)
(* schema was committed: the files this code writes stay acceptable to it. *)
(***************************************************************************)
OwnFileAccepted == \A p \in late : pc[p] # "refused"

(***************************************************************************)
(* Store::open always ends, with a store or an error: no two processes     *)
(* wait for each other's transactions.                                     *)
(***************************************************************************)
OpenEnds == \A p \in Procs :
  pc[p] = "version" ~> pc[p] \in {"down"} \cup Outcome

(***************************************************************************)
(* storage.rs, open(): two writers "can contend for the single WAL writer, *)
(* and we want the loser to wait rather than fail with SQLITE_BUSY".  When *)
(* no writer is slow, nobody fails with SQLITE_BUSY.                       *)
(***************************************************************************)
LoserWaits == ~Slow => \A p \in Procs : pc[p] # "busy"
=============================================================================
