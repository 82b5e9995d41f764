# Verification of levelup

levelup is a workspace of eight terminal tools written in Rust (munin, hugin,
gorm, bragi, valkyrie, heimdall, sleipnir, mimir) and two libraries
(levelup-core, levelup-tui). This directory holds TLA+ models of the parts
whose correctness depends on interleavings, crashes, partial failures or data
that goes stale, the TLC configurations that check them, and theorems about
them that TLAPS checks. Paths below are relative to the repository's root.

## 1. The system

| Component | State it keeps | Operations | Talks to | What is hard |
|---|---|---|---|---|
| munin daemon lifecycle (`munin/src/daemon.rs`, `bin/munind.rs`, `ipc.rs`) | spawn lock, socket path, processes | ensure_running, stop, restart; main, serve, Shutdown | other CLI processes and daemons through lock, path and signals | races of starters, crashes that leave sockets, shutdown order, early signals |
| munin store bootstrap (`munin/src/storage.rs`, `levelup-core/src/sqlite.rs`) | SQLite file: version, tables, client id | Store::open | every capture process, munind | concurrent first starts, crash in the schema transaction, single writer |
| munin capture (`munin/src/shells/*`, `storage.rs`) | table of commands, per-shell hook state | add_start, add_end | shells through MUNIN_SESSION | pairing of start and end by session only |
| munin import (`ipc.rs`, `storage.rs`) | channel, storage thread, transaction | Import, drain on shutdown | CLI over the socket | crash in a transaction, lost replies, retries, two daemons |
| munin search and TUI (`storage.rs`, `tui.rs`) | query, order, results, selection | search, list, edit, accept | SQLite | limit against deduplication |
| hugin clipboard daemon (`hugin/src/wayland.rs`) | current offers, own sources, what is being read | selection events, copy, cancelled | compositor, storage thread, IPC | echo of own copies, racing owners, deadlock with itself |
| hugin store and IPC (`hugin/src/storage.rs`, `ipc.rs`) | entries, parts | insert, dedup, retention, delete, copy | storage thread, three connections | reused ids, entries removed while they are copied |
| hugin picker (`hugin/src/tui.rs`) | results, dialog, preview, last version | search, copy, delete, polling | SQLite, hugind | a list that is out of date |
| gorm engine (`gorm/src/engine.rs`) | reply slot, in-flight count | pair, connect, answer | BlueZ over D-Bus | requests given up, results that overtake answers |
| gorm picker (`gorm/src/tui.rs`) | device list, selection, prompt, hold | refresh, actions, hold to forget | the engine | the list moves under the gesture |
| bragi (`bragi/src/engine.rs`, `tui.rs`) | mirror of the PipeWire registry, snapshot on screen | volume, mute, default, route, profile | PipeWire events | a picture put together from asynchronous answers |
| valkyrie (`valkyrie/src/proc.rs`, `tree.rs`, `tui.rs`) | scan, tree, folds, selection, hold | rescan, signals, hold to kill | /proc, signals | torn scans, rows that move under the gesture |
| heimdall (`heimdall/src/tui.rs`, `discover/*`) | devices by address | merge, drop, scan, ssh | discovery threads | silence of the device against silence of the picker |
| sleipnir (`sleipnir/src/storage.rs`, `munin_import.rs`, `tui.rs`) | directory ranks, mined files, pool | add, ageing, sync behind a TTL, pick | several shells, munin's database | read, scale and delete in separate statements |
| mimir (`mimir/src/main.rs`, `blocks/`) | baselines, expanded blocks | tick, click | swaybar over pipes | clicks that wake the loop early |
| levelup-tui (`levelup-tui/src/editing.rs`) | line and cursor | editing keys | all pickers | offsets inside multi-byte characters |
| levelup-core | none | schema gate, fuzzy matching, paths | all tools | see munin store bootstrap |

`PROJECT.json` lists the hazards of the code by line, with the properties that
cover them.

## 2. Plan

1. **Modelled:** munin (MuninDaemon with the abstract MuninSingleton,
   MuninStore, MuninCapture, MuninImport, MuninPicker); hugin (HuginClipboard,
   HuginDaemon, which extends it, with the abstract HuginHistory, and
   HuginPicker); gorm (GormPairing, GormPicker); Valkyrie; Bragi; Heimdall;
   Sleipnir; Mimir; the query line (LineEditing, LineSession). LevelupTools puts
   the tools that share nothing side by side.
2. **Proved:** both refinements (of MuninSingleton and of HuginHistory), and
   every invariant and action property that a passing run checks (section 6).
3. **Left:** liveness stays with TLC. The parts whose component is *partly* in
   `PROJECT.json` are those a further module would cover.

## 3. Modules and their correspondence to the code

### MuninDaemon, MuninSingleton

Processes: CLI processes (`pc[c]`) run `ensure_running` and `stop`; munind
processes have a main thread (`main[d]`) and a serve task (`srv[d]`). Shared:
the flock (`lock`), the socket path (`sock`, the daemon whose file is there).
Each action is one system call another process can observe: `Check` and
`Recheck` are the two `try_connect` calls around `spawn_lock`; `ProbePath`,
`ProbeConnect`, `RemoveStale`, `Bind`, `Listen`, `RestrictPermissions` are
`bind_clean`, `bind` (which is bind and listen) and the chmod; `DropRuntime`,
`RemoveSocket`, `JoinStorage` are the end of `main`. `Return` is every way out
of a CLI process and drops the lock guard. `HandleShutdown` and `RaiseTerm` are
the two halves of `Request::Shutdown`. `overlap` is a history variable: a
munind was started while another was alive. The constant `Faults` switches what
the environment does: deaths, interrupted CLIs, daemons launched by hand,
SIGTERM, slow daemons.

MuninSingleton is what lazy auto-start promises: one owner at a time, a new one
only after the previous one is gone, only an owner answers. MuninDaemon
implements it (`SingletonSpec`) when commands only start the daemon and the
only fault is its death; munin_stop_early shows why stop and restart cannot be
included.

### MuninStore

`Store::open` step by step: `ReadVersion` and `ReadSentinel` are the gate of
`levelup-core/src/sqlite.rs`; `Create`/`Verify`, `Stamp`/`StampBusy` and
`Commit` the schema transaction; `Claim` and `Fetch` `ensure_client_id`.
`BeginWrite`/`EndWrite` stand for a capture's INSERT and for an import's
transaction. `Crash` can come anywhere and rolls back. SQLite in WAL mode is
external: one writer; a statement that starts by writing waits
(`BusyTimeout` bounds it); a transaction that read first keeps its snapshot
(`snap`), which a commit makes stale, and turning it into a writer then fails
at once. CREATE TABLE IF NOT EXISTS only reads when the tables exist, while
PRAGMA user_version always writes. What the transaction has written so far is
`wrote`; it reaches the file with `Commit` or not at all.

### MuninCapture

`Preexec` and `Precmd` are the shell hooks, `AddStart`, `SelectOpen` and
`UpdateRow` the statements of `add_start` and `add_end`. A session is the shell
that set MUNIN_SESSION; `NestShell` inherits it, in the foreground or detached.
The exit code written to a row is represented by the row of the command whose
exit code it is, so a row is right when it holds its own id. `past` is a
history variable: which mishaps a session has met (an add-end lost, a command
without a row, two of its shells side by side). The properties use it to say
exactly what each promise depends on.

### MuninImport

`SendImport`, `Deliver`, `EndOfFile`, `Disconnect` are a CLI process;
`Dispatch` the connection task; `TakeCommand`, `InsertRow`, `Commit`,
`FailImport`, `SendReply` the storage thread; `DropRuntime` and `JoinStorage`
the end of `main`. There are two daemon processes because MuninDaemon shows
that a stopped one may still be draining when the next one serves, and two can
even serve at once (section 7). A job holds the rows its transaction has
inserted (`tx`); the first insertion takes SQLite's write lock, `Commit` adds
the rows to the table, a failure or death drops them. A row is a command of a
source and the import that made it. `Uuid` is what UNIQUE looks at: an atuin
row's is its own, so that a second insertion is ignored, while a file's row gets
one of its import. `done` and `spoiled` are history variables: whose import was
committed, and whose failed or was killed.

### GormPairing

`Dispatch`, `AnswerPrompt`, `ShowPrompt` and `ShowResult` are the TUI thread's
`handle_key`, `answer_prompt` and `apply`; `StashSender` is `prompt()` in an
agent callback; `TakeAnswer`, `StartAction` and `Tick` are the arms of the
engine's select loop and `EndAction` the end of an action task. `facts` and
`engine_cmds` (`cmds` in the code) are the two channels. BlueZ is external: one agent request at a time, as
`engine.rs` takes for granted, each of which it may give up (`GiveUp`), which
drops the callback but leaves the slot and the prompt as they are. Stashing the
sender and sending the prompt are one action: with one request at a time only
the engine's loop looks at the slot, and an answer it takes in between is one
that was already on its way. Quitting ends the process with all of this and is
left out, as are prompts that only display a code, and typed digits.

### HuginClipboard, HuginDaemon, HuginHistory

HuginClipboard is the Wayland thread. `NextEvent`, `Cancelled` and `DoCopy` are
what wakes its loop; `IsEcho`, `IgnoreOffer`, `StartReading`, `ReadHint`,
`ReadPart` and `Capture` are `handle_selection`, one part at a time, because
other clients act while it reads. The compositor is external: it takes requests
in order, cancels the source it replaces before it announces the new offer, and
answers a read of a replaced offer with end of file. `echoes` is a history
variable.

HuginDaemon adds the other threads: `Insert` and `Retain` are the storage
thread, `AskCopy`, `FindEntry`, `SendCopy` and `Delete` IPC tasks on
connections of their own, `Exit` the end of `main`. A row carries the number of
the capture it was made from, which tells whether an id still names what it
named. HuginHistory is the abstract store: captures are appended unless they
repeat the last one of their selection, and forgotten, never altered or
reordered. HuginDaemon implements it (`HistoryIsKept`) with the refinement
mapping "the rows in the order of their ids".

### HuginPicker, MuninPicker

The pickers over a database that others change. `Search` is ranking,
deduplication and the limits; scores are constants. `Refresh` is
`refresh_results`; `Idle` is the poll of `data_version` when no key comes, which
hugin does only outside its dialogs. munin does not poll.

### GormPicker, Valkyrie

Two lists that change under the user, with the key that must be held to forget
a device or to kill a process. `Frame` (gorm) and `Rescan` (valkyrie) bring a
new list; `Follow` keeps the selection on its device or process; `KeyDown`,
`KeyUp`, `Gap` and `Fire` are the hold: press and repeat, a release that
terminals with the Kitty protocol report and others do not, the pause in the
repeats that stands for a release there, and the full meter. Times are left
out: the meter may be full whenever the key was held long enough for it. `aim`
and `fired` are history variables. Valkyrie also has the tree (`Build`,
`Roots`, `Kids`, `AutoCollapse`) over scans that may be torn, and the signal
chooser. Its walks recurse over the set of processes that the way down has not
visited, the complement of the code's `visited`.

### Bragi

`Engine` takes one event or command at a time: `OnNode`, `OnDevice`, `Linked`,
`OnMetadata` and `Removed` mirror the registry, `Done` decides when the first
picture is complete, `Execute` writes. The picker drains snapshots, of which
the last one counts (`Frame`), and sends commands (`Adjust`, `Choose`,
`Enter`). PipeWire is external: it answers in order (`Serve`) and changes on
its own (`World`).

### Heimdall

`SightARP`, `SightMDNS` and `SightSSDP` are the discovery threads; `Frame` is
one turn of the loop, which drains and merges, takes finished port scans,
drops the silent and ranks; `Ssh` and `SshEnds` bracket the time in which it
does not turn. `heard` is a history variable. Which addresses are swept is
`HostList`, over addresses of `Width` bits.

### Sleipnir

Each shell's `sleipnir add` is `Visit` and then the steps of `sync_if_stale`
and `maintain_dirs`, one SQL statement each: `Check`, `Mine`, `Replace`,
`Stamp`, `Collect`, `Bury`, `Age`, `Drop`, or `Fail`. The picker fuses ranked
directories, mined files and the walk (`Fuse`, `Habit`, `Walks`). Ranks stay
integers: `RankCap` is small and scaling rounds down.

### Mimir

`Tick` is one sample and write, `Clicked` and `Timeout` the two ways out of
`recv_timeout`, `Receive` the thread that reads swaybar's clicks. `prev` holds
the baselines of cpu and net.

### LineEditing, LineSession

The operations on a line of characters of different widths, with a cursor in
bytes; `Cut` panics off a character boundary, as `replace_range` does.
LineSession is a user who types and presses keys.

### Ordering, LevelupTools

`InOrder` is what `sort_by` and `ORDER BY` return of rows that are all told
apart; the pickers of munin, hugin and gorm rank with it, and valkyrie's tree
sorts siblings.

LevelupTools runs one of nine parts, chosen in the initial state (`tool`):
hugind, gorm's pairing, or the picker or tool of valkyrie, gorm, munin, hugin,
sleipnir, bragi or heimdall. It extends HuginDaemon and GormPairing, which have
variables of their own, and instantiates the seven others. What the pickers name alike (`query`, `results`,
`at`, `outcome`, and the hold) are variables of that name; `v1` to `v13` are the
rest of each, in the order of its `WITH`. A step is one of the chosen program
and leaves the variables of the others alone.

### The proof modules

MuninDaemonProofs, MuninStoreProofs, MuninCaptureProofs, MuninImportProofs,
GormPairingProofs and HuginDaemonProofs extend the module they are named after.
LevelupToolsProofs and BragiProofs are about LevelupTools, so that their
theorems state the very properties the run checks; BragiProofs extends
LevelupToolsProofs.

## 4. Runs

| Run | Shows | Bounds |
|---|---|---|
| munin_spawn | no double start, refinement of MuninSingleton, starts fail only by death | 3 CLI processes, 2 daemons, start only, deaths |
| munin_lifecycle | the lock never leaks; a sole daemon is never hidden or refused; acknowledged Shutdowns end the daemon; commands return | 2 CLI processes, 2 daemons, restarts (a stop, then a start), all faults |
| munin_stop_early (violation) | stop returns before the socket is removed | 1 CLI process |
| munin_store_open | atomic schema, one client id, latecomers accepted, opens end | 3 processes, crashes, slow writers |
| munin_store_busy (violation) | an open fails with SQLITE_BUSY without waiting | 2 processes |
| munin_capture | which mishaps it takes for a row to get a wrong exit code, a second one, or none | 2 shells, 4 rows, all faults |
| munin_import | true replies, no rows of half an import, no atuin command twice, accepted imports are carried out, no client waits for ever | 2 imports of one source, an atuin database or a history file that grows to 2 commands, 2 daemons, all faults |
| munin_reimport (violation) | importing a history file again doubles it | 2 imports, 1 daemon, 1 command, no faults |
| gorm_stray_answer (violation) | the answer to a request that was given up settles the next one | 2 requests |
| tools | see below | see below |
| line_editing (violation) | C-w cuts a wide blank in two | lines of up to 4 characters of 1, 2 and 3 bytes |
| mimir_click (violation) | a click moves the baselines of usage and throughput | 2 clicks, 4 instants, 1 core, 2 interfaces |

The run **tools** checks LevelupTools on the instances of MCLevelupTools. Since
one part is chosen in the initial state, each property is about one of them and
the state space is the sum of theirs. `MCNext` is `ToolsNext` with further
bounds on five of them, named below:

- hugin's daemon never reads an offer it would have to serve itself
  (`NoSelfRead`), drops an application's selection as an echo only when it is
  replaced anyway (`EchoOnlyIfReplaced`), stores no secret whose hint was read
  (`SecretsSkipped`), keeps parts with their entry although ids are reused
  (`PartsBelong`), copies whole entries and never an older one than the user saw
  (`CopyIsSeen`), and implements HuginHistory (`HistoryIsKept`). Two application
  offers, two copies, two removals, and at most three offers and copy requests
  together (`HugindBounds`).
- valkyrie: one kill per hold (`OneKillPerHold`), of the process aimed at
  (`KillsAimed`), and a tree in which every process is in one row only, as
  itself or counted in a folded one, with the right count (`TreeComplete`).
  Four scans, one of them torn into a cycle; 2 keys that change the view.
- gorm's pairing: answers go astray only once a request was given up
  (`StrayOnlyAfterGiveUp`), no request waits unseen but for another action's
  result (`NoSilentWait`), discovery never runs beside an action
  (`DiscoveryYields`). Two devices (symmetric); `PairingBounds` lets three
  requests meet one action and two requests two.
- gorm's picker: the same as for valkyrie's kills for forgetting devices (`ForgetsAimed`). Three
  snapshots with devices that rank anew, vanish and come back.
- munin's and hugin's pickers: a search lists the newest run of each command and
  loses none to the limit (`NewestOfEach`, 4 commands recorded, limit 2, pool
  3); a list that is out of date is going to be refreshed (`StaleIsNoticed`, 4
  commits).
- sleipnir counts each visit once while shells interleave (`VisitsCounted`). Two
  shells (symmetric), 3 visits over 2 directories, cap 2. `SleipnirBounds` lets
  the picker, the clock and the shells' processes move one at a time, since
  they meet only in the database, and visits only when nothing is to be mined.
- bragi shows what PipeWire has once its echoes are in (`ShownIsTrue`), and
  takes its picture for complete only when it is (`CompleteIsWhole`). Three
  nodes, one card, 2 changes or keys; `BragiBounds` lets keys that act wait for a
  complete picture and the query change only when nothing is under way.
- heimdall drops only the silent (`OnlySilentDropped`). Two hosts, 1 move, 2
  ticks, queues of 1; `HeimdallBounds` lets the query change only when the queues
  are empty.

In **munin_import**, `OneSource` (MCMuninImport) has both imports name one
source: imports of different sources share only the channel and the write lock,
which two imports of one source use in the same way.

Why the bounds are enough: the races are between two actors over one lock,
path, writer, row, slot or list, and the third CLI process (or daemon slot) lets
one finish and another take its place. Two commands in a source let a
transaction stop in the middle. Slots are reused after a process is gone and no
trace of it is left, so behaviours of any length are covered. ExitCodeIsOwn
takes an add-end lost and then a command without a row, which fits in three
rows; the fourth lets a nested shell do it inside another's command. A third
pairing request is needed because one stray answer leaves a prompt up that makes
the next one stray: "only a request that was given up loses its answer" holds
for two requests and fails for three. For a hold it takes two list changes while
the key is down, and key repeats after it fired; the counters of the hold are
not bounded. For sleipnir the third visit falls between the statements of the
first one's maintenance. Every property is broken by a small mutation of the
code (`PROJECT.json`, "mutants"), so the instances reach the cases they are
about. Runs with CHECK_DEADLOCK FALSE are those where something runs out: each
shell is opened once, each CLI process issues one import, pickers are left, and
requests, actions, offers and visits are numbered.

## 5. Fairness

- MuninDaemon: processes and threads are scheduled (WF on each process's own
  steps); flock serves its waiters (SF on `SpawnLock`); a runtime that is being
  dropped starts no further poll (SF on `DropRuntime`). No command, fault or
  signal is ever obliged to happen.
- MuninStore: a running process goes on, and its wait for the writer ends with
  busy_timeout, so weak fairness of each process is enough.
- MuninCapture: the capture processes run; typing is free.
- GormPairing: safety only; nothing obliges the user to answer.
- The tools run, line_editing and mimir_click: safety only. Their
  loops wait for users, the compositor, PipeWire, BlueZ or the network, none of
  which is obliged to act.
- MuninImport: tasks and threads are scheduled and a closed connection is
  noticed; weak fairness is enough because every import is finite. The storage
  thread's steps and its end are one thread's, so they have one condition.

## 6. What is proved

All theorems hold for every value of the constants that satisfies the named
assumptions: any number of processes, shells, requests, entries, devices or
nodes, and every subset of the faults. The bounds of the small instances
(`MaxRows`, `MaxRequests`, `MaxStimuli`, ...) are then arbitrary numbers. What
is proved of `ToolsSpec` holds of `MCSpec`, which only takes fewer steps.

Each proof has the same shape: an invariant that is inductive, checked by TLC
as an invariant of the run first, then one step per action. What follows says
why the property alone is not inductive.

**MuninDaemonProofs**, under every command and fault: `TypeCorrect`,
`LockCorrect` (inductive as it stands) and `SoleDaemonCorrect`, whose
strengthening says in which phases of a sole daemon the path leads to it.
Under `SpawnOnly` (commands start the daemon, the only fault is its death):
`NoDoubleStartCorrect`, `StartFailsOnlyByDeathCorrect` and
`SpawnImplementsSingleton`. The argument: whoever is past the second look holds
the lock, so a live daemon that is not yet reachable is the one the lock holder
waits for, and nobody else can spawn; since no command stops a daemon, a
reachable one ends only by dying.

**MuninStoreProofs**: `TypeCorrect`; `SchemaAtomicCorrect`, from the invariant
that whoever is at the stamp or the commit either holds the write lock with the
tables in its transaction or finds them committed (`InTransaction`), so that no
commit publishes the one without the other; `OneClientIdCorrect`, from the lemma that the stored id never changes
and the fact that a process at `Fetch` finds a row; `OwnFileAcceptedCorrect`,
because a process that starts after the commit reads the stamp and is never
sent to the sentinel query. `StepsAre` sorts the steps of a process by what
they do to the file (look at it, found the schema, see to the client id, or
write, wait and end), and three of the proofs split on these kinds.

**MuninCaptureProofs**: `TypeCorrect`, `ExitCodeIsOwnCorrect`,
`ClosedOnceCorrect`. The shells of a session form a chain in which all but one
wait for a child, as long as no two ran side by side (`Waits`, `OneAtWork`), so
no other shell can close the row between `SelectOpen` and `UpdateRow`
(`StillOpen`). In a session of one shell the row of the running command is the
newest open one; it is the only open one until an add-end is lost, and there is
one unless a command went unrecorded (`Matching`). Only both mishaps together
lead `SelectOpen` to another command's row.

**MuninImportProofs**: `TypeCorrect`, `ReplyTruthfulCorrect`,
`WholeImportsCorrect`, `AtuinOnceCorrect`. The invariant says where a request
is: known to the daemon it connected to only (`Addressed`), in the socket, with
the daemon or answered, never two of these (`OnePlace`), and in no channel
twice, nor there while it is worked on or done (`QueuedOnce`). An answer is
what became of the import (`Settled`). Rows that are not committed belong to
the daemon that has the write lock (`Writing`), and no two rows, committed or
not, have one uuid (`Distinct`): a uuid is looked for and its row committed under
the same hold of the lock, and a file's rows have one of their own as no import
is carried out twice. A transaction that has come to its end covers its source
(`Covered`), and so does every committed import (`Committed`), which no row is
without.

**GormPairingProofs**: `TypeCorrect`, `StrayOnlyAfterGiveUpCorrect`,
`NoSilentWaitCorrect`, `DiscoveryYieldsCorrect`. BlueZ has one request out and
it is the last (`OnePending`); its sender is in the slot while it waits
(`Stashed`); prompts and answers pass through the channels, the screen and the
slot in the order of BlueZ's calls (`InLine`). An answer that settles another
request than the one it was given for then belongs to an earlier one, which is
no longer pending, and if nobody answered it, was given up. The result of a
Pair call comes after its request is settled (`Ended`), an action is queued
once (`Queued`), and discovery is off while one runs (`Quiet`).

**HuginDaemonProofs**: `TypeCorrect`; `NoSelfReadCorrect` and
`EchoOnlyIfReplacedCorrect` from `ClipInv`, whose core relates the sources the
daemon takes for its own to what is under way: each is still requested, on the
clipboard, or its cancellation is in the queue (`Kept`); the daemon hears of
its own offer before that is cancelled (`Announced`), and of the cancellation
before the offer that replaces it (`CancelledFirst`). `SecretsSkippedCorrect`
from `ReadInv`: past its hint, a marked secret is read only when it is no longer
offered, and then what comes back is blank. `PartsBelongCorrect` and
`CopyIsSeenCorrect` from `StoreInv`: an id is never above the number of
captures, under an id that a user saw there is the entry seen, a later one or
none (`Asks`), and a copy on its way holds what one capture stored, none older
than was asked for (`Wholes`). `DaemonImplementsHistory`: the rows in the
order of their ids are HuginHistory's list. Its lemmas are about ranks: an
insert above every id appends, deletions take out a subset and keep the order.

**LevelupToolsProofs**, about `ToolsSpec`:

- valkyrie: `OneKillPerHoldCorrect`, `KillsAimedCorrect` (`KillInv`), and gorm:
  `ForgetsAimedCorrect` (`ForgetInv`). While the key is held the selected row is
  the process or device it was pressed for, or a list without that was shown
  meanwhile; the meter is spent once per hold.
- valkyrie's tree: `TreeCompleteCorrect`. The rows are always those of the last
  scan for the view (`RowsInv`), so the rest is about what `Build` makes of a
  scan, torn or not. Descendants are the least set that is closed under children
  (`LeastClosed`). Those of the roots form no ring (`NoRing`), and siblings
  share none (`SiblingsApart`). So the way down never meets a process that was
  visited, `Under` is the family (`UnderIsFamily`), and the rows of a subtree
  cover its family (`WalkCovers`), by the smallest set of processes left over
  that it fails for. That `Under`, `Walk` and the flattening of lists exist as
  functions is proved in the same way, and that siblings are listed once each
  rests on the lemmas about `InOrder`.
- hugin's picker: `StaleIsNoticedCorrect` (`ListInv`): unless a commit is not
  noticed yet or was missed, the list is what a search would list now.
- sleipnir: `VisitsCountedCorrect` (`CountInv`). As long as all visits together
  are within the cap, no shell scales the ranks, and the rank of a directory
  that was never missing is the number of its visits; what a shell is about to
  bury was missing once.
  This needs sums over any number of directories, so the module proves first
  that the community modules' fold adds (`FoldExists`, `SumAdds`,
  `SumIsMonotone`), by the smallest subset it fails for.
- munin's search: `NewestOfEachCorrect` (`SearchInv`). The list is right for the
  entries there were when it was made. That rests on lemmas about `InOrder` (it
  lists each element once, in line with the order) and about the limits: what is
  cut off comes after all that stays.
- heimdall: `OnlySilentDroppedCorrect` (`HeardInv`): an entry is as new as what
  was heard of its address, or a sighting of it is in the channel, which every
  turn drains before it drops. The drain is a recursive function; that it exists
  and merges all sightings is proved by the least length it fails for.

**BragiProofs**: `CompleteIsWholeCorrect` (`CompleteInv`). While the first
picture is incomplete, every node whose volume is not known is waited for
(`WaitedFor`): its volume, or that it is gone, comes before the answer to the
last sync, or it is still to be bound and that is asked before the sync. A node
that appeared and left will be told to be gone (`Gone`). Each answer the server
gives moves one of these on, and none is lost because nothing overtakes.

`ShownIsTrueCorrect` (`ShownInv`): the last word on each thing is true. That a
node or card is there, each link, the default, and the values of a node or card
are told of by events of their own (`Concerns`). For each of them the last such
event on its way says what PipeWire has, and where none is on its way the mirror
has it already (`ThereTold`, `LinksTold`, `DefaultTold`, `ValuesTold`). What the
engine does not hear of yet it will bind, since the global is on its way or the
bind is (`WillBind`); a card's `changed` says nothing by itself, and is true
because the engine then asks for the params. Nothing is told before the registry
is asked for, which comes first and once (`Opening`, `RegistryOnce`). An event
that PipeWire sends is shown to be the last word on what it changes
(`AnsweringKeeps`), and one that the engine hears to leave the mirror as the
event says (`HeedsKeeps`); with both queues empty all that remains is that the
mirror is PipeWire's.

The assumptions beyond those the modules name: `Nothing` is no number; limits,
the pool, the cap and heimdall's silence are natural numbers, volumes integers,
scores natural numbers (`SearchAssumption`); valkyrie's scans are finite, with
numbers for pid, cpu and memory (`TablesAssumption`); gorm's snapshots, sleipnir's
directories and the nodes PipeWire starts with are finite; nodes, cards, the
registry and the metadata object have different ids (`Distinct`). All are true
of the program, whose ids, numbers and collections they describe.

Left to TLC:

- liveness under fairness (AcknowledgedShutdownEnds, CommandsReturn, OpenEnds,
  FinishedIsClosed, AcceptedIsDone, ClientReturns): the prover has no rules for
  ENABLED, which fairness needs;
- what LineEditing and mimir's blocks compute, and the violation runs, which
  are about one counterexample each.

## 7. Findings

Each of these contradicts a comment or a document, and has a run that TLC finds
violated (`PROJECT.json`, "findings"):

- munin: stop() returns before the old daemon has removed its socket, so a
  restart can lose the new one's (munin_stop_early).
- munin: Store::open fails with SQLITE_BUSY under contention although waiting is
  intended (munin_store_busy).
- munin: importing a history file twice doubles it, though `README.org:117` says
  files dedupe (munin_reimport).
- gorm: the answer to a pairing request that BlueZ gave up settles the next
  request (gorm_stray_answer).
- delete_word panics when the blank before the word has more than one byte
  (line_editing).
- mimir: a click on the bar resets the baselines that usage and throughput are
  measured from (mimir_click).

Observed in the models without a run of their own:

- munin: bind_clean is no backstop. After a start that timed out on a slow
  daemon, a second one can probe the socket between the first one's bind and
  listen and remove it: both serve, and the first cannot be reached.
  SoleDaemonServes supposes that lifetimes do not overlap.
- munin: of two first starts, one can read the version before the other's schema
  commit and look for the tables after it (`levelup-core/src/sqlite.rs:22`), and
  refuses the file. OwnFileAccepted speaks of processes that start after the
  commit.
- munin: add_end selects and updates in two statements
  (`munin/src/storage.rs:184`), so shells that share a session and finish at once
  pick the same row, and the second overwrites its exit code. ClosedOnce and
  ExitCodeIsOwn leave such sessions out.
- gorm: the result of a connect, or of an earlier pair call, takes down the live
  prompt of a pairing with the same device (`gorm/src/tui.rs:152`), the exception
  in NoSilentWait.
- sleipnir: two refreshes that both sum the ranks before either scales them scale
  twice for one overflow (`sleipnir/src/storage.rs:250`), and visits of one TTL
  all refresh while the first refresh runs, since its time is written when it
  has ended (`sleipnir/src/munin_import.rs:48`). VisitsCounted supposes visits
  within the cap and does not speak of the gate.
- munin: a munind that bind_clean refuses stays alive without a socket, since
  the serve task's error is only logged (`munin/src/bin/munind.rs:47`); a
  Shutdown served before the signal handlers are installed ends the process on
  the spot (`RaiseTerm` in main's phase before `InstallHandlers`); the `exit` row
  of a nested shell receives the outer command's exit code.
- hugin: an offer that lists a MIME type twice loses the capture; an
  application that keeps its pipe open blocks the Wayland loop
  (`hugin/src/wayland.rs:236`); a copy names its entry by an id that a later
  capture may have taken over (the inequality in CopyIsSeen).
- gorm, valkyrie: a device or process that leaves the list for a moment while
  its key is held takes the aim with it: the hold then hits the first row (the
  exception in ForgetsAimed and KillsAimed).
- bragi: two volume keys in quick succession start from the same mirrored value.
- heimdall: an address that changes hands keeps the old host's name and
  services, and its vendor if the new MAC address has none.

## 8. Not modelled

Drawing, highlighting, terminal set-up, configuration files, paths, completions
and logging; parsing of /proc, D-Bus, PipeWire and Wayland wire data, packets;
the OUI databases; munin's history parsers, which are character by character.
Within modelled components: status and ping (no state changes), durations and
metadata of captured commands, the switch of a new database to WAL mode, typed
passkeys, leaving gorm and valkyrie, the death of bragi's engine, copying and
opening addresses in heimdall, mimir's blocks without memory beyond one reading
each. `PROJECT.json` gives the reason for each component.

Abstractions within the models that a reader should know of:

- MuninCapture: sessions are the process ids of their first shells, and a shell
  that reuses the id of an earlier one is left out.
- MuninImport: daemons may serve at once without the accidents it takes in
  MuninDaemon; the history files only grow.
- Sleipnir: aged ranks are whole numbers, while the code keeps the fraction. A
  visit that cannot open the store or write to it changes nothing, and is thus
  no step of the model: `visits` counts those that `add_dir` recorded.
- Bragi: the profile and route parameters that PipeWire sends one by one for a
  card come as one event (`Params`), so a chooser never sees half a list; the
  metadata object, once there, is not taken away.
- valkyrie, heimdall: what a query matches is a score of the row's words; the
  words are program names, ports and what `haystack` collects, not the strings.
- Names, ids and times that no property tells apart are left out throughout.
