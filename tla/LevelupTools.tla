---------------------------- MODULE LevelupTools ----------------------------
(***************************************************************************)
(* The tools that share nothing with one another, side by side: which of   *)
(* them runs is chosen at the start. The clipboard daemon and gorm's       *)
(* pairing have variables of their own; the others use the ones below.     *)
(* Those that several tools name alike are called so, and v1 to v13 are    *)
(* the rest of each, in the order of its WITH.                             *)
(***************************************************************************)
EXTENDS HuginDaemon, GormPairing

CONSTANTS
  Queries, Everything,   \* what is typed; Everything is blank
  Limit, PoolLimit, Bottom,
  Tables, PortOf, ProcessQueries, ProcessScore, ProcessLimit,   \* valkyrie
  CollapseMin, DominantPercent, Signals, MaxKeys,
  Snapshots, DeviceScore, MaxEdits,   \* gorm
  Commands, CommandScore, MaxHistory,   \* munin
  Texts, MimesOf, TextScore, MaxCommits,   \* hugin
  Shells, Dirs, Files, Parent, Git, Cwd, Ignored, Tokens, PathScore, RankCap, Ttl,   \* sleipnir
  Hour, Day, Week, ScanLimit, WalkCap, MaxClock, MaxVisits, MaxCommands,
  Kind, CardOf, Profiles, Registry, Metadata, Starts, MaxVolume, NodeScore, MaxStimuli,   \* bragi
  Hosts, Vendor, MacKind, Interfaces, Width, MinPrefix, MaxPrefix, MaxHosts, DropAfter,   \* heimdall
  HostScore, MaxHostClock, MaxQueue, MaxMoves

VARIABLES
  tool,
  query, results, at, outcome,   \* the pickers
  enhanced, armed, consumed, key, aim, fired, sent,   \* keys that must be held
  v1, v2, v3, v4, v5, v6, v7, v8, v9, v10, v11, v12, v13

picker == <<query, results, at, outcome>>
hold == <<enhanced, armed, consumed, key, aim, fired, sent>>
others == <<picker, hold, v1, v2, v3, v4, v5, v6, v7, v8, v9, v10, v11, v12, v13>>
run == <<tool, vars, pairingVars, others>>

V == INSTANCE Valkyrie WITH
  Queries <- ProcessQueries, Score <- ProcessScore, Limit <- ProcessLimit,
  view <- v1, snapshot <- v2, rows <- v3, chooser <- v4, keys <- v5

G == INSTANCE GormPicker WITH
  Score <- DeviceScore,
  bluez <- v1, shown <- v2, drawn <- v3, prompt <- v4, edits <- v5

P == INSTANCE MuninPicker WITH
  Score <- CommandScore,
  history <- v1, seen <- v2, sort <- v3

H == INSTANCE HuginPicker WITH
  Score <- TextScore,
  entries <- v1, version <- v2, sort <- v3, mode <- v4, preview <- v5, noticed <- v6, missed <- v7

S == INSTANCE Sleipnir WITH
  Score <- PathScore,
  clock <- v1, live <- v2, commands <- v3, steady <- v4, dirs <- v5, files <- v6,
  lastSync <- v7, job <- v8, pool <- v9, visits <- v10

B == INSTANCE Bragi WITH
  Score <- NodeScore,
  server <- v1, bound <- v2, requests <- v3, events <- v4, graph <- v5, routes <- v6, meta <- v7,
  pending <- v8, syncs <- v9, cmds <- v10, published <- v11, ui <- v12, stimuli <- v13

D == INSTANCE Heimdall WITH
  Drop <- DropAfter, Score <- HostScore, MaxClock <- MaxHostClock,
  clock <- v1, lan <- v2, cache <- v3, moves <- v4, rx <- v5, ports <- v6, scans <- v7,
  devices <- v8, ssh <- v9, heard <- v10

-----------------------------------------------------------------------------
(* Where a tool does not run, its variables hold nothing. *)

NoPicker == query = Nothing /\ results = Nothing /\ at = Nothing /\ outcome = Nothing
NoHold == /\ enhanced = Nothing /\ armed = Nothing /\ consumed = Nothing /\ key = Nothing
          /\ aim = Nothing /\ fired = Nothing /\ sent = Nothing
NoneFrom11 == v11 = Nothing /\ v12 = Nothing /\ v13 = Nothing
NoneFrom8 == v8 = Nothing /\ v9 = Nothing /\ v10 = Nothing /\ NoneFrom11
NoneFrom6 == v6 = Nothing /\ v7 = Nothing /\ NoneFrom8
NoneFrom4 == v4 = Nothing /\ v5 = Nothing /\ NoneFrom6
None1To3 == v1 = Nothing /\ v2 = Nothing /\ v3 = Nothing

ToolsInit ==
  /\ Init /\ PairingInit
  /\ \/ tool \in {"hugind", "pairing"} /\ NoPicker /\ NoHold /\ None1To3 /\ NoneFrom4
     \/ tool = "valkyrie" /\ V!Init /\ query = Nothing /\ results = Nothing /\ outcome = Nothing /\ NoneFrom6
     \/ tool = "gorm" /\ G!Init /\ outcome = Nothing /\ NoneFrom6
     \/ tool = "munin" /\ P!Init /\ NoHold /\ NoneFrom4
     \/ tool = "hugin" /\ H!Init /\ NoHold /\ NoneFrom8
     \/ tool = "sleipnir" /\ S!Init /\ NoHold /\ NoneFrom11
     \/ tool = "bragi" /\ B!Init /\ NoPicker /\ NoHold
     \/ tool = "heimdall" /\ D!Init /\ outcome = Nothing /\ NoHold /\ NoneFrom11

ToolsNext ==
  /\ UNCHANGED tool
  /\ \/ tool = "hugind" /\ Next /\ UNCHANGED <<pairingVars, others>>
     \/ tool = "pairing" /\ PairingNext /\ UNCHANGED <<vars, others>>
     \/ /\ UNCHANGED <<vars, pairingVars>>
        /\ \/ /\ tool = "valkyrie" /\ V!Next
              /\ UNCHANGED <<query, results, outcome, v6, v7, v8, v9, v10, v11, v12, v13>>
           \/ tool = "gorm" /\ G!Next /\ UNCHANGED <<outcome, v6, v7, v8, v9, v10, v11, v12, v13>>
           \/ tool = "munin" /\ P!Next /\ UNCHANGED <<hold, v4, v5, v6, v7, v8, v9, v10, v11, v12, v13>>
           \/ tool = "hugin" /\ H!Next /\ UNCHANGED <<hold, v8, v9, v10, v11, v12, v13>>
           \/ tool = "sleipnir" /\ S!Next /\ UNCHANGED <<hold, v11, v12, v13>>
           \/ tool = "bragi" /\ B!Next /\ UNCHANGED <<picker, hold>>
           \/ tool = "heimdall" /\ D!Next /\ UNCHANGED <<outcome, hold, v11, v12, v13>>

ToolsSpec == ToolsInit /\ [][ToolsNext]_run

-----------------------------------------------------------------------------
(* The properties of each tool, as its module states them. *)

\* Alt-K held past the meter kills once until it is let go.
OneKillPerHold == tool = "valkyrie" => V!OneKillPerHold

\* A hold kills the process it was pressed for, or moved to, whatever scans do to the list.
KillsAimed == tool = "valkyrie" => V!KillsAimed

\* The tree shows or counts every process once, torn scans included.
TreeComplete == tool = "valkyrie" => V!TreeComplete

\* munin's search lists the newest run of each command, and duplicates take no place.
NewestOfEach == tool = "munin" => P!NewestOfEach

\* What hugin's picker shows is outdated only until it next looks for commits.
StaleIsNoticed == tool = "hugin" => H!StaleIsNoticed

\* sleipnir counts each visit once while its shells interleave.
VisitsCounted == tool = "sleipnir" => S!VisitsCounted

\* A hold forgets one device, and the one it was aimed at, whatever snapshots do to the list.
ForgetsAimed == tool = "gorm" => G!ForgetsAimed

\* Once PipeWire's echoes are in, bragi shows what PipeWire has.
ShownIsTrue == tool = "bragi" => B!ShownIsTrue

\* bragi takes its picture for complete only when every node's volume is in it.
CompleteIsWhole == [][tool = "bragi" => B!CompleteIsWhole]_run

\* heimdall forgets only devices that were silent for long enough.
OnlySilentDropped == [][tool = "heimdall" => D!OnlySilentDropped]_run
=============================================================================
