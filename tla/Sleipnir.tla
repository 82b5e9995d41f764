------------------------------ MODULE Sleipnir ------------------------------
(***************************************************************************)
(* sleipnir: shells that record visits and refresh the mined files         *)
(* (storage.rs, munin_import.rs, run_add and run_sync in main.rs), and the *)
(* picker over the fused pool (walk.rs, tui.rs). Shells share a database   *)
(* in which each statement is atomic and nothing else is.                  *)
(***************************************************************************)
EXTENDS Naturals, Sequences, FiniteSets, SequencesExt, FiniteSetsExt, Functions

CONSTANTS
  Shells,
  Dirs, Files,
  Parent,      \* the directory above a path, Nothing above a root
  Git,         \* the directories that hold a .git
  Cwd,         \* where the picker is started
  Ignored,     \* paths the walk leaves out: ignored, hidden, pruned, too deep
  Tokens,      \* arguments: [plain, path]
  Queries, Everything,
  Score,       \* the fuzzy score of a path for a query, 0 if it does not match
  RankCap,     \* RANK_CAP
  Ttl,         \* SYNC_TTL_SECS, in ticks of the clock
  Hour, Day, Week,
  ScanLimit, WalkCap, Limit, Bottom,
  MaxClock, MaxVisits, MaxCommands,   \* bounds
  Nothing

VARIABLES
  clock,
  live,      \* paths on disk, with their mtimes
  commands,  \* munin's entries: [args, at]
  dirs, files,  \* the tables: path to [rank, at]
  lastSync,  \* meta: last_file_sync
  job,       \* what the process of each shell is doing
  query, pool, results, at, outcome,  \* the picker; pool is Nothing before it starts
  visits,    \* history: the visits of each directory
  steady     \* history: the directories that were never missing

store == <<dirs, files, lastSync>>
world == <<clock, live, commands, steady>>
picker == <<query, pool, results, at, outcome>>
vars == <<store, world, picker, job, visits>>

Paths == Dirs \cup Files
Sum(f) == FoldFunction(+, 0, f)
Without(f, S) == [p \in DOMAIN f \ S |-> f[p]]
Put(f, p, v) == [x \in DOMAIN f \cup {p} |-> IF x = p THEN v ELSE f[x]]

-----------------------------------------------------------------------------
(* A shell. *)

Idle == [step |-> "Idle"]
Goto(s, j) == job' = [job EXCEPT ![s] = j]
At(s, step) == job[s].step = step

\* mutant: the conflict replaces the row
AddDir_Replaces(d, now) == dirs' = Put(dirs, d, [rank |-> 1, at |-> now])

\* add_dir
AddDir(d, now) ==
  dirs' = Put(dirs, d, [rank |-> IF d \in DOMAIN dirs THEN dirs[d].rank + 1 ELSE 1, at |-> now])

\* run_add, up to sync_if_stale
Visit(s) == At(s, "Idle") /\ \E d \in Dirs \cap DOMAIN live :
  /\ Sum(visits) < MaxVisits
  /\ AddDir(d, clock) /\ visits' = [visits EXCEPT ![d] = @ + 1]
  /\ Goto(s, [step |-> "Check", now |-> clock, gated |-> TRUE])
  /\ UNCHANGED <<files, lastSync, world, picker>>

\* sync_if_stale
Check(s) ==
  /\ At(s, "Check")
  /\ Goto(s, IF lastSync = Nothing \/ job[s].now >= lastSync + Ttl
             THEN [job[s] EXCEPT !.step = "Mine"] ELSE Idle)
  /\ UNCHANGED <<store, world, picker, visits>>

\* run_sync
Sync(s) ==
  /\ At(s, "Idle")
  /\ Goto(s, [step |-> "Mine", now |-> clock, gated |-> FALSE])
  /\ UNCHANGED <<store, world, picker, visits>>

\* looks_like_path_arg, resolve_file
Resolved(tok) == IF tok.plain THEN {tok.path} \cap Files \cap DOMAIN live ELSE {}

\* mine_files: how often and how recently the last commands named each file
Mined ==
  LET last == Max({0, Len(commands) - ScanLimit}) + 1 .. Len(commands)
      args(n) == commands[n[1]].args
      named(f) == {n \in last \X (1..2) : n[2] <= Len(args(n)) /\ f \in Resolved(args(n)[n[2]])}
  IN [f \in {f \in Files : named(f) # {}} |->
       [rank |-> Cardinality(named(f)), at |-> Max({commands[n[1]].at : n \in named(f)})]]

Mine(s) ==
  /\ At(s, "Mine")
  /\ Goto(s, [step |-> "Replace", now |-> job[s].now, gated |-> job[s].gated, mined |-> Mined])
  /\ UNCHANGED <<store, world, picker, visits>>

\* munin's database, or a write to the own one, fails: sync_if_stale backs
\* off, sync_now reports it.
Fail(s) ==
  /\ job[s].step \in {"Mine", "Replace", "Collect", "Bury", "Age", "Drop", "Stamp"}
  /\ Goto(s, IF job[s].gated THEN [step |-> "Stamp", now |-> job[s].now, gated |-> FALSE] ELSE Idle)
  /\ UNCHANGED <<store, world, picker, visits>>

\* replace_files
Replace(s) ==
  /\ At(s, "Replace")
  /\ files' = job[s].mined
  /\ Goto(s, [step |-> "Collect", now |-> job[s].now, gated |-> job[s].gated])
  /\ UNCHANGED <<dirs, lastSync, world, picker, visits>>

(* maintain_dirs: list the dead, delete them, weigh the rest, age them. *)

Collect(s) ==
  /\ At(s, "Collect")
  /\ Goto(s, [step |-> "Bury", now |-> job[s].now, gated |-> job[s].gated,
              dead |-> DOMAIN dirs \ DOMAIN live])
  /\ UNCHANGED <<store, world, picker, visits>>

Weight == Sum([d \in DOMAIN dirs |-> dirs[d].rank])

Bury(s) == At(s, "Bury") /\
  \/ \E d \in job[s].dead :
       /\ dirs' = Without(dirs, {d})
       /\ Goto(s, [job[s] EXCEPT !.dead = @ \ {d}])
       /\ UNCHANGED <<files, lastSync, world, picker, visits>>
  \/ /\ job[s].dead = {}
     /\ Goto(s, [step |-> IF Weight > RankCap THEN "Age" ELSE "Stamp", total |-> Weight,
                 now |-> job[s].now, gated |-> job[s].gated])
     /\ UNCHANGED <<store, world, picker, visits>>

\* An aged rank is a whole number here: the code keeps the fraction.
Age(s) ==
  /\ At(s, "Age")
  /\ dirs' = [d \in DOMAIN dirs |-> [dirs[d] EXCEPT !.rank = (@ * RankCap) \div job[s].total]]
  /\ Goto(s, [job[s] EXCEPT !.step = "Drop"])
  /\ UNCHANGED <<files, lastSync, world, picker, visits>>

Drop(s) ==
  /\ At(s, "Drop")
  /\ dirs' = Without(dirs, {d \in DOMAIN dirs : dirs[d].rank < 1})
  /\ Goto(s, [job[s] EXCEPT !.step = "Stamp"])
  /\ UNCHANGED <<files, lastSync, world, picker, visits>>

\* set_meta
Stamp(s) ==
  /\ At(s, "Stamp") /\ lastSync' = job[s].now /\ Goto(s, Idle)
  /\ UNCHANGED <<dirs, files, world, picker, visits>>

Shell(s) == \/ Visit(s) \/ Check(s) \/ Sync(s) \/ Mine(s) \/ Fail(s) \/ Replace(s)
            \/ Collect(s) \/ Bury(s) \/ Age(s) \/ Drop(s) \/ Stamp(s)

-----------------------------------------------------------------------------
(* The picker. *)

\* frecency, in quarters
Frecency(row) ==
  LET age == IF clock > row.at THEN clock - row.at ELSE 0
  IN row.rank * (IF age < Hour THEN 16 ELSE IF age < Day THEN 8 ELSE IF age < Week THEN 2 ELSE 1)

\* load_pool
Habit == [p \in (DOMAIN dirs \cup DOMAIN files) \cap DOMAIN live |->
            Frecency(IF p \in Dirs THEN dirs[p] ELSE files[p])]

\* repo_root
Above[p \in Dirs \cup {Nothing}] == IF p = Nothing THEN <<>> ELSE <<p>> \o Above[Parent[p]]
Root == LET up == SelectSeq(Above[Cwd], LAMBDA d : d \in Git) IN IF up = <<>> THEN Cwd ELSE up[1]

\* walk_pool: the rows of the tree below the root, WALK_CAP of them at most
Walks ==
  LET tree == {p \in DOMAIN live \ Ignored : p = Root \/ Contains(Above[Parent[p]], Root)}
      most == Min({WalkCap, Cardinality(tree)})
  IN {[p \in S |-> Frecency([rank |-> 1, at |-> live[p]])] : S \in kSubset(most, tree)}

\* fuse: the stronger signal of each path
Fuse(habit, walk) == [p \in DOMAIN habit \cup DOMAIN walk |->
  Max({f[p] : f \in {g \in {habit, walk} : p \in DOMAIN g}})]

\* rank_pool; rows of equal rank come in any order, here that of Paths
Ranked(rows, q) == SetToSortSeq({p \in DOMAIN rows : q = Everything \/ Score[q][p] > 0},
  LAMBDA a, b : \/ q # Everything /\ Score[q][a] > Score[q][b]
                \/ (q = Everything \/ Score[q][a] = Score[q][b]) /\ rows[a] > rows[b])

\* refresh_results
Refresh(rows, q) ==
  LET best == SubSeq(Ranked(rows, q), 1, Min({Limit, Len(Ranked(rows, q))})) IN
  /\ query' = q
  /\ results' = IF Bottom THEN Reverse(best) ELSE best
  /\ at' = IF best = <<>> THEN Nothing ELSE IF Bottom THEN Len(best) ELSE 1

\* build_pool, run_loop
Pick ==
  /\ pool = Nothing
  /\ \E walk \in Walks, q \in Queries : pool' = Fuse(Habit, walk) /\ Refresh(pool', q)
  /\ UNCHANGED <<outcome, job, store, world, visits>>

Open == pool # Nothing /\ outcome = Nothing

EditQuery == \E q \in Queries :
  Open /\ Refresh(pool, q) /\ UNCHANGED <<pool, outcome, job, store, world, visits>>

\* move_selection
Move == \E delta \in {0, 2} :
  /\ Open /\ results # <<>>
  /\ at' = Min({Len(results), Max({1, at + delta - 1})})
  /\ UNCHANGED <<query, pool, results, outcome, job, store, world, visits>>

\* Enter and Tab: accept; Esc and the others cancel.
Leave == \E key \in {"Enter", "Tab", "Esc"} :
  /\ Open
  /\ outcome' =
       IF key = "Esc" \/ at = Nothing THEN <<"Cancel">>
       ELSE LET p == results[at] IN
            IF key = "Enter" THEN <<IF p \in Dirs THEN "Cd" ELSE "Insert", p>>
            ELSE IF p \in Dirs THEN <<"Insert", p>> ELSE <<"Cd", Parent[p]>>
  /\ UNCHANGED <<query, pool, results, at, job, store, world, visits>>

Picker == Pick \/ EditQuery \/ Move \/ Leave

-----------------------------------------------------------------------------
(* The world: the clock, other programs, munin's daemon. *)

Tick ==
  /\ clock < MaxClock /\ clock' = clock + 1
  /\ UNCHANGED <<live, commands, steady, store, picker, job, visits>>

\* A path is made, or a file written.
Write == \E p \in Paths :
  /\ p \in Dirs => p \notin DOMAIN live
  /\ live' = Put(live, p, clock) /\ live' # live
  /\ UNCHANGED <<clock, commands, steady, store, picker, job, visits>>

Unlink == \E p \in DOMAIN live \ {Cwd} :
  /\ live' = Without(live, {p}) /\ steady' = steady \ {p}
  /\ UNCHANGED <<clock, commands, store, picker, job, visits>>

Run == \E tok \in Tokens :
  /\ Len(commands) < MaxCommands
  /\ commands' = Append(commands, [args |-> <<tok>>, at |-> clock])
  /\ UNCHANGED <<clock, live, steady, store, picker, job, visits>>

Init ==
  /\ clock = 0 /\ live = [p \in Paths |-> 0] /\ commands = <<>> /\ steady = Dirs
  /\ dirs = <<>> /\ files = <<>> /\ lastSync = Nothing
  /\ job = [s \in Shells |-> Idle] /\ visits = [d \in Dirs |-> 0]
  /\ query = Everything /\ pool = Nothing /\ results = <<>> /\ at = Nothing /\ outcome = Nothing

Next == (\E s \in Shells : Shell(s)) \/ Picker \/ Tick \/ Write \/ Unlink \/ Run

Spec == Init /\ [][Next]_vars

-----------------------------------------------------------------------------
(***************************************************************************)
(* No visit is lost and none counts twice while the shells, and the        *)
(* maintenance each of them may be in the middle of, interleave: as long   *)
(* as the visits stay within RANK_CAP, the rank of a directory that was    *)
(* never missing is the number of times it was visited.                    *)
(***************************************************************************)
VisitsCounted == Sum(visits) <= RankCap =>
  \A d \in steady : (IF d \in DOMAIN dirs THEN dirs[d].rank ELSE 0) = visits[d]
=============================================================================
