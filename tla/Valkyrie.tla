------------------------------ MODULE Valkyrie ------------------------------
(***************************************************************************)
(* valkyrie, the process picker: a scan of /proc once a second, ranked for *)
(* the query or laid out as a tree (search.rs, tree.rs), a selection that  *)
(* follows its process, the signals, and the key that must be held to kill *)
(* (tui.rs).                                                               *)
(*                                                                         *)
(* The process table is external: between two scans it may become any of   *)
(* Tables.  Reading it is not atomic, so a table may be torn: a parent may *)
(* be missing, or be a descendant.  Times are left out: the hold timer may *)
(* run out whenever the key was down long enough for it.                   *)
(***************************************************************************)
EXTENDS Naturals, Integers, Sequences, FiniteSets, SequencesExt, FiniteSetsExt, Functions,
        Ordering

CONSTANTS
  Tables,        \* scans: pid to ppid, program, cpu, rss, ports, mine
  Queries,       \* what is typed, Everything among them
  Everything,    \* the empty query
  PortOf,        \* the port of a query ":PORT"
  Score,         \* the fuzzy score of a program for a query, 0 if it does not match
  Limit,         \* Config.limit
  Bottom,        \* Config.layout: the best match is at the bottom
  CollapseMin, DominantPercent,  \* AUTO_COLLAPSE_MIN, DOMINANT_FRAC
  Signals,       \* the signals a chooser lists for a query
  MaxKeys,       \* bound on the keys that change the view
  Nothing

VARIABLES
  enhanced,  \* kbd_enhanced: the terminal reports key releases
  view,      \* query, sort, scope, tree and the folds set by hand
  snapshot,  \* the last scan, in scope
  rows,      \* results and tree_meta
  at,        \* the selected row's index, Nothing if there is none
  armed,     \* kill_arm: "no", "armed", or "kept" once a repeat confirmed it
  consumed,  \* kill_consumed
  chooser,   \* the signal chooser: target, list of signals, position
  key,       \* Alt-K: "up", "down", "repeating", or "silent" after another key
  aim,       \* history: the process the armed hold is for, and whether it was off the list since
  fired,     \* history: kills since the key went down, or paused
  sent,      \* history: the signal this step sent, if the target was not just selected
  keys       \* the keys so far that change the view

listVars == <<enhanced, view, snapshot, rows, at>>
killVars == <<armed, consumed, key, fired>>
vars == <<listVars, killVars, chooser, aim, sent, keys>>

-----------------------------------------------------------------------------
(* Search and sort, on a table t.                                          *)

ActiveTree(v) == v.tree /\ v.query = Everything

\* The processes in the order of sort key v.sort; pid, the order of the scan, breaks ties.
Before(t, sort, p, q) ==
  LET ahead == CASE sort = "cpu" -> <<t[q].cpu - t[p].cpu, t[q].rss - t[p].rss>>
                 [] sort = "mem" -> <<t[q].rss - t[p].rss, 0>>
                 [] sort = "pid" -> <<0, 0>>
  IN \/ ahead[1] < 0
     \/ ahead[1] = 0 /\ (ahead[2] < 0 \/ (ahead[2] = 0 /\ p < q))

Sorted(t, sort, pids) == InOrder(pids, LAMBDA p, q : Before(t, sort, p, q))

\* rank: a port is matched exactly, anything else by score, which goes first;
\* memory does not part the processes of equal score and equal CPU.
Rank(t, v) ==
  LET score(p) == IF v.query \in DOMAIN PortOf
                  THEN IF PortOf[v.query] \in t[p].ports THEN 1 ELSE 0
                  ELSE IF v.query = Everything THEN 1 ELSE Score[v.query][t[p].program]
      tied(p, q) == IF v.query \in DOMAIN PortOf \cup {Everything} \/ v.sort # "cpu" THEN Before(t, v.sort, p, q)
                    ELSE t[p].cpu > t[q].cpu \/ (t[p].cpu = t[q].cpu /\ p < q)
  IN SetToSortSeq({p \in DOMAIN t : score(p) > 0},
                  LAMBDA p, q : \/ score(p) > score(q)
                                \/ score(p) = score(q) /\ tied(p, q))

-----------------------------------------------------------------------------
(* The tree.                                                               *)

Kids(t, p) == {c \in DOMAIN t : t[c].ppid = p /\ c # p}

\* mutant: orphans are nobody's child
Roots_Init(t) == {p \in DOMAIN t : t[p].ppid = p \/ t[p].ppid = 0}

Roots(t) == {p \in DOMAIN t : t[p].ppid = p \/ t[p].ppid \notin DOMAIN t}

\* auto_collapse: many children, most of the same program.
AutoCollapse(t, p) ==
  LET n == Cardinality(Kids(t, p)) IN
  /\ n >= CollapseMin
  /\ \E prog \in {t[c].program : c \in Kids(t, p)} :
       100 * Cardinality({c \in Kids(t, p) : t[c].program = prog}) >= DominantPercent * n

Collapsed(t, v, p) ==
  /\ Kids(t, p) # {}
  /\ p \in v.collapsed \/ (p \notin v.expanded /\ AutoCollapse(t, p))

Row(t, p, depth, count, folds) ==
  [pid |-> p, depth |-> depth, count |-> count, expandable |-> folds]

\* build: depth first, a folded subtree is one row and a count. What the way down has
\* visited is not entered again: `left` is the rest.
Build(t, v) ==
  LET Under[left \in SUBSET DOMAIN t] == [p \in DOMAIN t |->
        IF p \notin left THEN {} ELSE {p} \cup UNION {Under[left \ {p}][c] : c \in Kids(t, p)}]
      Walk[left \in SUBSET DOMAIN t] == [p \in DOMAIN t |->
        LET depth == Cardinality(DOMAIN t \ left)
            kids == Sorted(t, v.sort, Kids(t, p))
        IN IF p \notin left THEN <<>>
           ELSE IF Collapsed(t, v, p)
           THEN <<Row(t, p, depth, Cardinality(Under[DOMAIN t][p]) - 1, TRUE)>>
           ELSE <<Row(t, p, depth, 0, kids # <<>>)>>
                \o FlattenSeq([i \in DOMAIN kids |-> Walk[left \ {p}][kids[i]]])]
      roots == Sorted(t, v.sort, Roots(t))
  IN FlattenSeq([i \in DOMAIN roots |-> Walk[DOMAIN t][roots[i]]])

-----------------------------------------------------------------------------
(* The list.                                                               *)

Rows(t, v) ==
  LET ranked == Rank(t, v)
      all == IF ActiveTree(v) THEN Build(t, v)
             ELSE [i \in DOMAIN ranked |-> Row(t, ranked[i], 0, 0, FALSE)]
      top == SubSeq(all, 1, IF Len(all) < Limit THEN Len(all) ELSE Limit)
  IN IF Bottom /\ ~ActiveTree(v) THEN Reverse(top) ELSE top

Selected == IF at = Nothing THEN Nothing ELSE rows[at].pid

IndexOf(list, p) == {i \in DOMAIN list : list[i].pid = p}

DefaultIndex(list, v) ==
  IF list = <<>> THEN Nothing ELSE IF Bottom /\ ~ActiveTree(v) THEN Len(list) ELSE 1

\* mutant: the selection stays where it is on the screen
Follow_Index(list, v) ==
  IF at # Nothing /\ at \in DOMAIN list THEN at ELSE DefaultIndex(list, v)

\* The selection stays on its process, if that is still listed.
Follow(list, v) ==
  IF IndexOf(list, Selected) # {} THEN Min(IndexOf(list, Selected)) ELSE DefaultIndex(list, v)

\* refresh_results, of table t for view v
Refresh(t, v) ==
  /\ view' = v /\ snapshot' = t /\ UNCHANGED enhanced
  /\ rows' = Rows(t, v)
  /\ at' = Follow(rows', v)

\* rescan
Rescan(v) == \E table \in Tables :
  Refresh(Restrict(table, {p \in DOMAIN table : v.mine => table[p].mine}), v)

\* What a hold is for, after a key of the user's own and after a scan.
Aim == aim' = IF armed = "no" THEN Nothing
              ELSE [pid |-> IF at' = Nothing THEN Nothing ELSE rows'[at'].pid, lost |-> FALSE]
Watch == aim' = IF armed = "no" THEN Nothing
                ELSE [aim EXCEPT !.lost = @ \/ IndexOf(rows', aim.pid) = {}]

\* Opened without a query, and scanned once.
Init ==
  /\ enhanced \in BOOLEAN
  /\ view = [query |-> Everything, sort |-> "cpu", mine |-> FALSE, tree |-> FALSE,
             expanded |-> {}, collapsed |-> {}]
  /\ \E table \in Tables : snapshot = table
  /\ rows = Rows(snapshot, view) /\ at = DefaultIndex(rows, view)
  /\ armed = "no" /\ consumed = FALSE
  /\ chooser = Nothing
  /\ key = "up" /\ aim = Nothing /\ fired = 0
  /\ sent = Nothing /\ keys = 0

\* The live rescan, once a second.
Tick == Rescan(view) /\ Watch /\ sent' = Nothing /\ UNCHANGED <<killVars, chooser, keys>>

\* Alt-K does not repeat after another key.
OtherKey == key' = (IF key = "up" THEN "up" ELSE "silent") /\ UNCHANGED <<armed, consumed, fired>>

\* A key of the list's.
Pressed ==
  /\ chooser = Nothing
  /\ sent' = Nothing
  /\ OtherKey

\* One that changes the view.
Change == Pressed /\ keys < MaxKeys /\ keys' = keys + 1 /\ Aim /\ UNCHANGED chooser

\* Typing, pasting, deleting: the query becomes another.
EditQuery == \E q \in Queries : Refresh(snapshot, [view EXCEPT !.query = q]) /\ Change

CycleSort == LET next == [cpu |-> "mem", mem |-> "pid", pid |-> "cpu"] IN
  Refresh(snapshot, [view EXCEPT !.sort = next[@]]) /\ Change

ToggleTree == Refresh(snapshot, [view EXCEPT !.tree = ~@]) /\ Change

ToggleScope == Rescan([view EXCEPT !.mine = ~@]) /\ Change

\* Left and Right in the tree.
Fold(add, del) ==
  /\ ActiveTree(view) /\ at # Nothing /\ rows[at].expandable
  /\ Refresh(snapshot, [view EXCEPT ![add] = @ \cup {Selected}, ![del] = @ \ {Selected}])
  /\ Change

\* move_selection
Move == \E delta \in {-1, 1} :
  /\ rows # <<>>
  /\ at' = Min({Len(rows), Max({1, (IF at = Nothing THEN 1 ELSE at) + delta})})
  /\ UNCHANGED <<enhanced, view, snapshot, rows>>
  /\ Pressed /\ Aim /\ UNCHANGED <<chooser, keys>>

\* act and toggle_stop, on Enter and C-z, or C-l: the selected process gets
\* SIGTERM, SIGSTOP or SIGCONT, if any, and the table is scanned at once.
Act == Pressed /\ Rescan(view) /\ Watch /\ UNCHANGED <<chooser, keys>>

-----------------------------------------------------------------------------
(* The chooser.                                                            *)

OpenChooser == \E list \in Signals :
  /\ at # Nothing /\ Pressed
  /\ chooser' = [target |-> Selected, list |-> list, sel |-> 0]
  /\ UNCHANGED <<listVars, aim, keys>>

\* The list follows the chooser's own query; Down may run past its end.
UseChooser ==
  /\ chooser # Nothing
  /\ \/ \E list \in Signals : chooser' = [chooser EXCEPT !.list = list, !.sel = 0]
     \/ chooser.sel > 0 /\ chooser' = [chooser EXCEPT !.sel = @ - 1]
     \/ chooser.sel < Len(chooser.list) /\ chooser' = [chooser EXCEPT !.sel = @ + 1]
     \/ chooser' = Nothing
  /\ sent' = Nothing
  /\ OtherKey /\ UNCHANGED <<listVars, aim, keys>>

Choose ==
  /\ chooser # Nothing
  /\ chooser' = Nothing
  /\ IF chooser.list = <<>> THEN sent' = Nothing /\ UNCHANGED <<listVars, aim>>
     ELSE sent' = [pid |-> chooser.target, aim |-> Nothing] /\ Rescan(view) /\ Watch
  /\ OtherKey /\ UNCHANGED keys

-----------------------------------------------------------------------------
(* Hold to kill.                                                           *)

\* Alt-K, a press or a repeat; an open chooser takes it for a letter.
KeyDown ==
  /\ key # "silent"
  /\ key' = IF key = "up" THEN "down" ELSE "repeating"
  /\ fired' = IF key = "up" THEN 0 ELSE fired
  /\ IF chooser # Nothing \/ consumed THEN UNCHANGED <<armed, aim>>
     ELSE IF armed = "no" THEN armed' = "armed" /\ aim' = [pid |-> Selected, lost |-> FALSE]
     ELSE armed' = "kept" /\ UNCHANGED aim
  /\ IF chooser = Nothing THEN UNCHANGED chooser
     ELSE \E list \in Signals : chooser' = [chooser EXCEPT !.list = list, !.sel = 0]
  /\ sent' = Nothing
  /\ UNCHANGED <<listVars, consumed, keys>>

\* The picker notices that the key was let go.
Disarm == armed' = "no" /\ consumed' = FALSE /\ aim' = Nothing

\* The release reaches the picker only if the terminal reports it and has the focus.
KeyUp ==
  /\ key # "up" /\ key' = "up"
  /\ \/ enhanced /\ Disarm
     \/ UNCHANGED <<armed, consumed, aim>>
  /\ sent' = Nothing
  /\ UNCHANGED <<listVars, chooser, fired, keys>>

\* KILL_RELEASE_GAP without a repeat: the key was let go, or it is the delay
\* before the first repeat, or the chooser gets the repeats.
Gap ==
  /\ ~enhanced /\ ~(key = "repeating" /\ chooser = Nothing)
  /\ Disarm /\ fired' = 0
  /\ sent' = Nothing
  /\ UNCHANGED <<listVars, chooser, key, keys>>

\* KILL_HOLD has passed: SIGKILL to whatever is selected now.
KillSelected ==
  /\ armed = "kept" \/ (enhanced /\ armed = "armed")
  /\ armed' = "no" /\ aim' = Nothing
  /\ fired' = fired + 1
  /\ IF at = Nothing THEN sent' = Nothing /\ UNCHANGED listVars
     ELSE sent' = [pid |-> Selected, aim |-> aim] /\ Rescan(view)
  /\ UNCHANGED <<chooser, key, keys>>

\* mutant: the latch is not set
Fire_NoLatch == KillSelected /\ UNCHANGED consumed

Fire == KillSelected /\ consumed' = TRUE

Next ==
  \/ Tick \/ EditQuery \/ CycleSort \/ ToggleTree \/ ToggleScope \/ Move \/ Act
  \/ Fold("collapsed", "expanded") \/ Fold("expanded", "collapsed")
  \/ OpenChooser \/ UseChooser \/ Choose
  \/ KeyDown \/ KeyUp \/ Gap \/ Fire

Spec == Init /\ [][Next]_vars

-----------------------------------------------------------------------------
(***************************************************************************)
(* "holding past the meter can't SIGKILL a second (now-selected) process": *)
(* from the moment the key goes down until it is let go, one kill.  On a   *)
(* terminal that reports no releases, a pause without repeats is one: a    *)
(* hold that begins with quick taps has such a pause after its first kill. *)
(***************************************************************************)
OneKillPerHold == fired <= 1

(***************************************************************************)
(* A hold kills the process that was selected when the key went down, or   *)
(* the user moved to since, however the list was scanned, sorted or folded *)
(* in the meantime.  Only if that process was off the list for a moment is *)
(* it another one, the one the selection fell back to.                     *)
(***************************************************************************)
KillsAimed ==
  (sent # Nothing /\ sent.aim # Nothing) => sent.pid = sent.aim.pid \/ sent.aim.lost

\* Those in `from` and all that descend from them.
Descendants(t, from) ==
  {p \in DOMAIN t : \A s \in SUBSET DOMAIN t :
     (from \subseteq s /\ \A c \in DOMAIN t : t[c].ppid \in s => c \in s) => p \in s}

(***************************************************************************)
(* The tree hides nothing and shows nothing twice: every process is in one *)
(* row only, as itself or counted among the descendants that a folded row  *)
(* stands for, and the count is right. Left out are the processes that     *)
(* descend from none whose parent is missing or itself: a torn scan can    *)
(* show a ring of parents.                                                 *)
(***************************************************************************)
TreeComplete ==
  LET all == DOMAIN snapshot
      grounded == Descendants(snapshot,
                    {p \in all : snapshot[p].ppid \notin all \/ snapshot[p].ppid = p})
      family == [p \in all |-> Descendants(snapshot, {p})]
      share == [i \in DOMAIN rows |-> IF rows[i].count = 0 THEN {rows[i].pid} ELSE family[rows[i].pid]]
  IN (ActiveTree(view) /\ Len(rows) < Limit) =>
       /\ \A i \in DOMAIN rows : /\ share[i] \subseteq grounded
                                 /\ rows[i].count \in {0, Cardinality(family[rows[i].pid]) - 1}
       /\ \A p \in grounded : \E i \in DOMAIN rows :
            p \in share[i] /\ \A j \in DOMAIN rows : p \in share[j] => j = i
=============================================================================
