----------------------------- MODULE MuninCapture -----------------------------
(***************************************************************************)
(* Command capture: the preexec and precmd hooks of interactive shells     *)
(* (munin/src/shells/zsh.sh, bash.sh), each of which runs a short munin    *)
(* process that opens the database and calls Store::add_start or           *)
(* Store::add_end (munin/src/storage.rs).  The hooks are synchronous; the  *)
(* shells of a machine run concurrently on one table.                      *)
(*                                                                         *)
(* A session is the process id of the shell that set MUNIN_SESSION first;  *)
(* here it is that shell's name.  The exit code that add_end writes is     *)
(* represented by the row of the command it is the exit code of (0 when    *)
(* that command has no row), so that a row holds its own exit code when    *)
(* the value is the row's own id.                                          *)
(***************************************************************************)
EXTENDS Naturals, Sequences

CONSTANTS
  Shells,   \* interactive shells
  Faults,   \* what may happen beside plain typing, a subset of AllFaults
  MaxRows,  \* bound on the rows of the table
  None      \* SQL NULL

(***************************************************************************)
(* "hide": a command starts with a space, or its add-start fails (database *)
(* busy, process killed).  "loseEnd": an add-end fails.  "kill": a shell   *)
(* is killed at any point.  "nest": a command is itself an interactive     *)
(* shell.  "background": such a shell outlives its command (a terminal).   *)
(***************************************************************************)
AllFaults == {"hide", "loseEnd", "kill", "nest", "background"}

ASSUME ConstantsAssumption ==
  /\ Faults \subseteq AllFaults
  /\ MaxRows \in Nat
  /\ None \notin Nat \cup Shells

VARIABLES
  pc,       \* pc[s]: what shell s is doing
  session,  \* session[s]: its MUNIN_SESSION
  parent,   \* parent[s]: the shell whose foreground command s is
  row,      \* row[s]: the row of s's current command, 0 if it has none
  found,    \* found[s]: the row that add_end's SELECT returned
  entries,  \* the table, by rowid
  past      \* history: what happened in a session, see Events

(***************************************************************************)
(* "lostEnd": a command's add-end was lost.  "unrecorded": a command ran   *)
(* without a row.  "parallel": two of its shells ran side by side.         *)
(***************************************************************************)
Events == {"lostEnd", "unrecorded", "parallel"}

vars == <<pc, session, parent, row, found, entries, past>>

Rows == 1..Len(entries)
Phases == {"new", "off", "prompt", "start", "running", "select", "update"}

TypeOK ==
  /\ pc \in [Shells -> Phases]
  /\ session \in [Shells -> Shells \cup {None}]
  /\ parent \in [Shells -> Shells \cup {None}]
  /\ row \in [Shells -> 0..Len(entries)]
  /\ found \in [Shells -> 0..Len(entries)]
  /\ \A s \in Shells : pc[s] = "update" => found[s] > 0
  /\ past \subseteq Shells \X Events
  /\ entries \in Seq([session : Shells, exit_code : Nat \cup {None}])
  /\ Len(entries) <= MaxRows

Init ==
  /\ pc = [s \in Shells |-> "new"]
  /\ session = [s \in Shells |-> None]
  /\ parent = [s \in Shells |-> None]
  /\ row = [s \in Shells |-> 0]
  /\ found = [s \in Shells |-> 0]
  /\ entries = <<>>
  /\ past = {}

GoTo(s, label) == pc' = [pc EXCEPT ![s] = label]

\* The hook or the shell ends, and with it what it had in memory.
Leave(s, label) ==
  /\ GoTo(s, label)
  /\ row' = [row EXCEPT ![s] = 0]
  /\ found' = [found EXCEPT ![s] = 0]
Note(s, event) == past' = past \cup {<<session[s], event>>}
Alive(s) == pc[s] \notin {"new", "off"}
HasChild(s) == \E u \in Shells : Alive(u) /\ parent[u] = s
OpenRows(t) == {i \in Rows : entries[i].session = t /\ entries[i].exit_code = None}

\* A terminal opens: the init script sets MUNIN_SESSION to the shell's pid.
OpenShell(s) ==
  /\ pc[s] = "new"
  /\ GoTo(s, "prompt")
  /\ session' = [session EXCEPT ![s] = s]
  /\ UNCHANGED <<parent, row, found, entries, past>>

\* s is the command that t runs: MUNIN_SESSION is exported, and kept.
NestShell(s, t) ==
  /\ pc[s] = "new"
  /\ pc[t] = "running"
  /\ ~HasChild(t)
  /\ GoTo(s, "prompt")
  /\ session' = [session EXCEPT ![s] = session[t]]
  /\ \/ "nest" \in Faults /\ parent' = [parent EXCEPT ![s] = t] /\ UNCHANGED past
     \/ "background" \in Faults /\ Note(t, "parallel") /\ UNCHANGED parent
  /\ UNCHANGED <<row, found, entries>>

Preexec(s) ==
  /\ pc[s] = "prompt"
  /\ GoTo(s, "start")
  /\ UNCHANGED <<session, parent, row, found, entries, past>>

AddStart(s) ==
  /\ pc[s] = "start"
  /\ Len(entries) < MaxRows
  /\ entries' = Append(entries, [session |-> session[s], exit_code |-> None])
  /\ row' = [row EXCEPT ![s] = Len(entries')]
  /\ GoTo(s, "running")
  /\ UNCHANGED <<session, parent, found, past>>

\* add_start drops the command, or its process fails; the hook goes on.
NoStart(s) ==
  /\ pc[s] = "start"
  /\ "hide" \in Faults
  /\ GoTo(s, "running")
  /\ Note(s, "unrecorded")
  /\ UNCHANGED <<session, parent, row, found, entries>>

\* The command ends, precmd runs add-end.
Precmd(s) ==
  /\ pc[s] = "running"
  /\ ~HasChild(s)
  /\ GoTo(s, "select")
  /\ UNCHANGED <<session, parent, row, found, entries, past>>

\* mutant: ORDER BY id ASC
SelectOpen_Oldest(s) ==
  LET open == OpenRows(session[s]) IN
  /\ pc[s] = "select"
  /\ IF open = {}
     THEN Leave(s, "prompt")
     ELSE /\ GoTo(s, "update") /\ UNCHANGED row
          /\ found' = [found EXCEPT ![s] = CHOOSE i \in open : \A j \in open : j >= i]
  /\ UNCHANGED <<session, parent, entries, past>>

\* mutant: the WHERE clause forgets exit_code IS NULL
SelectOpen_Closed(s) ==
  LET rows == {i \in Rows : entries[i].session = session[s]} IN
  /\ pc[s] = "select"
  /\ IF rows = {}
     THEN Leave(s, "prompt")
     ELSE /\ GoTo(s, "update") /\ UNCHANGED row
          /\ found' = [found EXCEPT ![s] = CHOOSE i \in rows : \A j \in rows : j <= i]
  /\ UNCHANGED <<session, parent, entries, past>>

\* add_end: SELECT ... exit_code IS NULL ORDER BY id DESC LIMIT 1
SelectOpen(s) ==
  LET open == OpenRows(session[s]) IN
  /\ pc[s] = "select"
  /\ IF open = {}
     THEN Leave(s, "prompt")
     ELSE /\ GoTo(s, "update") /\ UNCHANGED row
          /\ found' = [found EXCEPT ![s] = CHOOSE i \in open : \A j \in open : j <= i]
  /\ UNCHANGED <<session, parent, entries, past>>

\* mutant: $? is read after it was overwritten
UpdateRow_LateStatus(s) ==
  /\ pc[s] = "update"
  /\ entries' = [entries EXCEPT ![found[s]].exit_code = 0]
  /\ Leave(s, "prompt")
  /\ UNCHANGED <<session, parent, past>>

\* add_end: UPDATE ... WHERE id, a transaction of its own
UpdateRow(s) ==
  /\ pc[s] = "update"
  /\ entries' = [entries EXCEPT ![found[s]].exit_code = row[s]]
  /\ Leave(s, "prompt")
  /\ UNCHANGED <<session, parent, past>>

LoseEnd(s) ==
  /\ "loseEnd" \in Faults
  /\ pc[s] \in {"select", "update"}
  /\ Leave(s, "prompt")
  /\ Note(s, "lostEnd")
  /\ UNCHANGED <<session, parent, entries>>

\* The command was `exit`: there is no prompt after it.
ExitShell(s) ==
  /\ pc[s] = "running"
  /\ ~HasChild(s)
  /\ Leave(s, "off")
  /\ UNCHANGED <<session, parent, entries, past>>

\* The terminal is closed: the capture process it waits for dies with it.
KillShell(s) ==
  /\ "kill" \in Faults
  /\ Alive(s)
  /\ Leave(s, "off")
  /\ IF HasChild(s) THEN Note(s, "parallel") ELSE UNCHANGED past
  /\ UNCHANGED <<session, parent, entries>>

-----------------------------------------------------------------------------
CaptureStep(s) ==
  AddStart(s) \/ NoStart(s) \/ SelectOpen(s) \/ UpdateRow(s) \/ LoseEnd(s)

UserStep(s) == Preexec(s) \/ Precmd(s) \/ ExitShell(s)

Next == \E s \in Shells :
  \/ OpenShell(s) \/ CaptureStep(s) \/ UserStep(s) \/ KillShell(s)
  \/ \E t \in Shells : NestShell(s, t)

Spec == Init /\ [][Next]_vars

\* The capture processes run; users type when they like.
FairSpec == Spec /\ \A s \in Shells : WF_vars(CaptureStep(s))

-----------------------------------------------------------------------------
(***************************************************************************)
(* A row never holds the exit code of another command: add_end finds the   *)
(* row that the matching add_start made, though it only knows the session. *)
(* It takes two mishaps in one session, an add-end lost and later a        *)
(* command without a row, or a session that shells share.                  *)
(***************************************************************************)
Shared(t) == \E s, u \in Shells : s # u /\ session[s] = t /\ session[u] = t
Happened(t, event) == <<t, event>> \in past

ExitCodeIsOwn == \A i \in Rows :
  \/ entries[i].exit_code \in {None, i}
  \/ Shared(entries[i].session)
  \/ Happened(entries[i].session, "lostEnd") /\ Happened(entries[i].session, "unrecorded")

(***************************************************************************)
(* A row is closed once: nested or not, no later command overwrites an     *)
(* exit code that is there, unless shells of one session ran side by side. *)
(***************************************************************************)
ClosedOnce ==
  [][\A i \in Rows : entries[i].exit_code # None /\ entries'[i] # entries[i]
       => Happened(entries[i].session, "parallel")]_vars

(***************************************************************************)
(* Every recorded command that comes to its precmd gets its exit code,     *)
(* unless the shell is killed or the add-end lost first, or another shell  *)
(* of the session disturbs it.                                             *)
(***************************************************************************)
FinishedIsClosed == \A s \in Shells : \A i \in 1..MaxRows :
  pc[s] = "select" /\ row[s] = i
    ~> \/ pc[s] = "off" \/ Happened(session[s], "lostEnd") \/ Shared(session[s])
       \/ i \in Rows /\ entries[i].exit_code = i
=============================================================================
