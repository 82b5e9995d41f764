----------------------------- MODULE HuginPicker -----------------------------
(***************************************************************************)
(* hugin's picker (hugin/src/tui.rs), which reads the database by itself   *)
(* and asks hugind to copy and delete, over a database that hugind changes *)
(* meanwhile (modelled in HuginDaemon, here by what it may commit).        *)
(***************************************************************************)
EXTENDS Naturals, Sequences, FiniteSets, SequencesExt, FiniteSetsExt, Ordering

CONSTANTS
  Texts,       \* what an entry holds; each has its mimes
  MimesOf,
  Queries, Everything, Score,
  Limit,       \* Config.limit
  PoolLimit,   \* MAX_LIMIT
  Bottom,      \* Config.layout
  MaxCommits,  \* bound on what others commit
  Nothing

VARIABLES
  entries,     \* id to text
  version,     \* PRAGMA data_version
  query, sort,
  results,     \* what is listed, top to bottom: id and mimes
  at,
  mode,        \* Normal, ConfirmDelete or the mime chooser
  preview,     \* the cached preview: id and text
  noticed,     \* last_data_version, Nothing before it is read
  missed,      \* history: a commit came between the first search and noticed
  outcome

vars == <<entries, version, query, sort, results, at, mode, preview, noticed, missed, outcome>>

FirstN(s, n) == SubSeq(s, 1, Min({n, Len(s)}))

\* list, newest first, and search, over the newest PoolLimit entries; both
\* complete their rows by attach_mimes.
Search(db, q, by) ==
  LET pool == FirstN(InOrder(DOMAIN db, >), PoolLimit)
      score(id) == Score[q][db[id]]
      ranked == InOrder({id \in ToSet(pool) : score(id) > 0}, LAMBDA a, b :
                  \/ by = "Relevance" /\ score(a) > score(b)
                  \/ (by = "Recent" \/ score(a) = score(b)) /\ a > b)
      ids == FirstN(IF q = Everything THEN pool ELSE ranked, Min({Limit, PoolLimit}))
  IN [i \in DOMAIN ids |-> [id |-> ids[i], mimes |-> MimesOf[db[ids[i]]]]]

Listed(db, q, by) == IF Bottom THEN Reverse(Search(db, q, by)) ELSE Search(db, q, by)

Selected == IF at = Nothing THEN Nothing ELSE results[at].id

\* refresh_inner
Refresh(q, by, preserve) ==
  LET list == Listed(entries', q, by)
      same == {i \in DOMAIN list : preserve /\ list[i].id = Selected}
  IN /\ query' = q /\ sort' = by /\ results' = list
     /\ at' = IF same # {} THEN Min(same)
              ELSE IF list = <<>> THEN Nothing ELSE IF Bottom THEN Len(list) ELSE 1

\* ensure_preview, which runs after every key: cached under the entry's id.
EnsurePreview ==
  preview' = IF at' = Nothing THEN Nothing
             ELSE LET id == results'[at'].id IN
                  IF preview # Nothing /\ preview.id = id THEN preview
                  ELSE [id |-> id, text |-> IF id \in DOMAIN entries' THEN entries'[id] ELSE Nothing]

\* The picker opens, and reads the version after its first search.
Init ==
  /\ entries = <<>> /\ version = 0
  /\ query = Everything /\ sort = "Relevance" /\ results = <<>> /\ at = Nothing
  /\ mode = "Normal" /\ preview = Nothing /\ noticed = Nothing
  /\ missed = FALSE /\ outcome = Nothing

ReadVersion ==
  /\ noticed = Nothing
  /\ noticed' = version
  /\ UNCHANGED <<entries, version, query, sort, results, at, mode, preview, missed, outcome>>

\* hugind stores a capture, which takes the id after the largest, or an entry
\* is deleted, by another picker or by retention.
Commit ==
  /\ version < MaxCommits /\ version' = version + 1
  /\ missed' = (missed \/ noticed = Nothing)
  /\ LET ids == DOMAIN entries
         next == IF ids = {} THEN 1 ELSE Max(ids) + 1
     IN \/ \E text \in Texts :
             entries' = [id \in ids \cup {next} |-> IF id = next THEN text ELSE entries[id]]
        \/ \E id \in ids : entries' = [other \in ids \ {id} |-> entries[other]]
  /\ UNCHANGED <<query, sort, results, at, mode, preview, noticed, outcome>>

\* mutant: the tick looks at the version after the search
Idle_ReadsLate ==
  /\ outcome = Nothing /\ noticed # Nothing /\ mode = "Normal"
  /\ version # noticed
  /\ noticed' \in version..version + 1
  /\ UNCHANGED <<entries, version, mode, missed, outcome>>
  /\ Refresh(query, sort, TRUE) /\ EnsurePreview

\* 100 ms without a key, in the normal view: what others committed is listed.
Idle ==
  /\ outcome = Nothing /\ noticed # Nothing /\ mode = "Normal"
  /\ version # noticed
  /\ noticed' = version
  /\ UNCHANGED <<entries, version, mode, missed, outcome>>
  /\ Refresh(query, sort, TRUE) /\ EnsurePreview

Key(m) == outcome = Nothing /\ noticed # Nothing /\ mode = m

EditQuery == \E q \in Queries :
  /\ Key("Normal")
  /\ UNCHANGED <<entries, version, mode, noticed, missed, outcome>>
  /\ Refresh(q, sort, FALSE) /\ EnsurePreview

CycleSort ==
  /\ Key("Normal")
  /\ UNCHANGED <<entries, version, mode, noticed, missed, outcome>>
  /\ Refresh(query, IF sort = "Relevance" THEN "Recent" ELSE "Relevance", FALSE) /\ EnsurePreview

Move == \E delta \in {0, 2} :
  /\ Key("Normal") /\ results # <<>>
  /\ at' = Min({Len(results), Max({1, at + delta - 1})})
  /\ UNCHANGED <<entries, version, query, sort, results, mode, noticed, missed, outcome>>
  /\ EnsurePreview

\* do_copy: hugind has the entry and is there, or the picker stays open.
DoCopy(mime) ==
  \/ Selected \in DOMAIN entries /\ outcome' = [kind |-> "Copied", id |-> Selected, mime |-> mime]
  \/ UNCHANGED outcome

\* Enter: the whole entry.  C-o on an entry of one mime: that mime.
Copy ==
  /\ Key("Normal") /\ at # Nothing
  /\ \/ DoCopy(Nothing)
     \/ Cardinality(results[at].mimes) = 1 /\ DoCopy(CHOOSE m \in results[at].mimes : TRUE)
  /\ UNCHANGED <<entries, version, query, sort, results, at, mode, noticed, missed>>
  /\ EnsurePreview

\* Tab, or Esc, C-c, C-g, C-d on an empty query.
Leave == \E kind \in {"Print", "Cancel"} :
  /\ Key("Normal") /\ (kind = "Print" => at # Nothing)
  /\ outcome' = [kind |-> kind, id |-> IF kind = "Print" THEN Selected ELSE Nothing, mime |-> Nothing]
  /\ UNCHANGED <<entries, version, query, sort, results, at, mode, preview, noticed, missed>>

\* C-o on an entry of several mimes, and C-x.
OpenDialog == \E m \in {"MimeChooser", "ConfirmDelete"} :
  /\ Key("Normal") /\ at # Nothing
  /\ m = "MimeChooser" => Cardinality(results[at].mimes) > 1
  /\ mode' = m
  /\ UNCHANGED <<entries, version, query, sort, results, at, preview, noticed, missed, outcome>>

\* handle_mime_chooser: one of the mimes listed, or back.
ChooseMime ==
  /\ Key("MimeChooser")
  /\ mode' = "Normal"
  /\ \/ \E mime \in results[at].mimes : DoCopy(mime)
     \/ UNCHANGED outcome
  /\ UNCHANGED <<entries, version, query, sort, results, at, preview, noticed, missed>>

\* handle_confirm: y deletes, whatever is under the id now; anything else does not.
Confirm ==
  /\ Key("ConfirmDelete")
  /\ mode' = "Normal"
  /\ \/ /\ Selected \in DOMAIN entries
        /\ version < MaxCommits /\ version' = version + 1
        /\ entries' = [id \in DOMAIN entries \ {Selected} |-> entries[id]]
        /\ Refresh(query, sort, FALSE)
     \/ UNCHANGED <<entries, version, query, sort, results, at>>
  /\ UNCHANGED <<noticed, missed, outcome>>
  /\ EnsurePreview

Next == \/ ReadVersion \/ Commit \/ Idle \/ EditQuery \/ CycleSort \/ Move \/ Copy \/ Leave
        \/ OpenDialog \/ ChooseMime \/ Confirm

Spec == Init /\ [][Next]_vars

-----------------------------------------------------------------------------
(***************************************************************************)
(* A list that is out of date is going to be refreshed: the version it was *)
(* made at is not the current one, whatever was typed, moved or confirmed  *)
(* since.  A commit between the picker's first search and its first look   *)
(* at the version is the exception, until the next commit.                 *)
(***************************************************************************)
StaleIsNoticed ==
  (noticed # Nothing /\ ~missed /\ version = noticed) => results = Listed(entries, query, sort)
=============================================================================
