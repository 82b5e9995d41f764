----------------------------- MODULE HuginDaemon -----------------------------
(***************************************************************************)
(* hugind: the wayland thread of HuginClipboard, the storage thread and    *)
(* its database (hugin/src/storage.rs), and the requests of the picker and *)
(* the command line, each a task of its own with its own connection        *)
(* (hugin/src/ipc.rs).                                                     *)
(*                                                                         *)
(* A row of entries is known by its id and by the number of the capture    *)
(* it was made from.  The wall clock may be set, so the sweep may find any *)
(* row too old.                                                            *)
(***************************************************************************)
EXTENDS HuginClipboard, FiniteSetsExt

CONSTANTS
  Stored,      \* the captures an earlier hugind left in the database
  MaxEntries,  \* RetentionConfig.max_entries
  Chosen,      \* the mimes users restrict copies to, None for a whole entry
  MaxRemovals  \* bound on the deletions that users ask for and the sweeps that are due

ASSUME DaemonAssumption ==
  /\ Len(Stored) \in Nat
  /\ MaxEntries \in Nat /\ MaxRemovals \in Nat

VARIABLES
  entries,     \* the entries table: id to selection, hash, omitted, capture
  mime_parts,  \* the mime_parts table
  captured,    \* captures taken off the channel
  storage,     \* what the storage thread does: "sweep", "take" or "ended"
  tasks,       \* the copy requests
  removals,    \* deletions and sweeps so far
  exited       \* main has returned

storeVars == <<entries, mime_parts, captured, storage, tasks, removals, exited>>
vars == <<clipboardVars, storeVars>>

Ids == DOMAIN entries
PartsOf(id) == {p \in mime_parts : p.entry_id = id}
Tasks == 1..Len(tasks)

\* canonical_hash: over the parts in the order of their mimes.
CanonicalHash(parts) == {[mime |-> p.mime, blob |-> p.blob] : p \in ToSet(parts)}

\* The rows of capture c, the n-th.
EntryRow(c, n) ==
  [selection |-> c.selection, hash |-> CanonicalHash(c.parts),
   omitted |-> \E p \in ToSet(c.parts) : p.store = "Omitted", capture |-> n]
PartRows(id, c, n) ==
  {[entry_id |-> id, mime |-> p.mime, blob |-> p.blob, store |-> p.store, capture |-> n] : p \in ToSet(c.parts)}

Init ==
  /\ ClipboardInit
  /\ entries = [id \in 1..Len(Stored) |-> EntryRow(Stored[id], id)]
  /\ mime_parts = UNION {PartRows(id, Stored[id], id) : id \in 1..Len(Stored)}
  /\ captured = Len(Stored) /\ storage = "sweep"
  /\ tasks = <<>> /\ removals = 0
  /\ exited = FALSE

-----------------------------------------------------------------------------
(* The storage thread.                                                     *)

\* mutant: the smallest free id
NextId_Gap == Min(1..(Cardinality(Ids) + 1) \ Ids)

\* An INTEGER PRIMARY KEY takes the largest id plus one.
NextId == IF Ids = {} THEN 1 ELSE Max(Ids) + 1

\* The dedup query: does the newest entry of the selection have this hash?
RepeatsNewest(sel, hash) ==
  LET same == {id \in Ids : entries[id].selection = sel}
  IN same # {} /\ entries[Max(same)].hash = hash

\* Store::insert: a repeat is dropped, a mime listed twice or an error of the
\* database rolls the transaction back.
Insert ==
  /\ storage = "take" /\ captures # <<>>
  /\ captures' = Tail(captures)
  /\ captured' = captured + 1
  /\ storage' \in {"take", "sweep"}
  /\ storage' = "sweep" => removals < MaxRemovals
  /\ LET c == Head(captures)
         row == EntryRow(c, captured')
     IN \/ /\ row.omitted \/ ~RepeatsNewest(c.selection, row.hash)
           /\ IsInjective([i \in DOMAIN c.parts |-> c.parts[i].mime])
           /\ \A p \in PartsOf(NextId) : p.mime \notin {q.mime : q \in ToSet(c.parts)}
           /\ entries' = [id \in Ids \cup {NextId} |-> IF id = NextId THEN row ELSE entries[id]]
           /\ mime_parts' = mime_parts \cup PartRows(NextId, c, captured')
        \/ UNCHANGED <<entries, mime_parts>>
  /\ UNCHANGED <<offers, current, requests, events, copies, sources, reading, cmds, echoes,
                 shutdown, tasks, removals, exited>>

\* mutant: foreign keys are off
DeleteRows_NoCascade(gone) ==
  /\ entries' = [id \in Ids \ gone |-> entries[id]]
  /\ mime_parts' = mime_parts

\* DELETE FROM entries, with foreign keys on: the parts go with their entry.
DeleteRows(gone) ==
  /\ entries' = [id \in Ids \ gone |-> entries[id]]
  /\ mime_parts' = {p \in mime_parts : p.entry_id \notin gone}

\* maybe_retain, when it is due: first by age, then by count; each may fail.
Retain ==
  /\ storage = "sweep"
  /\ storage' = "take"
  /\ removals' = removals + 1
  /\ \/ UNCHANGED <<entries, mime_parts>>
     \/ \E old \in SUBSET Ids :
          LET young == Ids \ old
          IN \/ DeleteRows(old)
             \/ DeleteRows(old \cup {id \in young : Cardinality({j \in young : j > id}) >= MaxEntries})
  /\ UNCHANGED <<clipboardVars, captured, tasks, exited>>

\* The channel is closed and empty.
StorageEnds ==
  /\ storage = "take" /\ shutdown /\ captures = <<>>
  /\ storage' = "ended"
  /\ UNCHANGED <<clipboardVars, entries, mime_parts, captured, tasks, removals, exited>>

-----------------------------------------------------------------------------
(* Requests.  A copy looks for the entry, reads its parts in a query of    *)
(* its own, and waits for the wayland thread.                              *)

\* A user asks for an entry of the list; by the time the request is served,
\* the list may be out of date.
AskCopy(id, sel, mime) ==
  /\ ~shutdown /\ Len(tasks) < MaxCopies
  /\ tasks' = Append(tasks, [id |-> id, selection |-> sel, mime |-> mime, capture |-> entries[id].capture,
                             state |-> "asked"])
  /\ UNCHANGED <<clipboardVars, entries, mime_parts, captured, storage, removals, exited>>

\* load_parts, first query: "no entry with id"
FindEntry(t) ==
  /\ ~shutdown /\ tasks[t].state = "asked"
  /\ tasks' = [tasks EXCEPT ![t].state = IF tasks[t].id \in Ids THEN "found" ELSE "failed"]
  /\ UNCHANGED <<clipboardVars, entries, mime_parts, captured, storage, removals, exited>>

\* mutant: the oldest entry's parts
SendCopy_Oldest(t) ==
  /\ ~shutdown /\ tasks[t].state = "found" /\ Ids # {}
  /\ tasks' = [tasks EXCEPT ![t].state = "sent"]
  /\ cmds' = Append(cmds, [task |-> t, selection |-> tasks[t].selection, parts |-> PartsOf(Min(Ids))])
  /\ UNCHANGED <<offers, current, requests, events, copies, sources, reading, captures, echoes,
                 shutdown, entries, mime_parts, captured, storage, removals, exited>>

\* load_parts, second query; the parts that can be copied go to the wayland thread.
SendCopy(t) ==
  /\ ~shutdown /\ tasks[t].state = "found"
  /\ LET parts == {p \in PartsOf(tasks[t].id) : /\ p.store # "Omitted"
                                                /\ tasks[t].mime \in {None, p.mime}}
     IN IF parts = {}
        THEN /\ tasks' = [tasks EXCEPT ![t].state = "failed"]
             /\ UNCHANGED cmds
        ELSE /\ tasks' = [tasks EXCEPT ![t].state = "sent"]
             /\ cmds' = Append(cmds, [task |-> t, selection |-> tasks[t].selection, parts |-> parts])
  /\ UNCHANGED <<offers, current, requests, events, copies, sources, reading, captures, echoes,
                 shutdown, entries, mime_parts, captured, storage, removals, exited>>

\* storage::delete
Delete(id) ==
  /\ ~exited /\ removals < MaxRemovals
  /\ removals' = removals + 1
  /\ DeleteRows({id})
  /\ UNCHANGED <<clipboardVars, captured, storage, tasks, exited>>

\* main joins the storage thread.
Exit ==
  /\ storage = "ended" /\ ~exited
  /\ exited' = TRUE
  /\ UNCHANGED <<clipboardVars, entries, mime_parts, captured, storage, tasks, removals>>

-----------------------------------------------------------------------------
Storage == Insert \/ Retain \/ StorageEnds

Requests ==
  \/ \E id \in Ids :
       \/ Delete(id)
       \/ \E sel \in Selections, mime \in Chosen : AskCopy(id, sel, mime)
  \/ \E t \in Tasks : FindEntry(t) \/ SendCopy(t)

Next ==
  \/ ~shutdown /\ (Compositor \/ Wayland \/ EndLoop) /\ UNCHANGED storeVars
  \/ Storage \/ Requests \/ Exit

Spec == Init /\ [][Next]_vars

-----------------------------------------------------------------------------
IsSeq(q) == q \in Seq(Range(q))

TypeOK ==
  /\ IsSeq(offers) /\ IsSeq(requests) /\ IsSeq(events) /\ IsSeq(copies) /\ IsSeq(cmds)
  /\ IsSeq(captures) /\ IsSeq(tasks)
  /\ \A o \in Os : offers[o].selection \in Selections /\ offers[o].source \in Sources \cup {None}
  /\ DOMAIN current = Selections /\ \A sel \in Selections : current[sel] \in Os \cup {None}
  /\ sources \subseteq Sources
  /\ \A i \in 1..Len(requests) : requests[i] \in Sources
  /\ \A i \in 1..Len(events) :
       IF events[i].kind = "cancelled" THEN events[i].source \in Sources
       ELSE /\ events[i].kind = "selection"
            /\ events[i].selection \in Selections /\ events[i].offer \in Os \cup {None}
  /\ \A s \in Sources : copies[s].selection \in Selections /\ copies[s].task \in Tasks
  /\ \A i \in 1..Len(cmds) : cmds[i].selection \in Selections /\ cmds[i].task \in Tasks
  /\ echoes \subseteq Os
  /\ captured \in Nat
  /\ \A id \in Ids : id \in 1..captured /\ entries[id].capture \in 1..captured
  /\ storage \in {"sweep", "take", "ended"}
  /\ \A t \in Tasks : /\ tasks[t].selection \in Selections /\ tasks[t].capture \in 1..captured
                      /\ tasks[t].state \in {"asked", "found", "sent", "failed"}
  /\ removals \in 0..MaxRemovals + 1 /\ {shutdown, exited} \subseteq BOOLEAN
  /\ exited => captures = <<>>

\* The store, oldest id first, is a history: ids are reused, order is not.
History == INSTANCE HuginHistory WITH
  Initially <- [i \in 1..Len(Stored) |-> EntryRow(Stored[i], i)],
  history <- [i \in 1..Cardinality(Ids) |->
                entries[CHOOSE id \in Ids : Cardinality({j \in Ids : j <= id}) = i]]
HistoryIsKept == History!Spec

(***************************************************************************)
(* An entry's parts are the ones captured with it, and no part outlives    *)
(* its entry, though ids are reused and three connections write.           *)
(***************************************************************************)
PartsBelong == \A p \in mime_parts : p.entry_id \in Ids /\ p.capture = entries[p.entry_id].capture

(***************************************************************************)
(* A copy sets the entry its user saw under the id, whole captures only.   *)
(* When that entry was removed in the meantime, an entry captured later    *)
(* may have its id, and is copied in its place: never an older one.        *)
(***************************************************************************)
CopyIsSeen == \A s \in Sources :
  LET t == tasks[copies[s].task] IN
  /\ \A p, q \in copies[s].parts : p.capture = q.capture
  /\ \A p \in copies[s].parts : p.capture >= t.capture
=============================================================================
