----------------------------- MODULE MuninPicker -----------------------------
(***************************************************************************)
(* munin's picker (munin/src/tui.rs) and the search behind it (list and    *)
(* search in munin/src/storage.rs), while shells go on adding commands.    *)
(* The id of an entry is its place in history.                             *)
(***************************************************************************)
EXTENDS Naturals, Sequences, FiniteSets, SequencesExt, FiniteSetsExt, Ordering

CONSTANTS
  Commands,
  Queries, Everything,  \* what is typed; Everything is blank
  Score,       \* the fuzzy score of a command for a query, 0 if it does not match
  Limit,       \* Config.limit
  PoolLimit,   \* MAX_LIMIT
  Bottom,      \* Config.layout
  MaxHistory,  \* bound on the entries
  Nothing

VARIABLES
  history,  \* the entries: the command, and whether the filters let it pass
  query, sort,
  results,  \* ids, top to bottom
  at,       \* list_state: index into results, Nothing if it is empty
  seen,     \* history: the number of entries when the results were made
  outcome

vars == <<history, query, sort, results, at, seen, outcome>>

FirstN(s, n) == SubSeq(s, 1, Min({n, Len(s)}))

\* list: newest first
ListNewest(limit) ==
  FirstN(InOrder({i \in DOMAIN history : history[i].passes}, >), Min({limit, PoolLimit}))

\* The first of each command.
Deduped(ids) ==
  LET first == InOrder({i \in DOMAIN ids : \A j \in 1..i - 1 : history[ids[j]].cmd # history[ids[i]].cmd}, <)
  IN [i \in DOMAIN first |-> ids[first[i]]]

Ranked(q, by) ==
  LET pool == ListNewest(PoolLimit)
      score(id) == Score[q][history[id].cmd]
  IN InOrder({id \in ToSet(pool) : score(id) > 0}, LAMBDA a, b :
       \/ by = "Relevance" /\ score(a) > score(b)
       \/ (by = "Recent" \/ score(a) = score(b)) /\ a > b)

\* mutant: the duplicates eat the budget
Search_LimitFirst(q, by) ==
  IF q = Everything THEN ListNewest(Limit) ELSE Deduped(FirstN(Ranked(q, by), Min({Limit, PoolLimit})))

Search(q, by) ==
  IF q = Everything THEN ListNewest(Limit) ELSE FirstN(Deduped(Ranked(q, by)), Min({Limit, PoolLimit}))

\* refresh_results
Refresh(q, by) ==
  /\ query' = q /\ sort' = by
  /\ results' = IF Bottom THEN Reverse(Search(q, by)) ELSE Search(q, by)
  /\ at' = IF results' = <<>> THEN Nothing ELSE IF Bottom THEN Len(results') ELSE 1
  /\ seen' = Len(history)

\* Opened by run_loop on an empty database.
Init ==
  /\ history = <<>> /\ query = Everything /\ sort = "Relevance"
  /\ results = <<>> /\ at = Nothing /\ seen = 0
  /\ outcome = Nothing

\* A shell records a command.
Record == \E cmd \in Commands, passes \in BOOLEAN :
  /\ Len(history) < MaxHistory
  /\ history' = Append(history, [cmd |-> cmd, passes |-> passes])
  /\ UNCHANGED <<query, sort, results, at, seen, outcome>>

\* A key edits the query; a key that changes nothing does not search again.
EditQuery == \E q \in Queries :
  /\ outcome = Nothing /\ Refresh(q, sort) /\ UNCHANGED <<history, outcome>>

\* C-r
CycleSort ==
  /\ outcome = Nothing
  /\ Refresh(query, IF sort = "Relevance" THEN "Recent" ELSE "Relevance")
  /\ UNCHANGED <<history, outcome>>

\* move_selection
Move == \E delta \in {0, 2} :
  /\ outcome = Nothing /\ results # <<>>
  /\ at' = Min({Len(results), Max({1, at + delta - 1})})
  /\ UNCHANGED <<history, query, sort, results, seen, outcome>>

\* Enter, Tab; or Esc, C-c, C-g, and C-d on an empty query.
Leave == \E how \in {"Run", "Edit", "Cancel"} :
  /\ outcome = Nothing
  /\ outcome' = IF how = "Cancel" \/ at = Nothing THEN [kind |-> "Cancel", cmd |-> Nothing]
                ELSE [kind |-> how, cmd |-> history[results[at]].cmd]
  /\ UNCHANGED <<history, query, sort, results, at, seen>>

Next == Record \/ EditQuery \/ CycleSort \/ Move \/ Leave

Spec == Init /\ [][Next]_vars

-----------------------------------------------------------------------------
(***************************************************************************)
(* A query lists each matching command once, as its newest run, and the    *)
(* runs it stands for do not eat the budget: a command of the pool is left *)
(* out only if the list is full of commands that go before it.             *)
(***************************************************************************)
NewestOfEach == query # Everything =>
  LET listed == ToSet(results)
      matching == {i \in 1..seen : history[i].passes /\ Score[query][history[i].cmd] > 0}
      pool == {i \in matching :
                 Cardinality({j \in i + 1..seen : history[j].passes}) < PoolLimit}
      before(a, b) == \/ sort = "Relevance" /\ Score[query][history[a].cmd] > Score[query][history[b].cmd]
                      \/ (sort = "Recent" \/ Score[query][history[a].cmd] = Score[query][history[b].cmd]) /\ a > b
  IN /\ listed \subseteq pool
     /\ \A i \in listed : \A j \in matching : history[j].cmd = history[i].cmd => j <= i
     /\ \A j \in pool : \/ \E i \in listed : history[i].cmd = history[j].cmd
                        \/ Cardinality(listed) = Limit /\ \A i \in listed : before(i, j)
=============================================================================
