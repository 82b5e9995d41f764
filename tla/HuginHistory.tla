---------------------------- MODULE HuginHistory ----------------------------
(***************************************************************************)
(* What hugin's store promises: the captures it keeps, oldest first.  A    *)
(* capture is recorded at the end unless it repeats the last one of its    *)
(* selection; captures are forgotten, never reordered or altered.          *)
(***************************************************************************)
EXTENDS Naturals, Sequences, FiniteSets

CONSTANT Initially  \* what an earlier daemon left

VARIABLE history  \* a sequence of [selection, hash, omitted, capture]

LastOf(sel) ==
  {history[i] : i \in {i \in 1..Len(history) : /\ history[i].selection = sel
                         /\ \A j \in (i + 1)..Len(history) : history[j].selection # sel}}

Record ==
  /\ Len(history') = Len(history) + 1
  /\ SubSeq(history', 1, Len(history)) = history
  /\ LET c == history'[Len(history')] IN
       c.omitted \/ \A last \in LastOf(c.selection) : last.hash # c.hash

\* What is left is a subsequence.
Forget ==
  /\ Len(history') < Len(history)
  /\ \E f \in [1..Len(history') -> 1..Len(history)] :
       /\ \A i, j \in 1..Len(history') : i < j => f[i] < f[j]
       /\ \A i \in 1..Len(history') : history'[i] = history[f[i]]

Init == history = Initially

Next == Record \/ Forget

Spec == Init /\ [][Next]_history
=============================================================================
