-------------------------- MODULE LevelupToolsProofs --------------------------
(***************************************************************************)
(* Theorems about the tools: for any processes, devices, entries, shells   *)
(* and queries, whatever the limits.                                       *)
(***************************************************************************)
EXTENDS LevelupTools, Integers, Functions, SequenceTheorems, FiniteSetTheorems,
        WellFoundedInduction, TLAPS

-----------------------------------------------------------------------------
(***************************************************************************)
(* A step of the tools is a step of the one that was chosen, or leaves its *)
(* variables as they are.                                                  *)
(***************************************************************************)
LEMMA ChosenSteps ==
  ASSUME [ToolsNext]_run
  PROVE  /\ tool' = tool
         /\ tool = "valkyrie" => [V!Next]_(V!vars)
         /\ tool = "gorm" => [G!Next]_(G!vars)
         /\ tool = "munin" => [P!Next]_(P!vars)
         /\ tool = "hugin" => [H!Next]_(H!vars)
         /\ tool = "sleipnir" => [S!Next]_(S!vars)
         /\ tool = "bragi" => [B!Next]_(B!vars)
         /\ tool = "heimdall" => [D!Next]_(D!vars)
<1>1. CASE ToolsNext
  BY <1>1 DEF ToolsNext
<1>2. CASE UNCHANGED run
  <2>1. tool' = tool /\ UNCHANGED <<picker, hold, v1, v2, v3, v4, v5, v6, v7, v8, v9, v10, v11, v12, v13>>
    BY <1>2 DEF run, others
  <2>2. UNCHANGED V!vars
    BY <2>1 DEF picker, hold, V!vars, V!listVars, V!killVars
  <2>3. UNCHANGED G!vars
    BY <2>1 DEF picker, hold, G!vars, G!list, G!hold
  <2>4. UNCHANGED H!vars
    BY <2>1 DEF picker, hold, H!vars
  <2>5. UNCHANGED S!vars
    BY <2>1 DEF picker, hold, S!vars, S!store, S!world, S!picker
  <2>6. UNCHANGED P!vars
    BY <2>1 DEF picker, hold, P!vars
  <2>7. UNCHANGED D!vars
    BY <2>1 DEF picker, hold, D!vars, D!network, D!view
  <2>8. UNCHANGED B!vars
    BY <2>1 DEF B!vars, B!pipewire, B!wire, B!mirror
  <2>9. QED BY <2>1, <2>2, <2>3, <2>4, <2>5, <2>6, <2>7, <2>8
<1>3. QED BY <1>1, <1>2

-----------------------------------------------------------------------------
(* Numbers.                                                                *)

\* Numbers have a least one,
LEMMA Least ==
  ASSUME NEW T, T \subseteq Nat, T # {}
  PROVE  \E m \in T : \A j \in T : m <= j
<1> DEFINE R == {ss \in Nat \X Nat : ss[1] < ss[2]}
<1>1. IsWellFoundedOn(R, Nat)
  BY NatLessThanWellFounded DEF OpToRel
<1>2. PICK x \in T : \A y \in T : ~(<<y, x>> \in R)
  <2> HIDE DEF R
  <2> QED BY <1>1, WFMin
<1>3. ASSUME NEW y \in T PROVE x <= y
  <2>1. x \in Nat /\ y \in Nat /\ <<y, x>> \notin R
    BY <1>2
  <2>2. <<y, x>>[1] = y /\ <<y, x>>[2] = x
    OBVIOUS
  <2>3. ~(y < x)
    BY <2>1, <2>2
  <2> HIDE DEF R
  <2>4. QED BY <2>1, <2>3
<1>4. QED BY <1>3

\* which Min finds.
LEMMA MinIsOne ==
  ASSUME NEW T, T \subseteq Nat, T # {}
  PROVE  Min(T) \in T
<1>1. \E m \in T : \A j \in T : m <= j
  BY Least
<1>2. QED BY <1>1 DEF Min

-----------------------------------------------------------------------------
\* Of two numbers Min and Max find the one that is meant.
LEMMA MinMaxOfTwo ==
  ASSUME NEW i \in Int, NEW j \in Int
  PROVE  /\ Min({i, j}) = IF i <= j THEN i ELSE j
         /\ Max({i, j}) = IF i <= j THEN j ELSE i
<1>1. ASSUME i <= j PROVE Min({i, j}) = i /\ Max({i, j}) = j
  BY <1>1 DEF Min, Max
<1>2. ASSUME ~(i <= j) PROVE Min({i, j}) = j /\ Max({i, j}) = i
  BY <1>2 DEF Min, Max
<1>3. QED BY <1>1, <1>2

\* A selection that moves by one stays on its list.
LEMMA Clamped ==
  ASSUME NEW n \in Nat, NEW i \in 1..n, NEW delta \in {0, 2}
  PROVE  Min({n, Max({1, i + delta - 1})}) \in 1..n
<1>1. PICK to \in Int : to = i + delta - 1
  OBVIOUS
<1>2. Max({1, to}) = IF 1 <= to THEN to ELSE 1
  BY MinMaxOfTwo
<1>3. PICK m \in Int : m = Max({1, to}) /\ 1 <= m
  BY <1>2
<1>4. Min({n, m}) = IF n <= m THEN n ELSE m
  BY MinMaxOfTwo
<1>5. Min({n, m}) \in 1..n
  BY <1>3, <1>4
<1>6. QED BY <1>1, <1>3, <1>5

-----------------------------------------------------------------------------
(* valkyrie's own variables, as far as the proofs name them. *)
view == v1
rows == v3
chooser == v4

USE DEF view, rows, chooser

(***************************************************************************)
(* valkyrie: the latch. Once a kill was sent the key is up again, or the   *)
(* latch is set and nothing is armed; only a press after the key was up    *)
(* starts over.                                                            *)
(***************************************************************************)
KillLatch ==
  /\ fired \in {0, 1} /\ consumed \in BOOLEAN
  /\ fired = 1 => armed = "no" /\ (consumed \/ key = "up")

\* An armed hold is for what is selected, unless that was off the list since.
KillAim == armed # "no" =>
  /\ aim = [pid |-> aim.pid, lost |-> aim.lost] /\ aim.lost \in BOOLEAN
  /\ aim.lost \/ V!Selected = aim.pid

KillInv == KillLatch /\ KillAim /\ V!KillsAimed

\* The rows are numbered.
LEMMA RowsNumbered ==
  ASSUME NEW t, NEW v
  PROVE  DOMAIN V!Rows(t, v) \subseteq Nat
<1> DEFINE ranked == V!Rank(t, v)
           all == IF V!ActiveTree(v) THEN V!Build(t, v)
                  ELSE [i \in DOMAIN ranked |-> V!Row(t, ranked[i], 0, 0, FALSE)]
           n == IF Len(all) < ProcessLimit THEN Len(all) ELSE ProcessLimit
           top == SubSeq(all, 1, n)
<1>1. V!Rows(t, v) = IF Bottom /\ ~V!ActiveTree(v) THEN Reverse(top) ELSE top
  BY DEF V!Rows, V!Reverse, Reverse
<1> HIDE DEF ranked, all, n
<1>2. DOMAIN top \subseteq Nat
  OBVIOUS
<1>3. DOMAIN Reverse(top) \subseteq Nat
  <2> HIDE DEF top
  <2> QED BY DEF Reverse
<1> HIDE DEF top
<1>4. QED BY <1>1, <1>2, <1>3

\* Whatever the list becomes, the selection stays on its process, if that is listed.
LEMMA SelectionStays ==
  ASSUME NEW t, NEW v, V!Refresh(t, v), Nothing \notin Nat,
         V!IndexOf(rows', V!Selected) # {}
  PROVE  V!Selected' = V!Selected
<1> DEFINE p == V!Selected
           found == V!IndexOf(rows', p)
<1>1. found \subseteq Nat
  BY RowsNumbered DEF V!Refresh, V!IndexOf
<1>2. Min(found) \in found
  <2> HIDE DEF found
  <2> QED BY <1>1, MinIsOne DEF found
<1>3. at' = Min(found)
  BY DEF V!Refresh, V!Follow, V!Min, Min
<1>4. at' # Nothing /\ rows'[at'].pid = p
  BY <1>1, <1>2, <1>3 DEF V!IndexOf
<1>5. QED BY <1>4 DEF V!Selected

\* A scan that takes the process off the list is noted,
LEMMA ScanIsWatched ==
  ASSUME KillAim, Nothing \notin Nat, NEW t, NEW v, V!Refresh(t, v), V!Watch, armed' = armed
  PROVE  KillAim'
<1>1. SUFFICES ASSUME armed # "no"
               PROVE  /\ aim' = [pid |-> aim'.pid, lost |-> aim'.lost] /\ aim'.lost \in BOOLEAN
                      /\ aim'.lost \/ V!Selected' = aim'.pid
  BY DEF KillAim
<1> DEFINE gone == V!IndexOf(rows', aim.pid) = {}
<1>2. /\ aim = [pid |-> aim.pid, lost |-> aim.lost] /\ aim.lost \in BOOLEAN
      /\ aim.lost \/ V!Selected = aim.pid
  BY <1>1 DEF KillAim
<1>3. aim' = [aim EXCEPT !.lost = aim.lost \/ gone]
  BY <1>1 DEF V!Watch
<1> HIDE DEF gone
<1>4. aim' = [pid |-> aim.pid, lost |-> aim.lost \/ gone]
  BY <1>2, <1>3
<1>5. aim'.pid = aim.pid /\ aim'.lost = (aim.lost \/ gone)
  BY <1>4
<1>6. aim'.lost \in BOOLEAN
  BY <1>5
<1>7. ASSUME ~aim'.lost PROVE V!Selected' = aim'.pid
  <2>1. ~aim.lost /\ V!IndexOf(rows', aim.pid) # {}
    BY <1>5, <1>7 DEF gone
  <2>2. V!Selected = aim.pid
    BY <1>2, <2>1
  <2>3. V!Selected' = V!Selected
    BY <2>1, <2>2, SelectionStays
  <2>4. QED BY <1>5, <2>2, <2>3
<1>8. QED BY <1>4, <1>5, <1>6, <1>7

\* and after a key of the user's own the hold is for what that key selected.
LEMMA KeyIsAimed ==
  ASSUME V!Aim, armed' = armed
  PROVE  KillAim'
<1>1. SUFFICES ASSUME armed # "no"
               PROVE  /\ aim' = [pid |-> aim'.pid, lost |-> aim'.lost] /\ aim'.lost \in BOOLEAN
                      /\ aim'.lost \/ V!Selected' = aim'.pid
  BY DEF KillAim
<1>2. aim' = [pid |-> V!Selected', lost |-> FALSE]
  BY <1>1 DEF V!Aim, V!Selected
<1>3. QED BY <1>2

\* What leaves the selection and the hold alone keeps the aim.
LEMMA AimKept ==
  ASSUME KillAim, armed' = armed, aim' = aim, at' = at, rows' = rows
  PROVE  KillAim'
<1>1. V!Selected' = V!Selected
  BY DEF V!Selected
<1>2. QED BY <1>1 DEF KillAim

\* Keys other than Alt-K do not touch the latch.
LEMMA LatchKept ==
  ASSUME KillLatch, V!OtherKey
  PROVE  KillLatch'
BY DEF KillLatch, V!OtherKey

\* A step that sends nothing aims at nothing.
LEMMA NothingSent ==
  ASSUME sent' = Nothing
  PROVE  V!KillsAimed'
BY DEF V!KillsAimed

\* A signal that no hold sent is not a kill's.
LEMMA PlainSignal ==
  ASSUME NEW p, sent' = [pid |-> p, aim |-> Nothing]
  PROVE  V!KillsAimed'
<1>1. sent'.aim = Nothing
  OBVIOUS
<1>2. QED BY <1>1 DEF V!KillsAimed

\* The latch and the aim hold when valkyrie opens,
LEMMA KillInit ==
  ASSUME V!Init
  PROVE  KillInv
<1>1. armed = "no" /\ consumed = FALSE /\ fired = 0 /\ sent = Nothing
  BY DEF V!Init
<1>2. KillLatch
  <2>1. consumed \in BOOLEAN
    BY <1>1, Zenon
  <2>2. fired \in {0, 1} /\ fired # 1
    BY <1>1
  <2>3. QED BY <2>1, <2>2 DEF KillLatch
<1>3. KillAim
  BY <1>1 DEF KillAim
<1>4. QED BY <1>1, <1>2, <1>3 DEF KillInv, V!KillsAimed

\* and every step keeps them.
LEMMA KillStep ==
  ASSUME KillInv, Nothing \notin Nat, [V!Next]_(V!vars)
  PROVE  KillInv'
<1>1. KillLatch /\ KillAim /\ V!KillsAimed
  BY DEF KillInv
<1>2. ASSUME V!Tick PROVE KillInv'
  <2>1. UNCHANGED <<armed, consumed, key, fired>> /\ sent' = Nothing /\ V!Watch
    BY <1>2 DEF V!Tick, V!killVars
  <2>2. PICK table \in Tables : V!Refresh(V!Restrict(table,
            {p \in DOMAIN table : view.mine => table[p].mine}), view)
    BY <1>2 DEF V!Tick, V!Rescan
  <2>3. KillAim'
    BY <1>1, <2>1, <2>2, ScanIsWatched
  <2>4. KillLatch'
    BY <1>1, <2>1 DEF KillLatch
  <2>5. QED BY <2>1, <2>3, <2>4, NothingSent DEF KillInv
<1>3. ASSUME V!EditQuery \/ V!CycleSort \/ V!ToggleTree \/ V!ToggleScope
             \/ V!Fold("collapsed", "expanded") \/ V!Fold("expanded", "collapsed")
      PROVE  KillInv'
  <2>1. V!Change
    BY <1>3 DEF V!EditQuery, V!CycleSort, V!ToggleTree, V!ToggleScope, V!Fold
  <2>2. V!OtherKey /\ sent' = Nothing /\ V!Aim
    BY <2>1 DEF V!Change, V!Pressed
  <2>3. armed' = armed
    BY <2>2 DEF V!OtherKey
  <2>4. QED BY <1>1, <2>2, <2>3, LatchKept, KeyIsAimed, NothingSent DEF KillInv
<1>4. ASSUME V!Move PROVE KillInv'
  <2>1. V!OtherKey /\ sent' = Nothing /\ V!Aim
    BY <1>4 DEF V!Move, V!Pressed
  <2>2. armed' = armed
    BY <2>1 DEF V!OtherKey
  <2>3. QED BY <1>1, <2>1, <2>2, LatchKept, KeyIsAimed, NothingSent DEF KillInv
<1>5. ASSUME V!Act PROVE KillInv'
  <2>1. V!OtherKey /\ sent' = Nothing /\ V!Watch
    BY <1>5 DEF V!Act, V!Pressed
  <2>2. armed' = armed
    BY <2>1 DEF V!OtherKey
  <2>3. PICK table \in Tables : V!Refresh(V!Restrict(table,
            {p \in DOMAIN table : view.mine => table[p].mine}), view)
    BY <1>5 DEF V!Act, V!Rescan
  <2>4. KillAim'
    BY <1>1, <2>1, <2>2, <2>3, ScanIsWatched
  <2>5. QED BY <1>1, <2>1, <2>4, LatchKept, NothingSent DEF KillInv
<1>6. ASSUME V!OpenChooser \/ V!UseChooser PROVE KillInv'
  <2>1. V!OtherKey /\ sent' = Nothing /\ UNCHANGED <<V!listVars, aim>>
    BY <1>6 DEF V!OpenChooser, V!UseChooser, V!Pressed
  <2>2. armed' = armed /\ at' = at /\ rows' = rows /\ aim' = aim
    BY <2>1 DEF V!OtherKey, V!listVars
  <2>3. QED BY <1>1, <2>1, <2>2, LatchKept, AimKept, NothingSent DEF KillInv
<1>7. ASSUME V!Choose PROVE KillInv'
  <2>1. V!OtherKey
    BY <1>7 DEF V!Choose
  <2>2. armed' = armed
    BY <2>1 DEF V!OtherKey
  <2>3. CASE chooser.list = <<>>
    <3>1. sent' = Nothing /\ UNCHANGED <<V!listVars, aim>>
      BY <1>7, <2>3 DEF V!Choose
    <3>2. at' = at /\ rows' = rows /\ aim' = aim
      BY <3>1 DEF V!listVars
    <3>3. QED BY <1>1, <2>1, <2>2, <3>1, <3>2, LatchKept, AimKept, NothingSent DEF KillInv
  <2>4. CASE chooser.list # <<>>
    <3>1. sent' = [pid |-> chooser.target, aim |-> Nothing] /\ V!Rescan(view) /\ V!Watch
      BY <1>7, <2>4 DEF V!Choose
    <3>2. PICK table \in Tables : V!Refresh(V!Restrict(table,
              {p \in DOMAIN table : view.mine => table[p].mine}), view)
      BY <3>1 DEF V!Rescan
    <3>3. KillAim'
      BY <1>1, <2>2, <3>1, <3>2, ScanIsWatched
    <3>4. V!KillsAimed'
      BY <3>1, PlainSignal
    <3>5. QED BY <1>1, <2>1, <3>3, <3>4, LatchKept DEF KillInv
  <2>5. QED BY <2>3, <2>4
<1>8. ASSUME V!KeyDown PROVE KillInv'
  <2>1. /\ key' = (IF key = "up" THEN "down" ELSE "repeating")
        /\ fired' = (IF key = "up" THEN 0 ELSE fired)
        /\ sent' = Nothing /\ consumed' = consumed /\ at' = at /\ rows' = rows
    BY <1>8 DEF V!KeyDown, V!listVars
  <2>2. \/ armed' = armed /\ aim' = aim
        \/ /\ ~consumed /\ armed = "no" /\ armed' = "armed"
           /\ aim' = [pid |-> V!Selected, lost |-> FALSE]
        \/ ~consumed /\ armed # "no" /\ armed' = "kept" /\ aim' = aim
    BY <1>8 DEF V!KeyDown
  <2>3. KillLatch'
    BY <1>1, <2>1, <2>2 DEF KillLatch
  <2>4. KillAim'
    <3>1. V!Selected' = V!Selected
      BY <2>1 DEF V!Selected
    <3>2. CASE armed' = "armed" /\ aim' = [pid |-> V!Selected, lost |-> FALSE]
      <4>1. aim'.pid = V!Selected /\ aim'.lost = FALSE
        BY <3>2
      <4>2. QED BY <3>1, <3>2, <4>1 DEF KillAim
    <3>3. CASE aim' = aim /\ (armed' # "no" => armed # "no")
      BY <1>1, <3>1, <3>3 DEF KillAim
    <3>4. QED BY <2>2, <3>2, <3>3
  <2>5. QED BY <2>1, <2>3, <2>4, NothingSent DEF KillInv
<1>9. ASSUME V!KeyUp PROVE KillInv'
  <2>1. key' = "up" /\ sent' = Nothing /\ fired' = fired /\ at' = at /\ rows' = rows
    BY <1>9 DEF V!KeyUp, V!listVars
  <2>2. \/ armed' = "no" /\ consumed' = FALSE
        \/ armed' = armed /\ consumed' = consumed /\ aim' = aim
    BY <1>9 DEF V!KeyUp, V!Disarm
  <2>3. KillLatch'
    BY <1>1, <2>1, <2>2 DEF KillLatch
  <2>4. KillAim'
    <3>1. CASE armed' = "no"
      BY <3>1 DEF KillAim
    <3>2. CASE armed' = armed /\ aim' = aim
      BY <1>1, <2>1, <3>2, AimKept
    <3>3. QED BY <2>2, <3>1, <3>2
  <2>5. QED BY <2>1, <2>3, <2>4, NothingSent DEF KillInv
<1>10. ASSUME V!Gap PROVE KillInv'
  <2>1. armed' = "no" /\ consumed' = FALSE /\ fired' = 0 /\ sent' = Nothing
    BY <1>10 DEF V!Gap, V!Disarm
  <2>2. KillLatch'
    <3>1. consumed' \in BOOLEAN
      BY <2>1, Zenon
    <3>2. fired' \in {0, 1} /\ fired' # 1
      BY <2>1
    <3>3. QED BY <3>1, <3>2 DEF KillLatch
  <2>3. KillAim'
    BY <2>1 DEF KillAim
  <2>4. QED BY <2>1, <2>2, <2>3, NothingSent DEF KillInv
<1>11. ASSUME V!Fire PROVE KillInv'
  <2>1. /\ armed \in {"kept", "armed"} /\ armed' = "no" /\ consumed' = TRUE
        /\ fired' = fired + 1
        /\ sent' = Nothing \/ sent' = [pid |-> V!Selected, aim |-> aim]
    BY <1>11 DEF V!Fire, V!KillSelected
  <2>2. fired = 0
    BY <1>1, <2>1 DEF KillLatch
  <2>3. KillLatch' /\ KillAim'
    BY <2>1, <2>2 DEF KillLatch, KillAim
  <2>4. V!KillsAimed'
    <3>1. CASE sent' = Nothing
      BY <3>1, NothingSent
    <3>2. CASE sent' = [pid |-> V!Selected, aim |-> aim]
      <4>1. sent'.pid = V!Selected /\ sent'.aim = aim
        BY <3>2
      <4>2. aim.lost \/ V!Selected = aim.pid
        BY <1>1, <2>1 DEF KillAim
      <4>3. QED BY <4>1, <4>2 DEF V!KillsAimed
    <3>3. QED BY <2>1, <3>1, <3>2
  <2>5. QED BY <2>3, <2>4 DEF KillInv
<1>12. ASSUME UNCHANGED V!vars PROVE KillInv'
  <2>1. /\ armed' = armed /\ consumed' = consumed /\ key' = key /\ fired' = fired
        /\ aim' = aim /\ sent' = sent /\ at' = at /\ rows' = rows
    BY <1>12 DEF V!vars, V!listVars, V!killVars
  <2>2. KillAim'
    BY <1>1, <2>1, AimKept
  <2>3. KillLatch' /\ V!KillsAimed'
    BY <1>1, <2>1 DEF KillLatch, V!KillsAimed
  <2>4. QED BY <2>2, <2>3 DEF KillInv
<1>13. QED BY <1>2, <1>3, <1>4, <1>5, <1>6, <1>7, <1>8, <1>9, <1>10, <1>11, <1>12 DEF V!Next

\* valkyrie's invariant, for any processes, queries and limits.
THEOREM KillInvariance ==
  ASSUME Nothing \notin Nat
  PROVE  ToolsSpec => [](tool = "valkyrie" => KillInv)
<1>1. ToolsInit => (tool = "valkyrie" => KillInv)
  BY KillInit DEF ToolsInit
<1>2. (tool = "valkyrie" => KillInv) /\ [ToolsNext]_run => (tool = "valkyrie" => KillInv)'
  BY ChosenSteps, KillStep
<1>3. QED BY <1>1, <1>2, PTL DEF ToolsSpec

(***************************************************************************)
(* "holding past the meter can't SIGKILL a second (now-selected) process": *)
(* one kill from the press of Alt-K until it is let go, on every terminal. *)
(***************************************************************************)
THEOREM OneKillPerHoldCorrect ==
  ASSUME Nothing \notin Nat
  PROVE  ToolsSpec => []OneKillPerHold
<1>1. (tool = "valkyrie" => KillInv) => OneKillPerHold
  BY DEF OneKillPerHold, KillInv, KillLatch, V!OneKillPerHold
<1>2. QED BY <1>1, KillInvariance, PTL

(***************************************************************************)
(* A hold kills the process it was pressed for, or one the user moved to   *)
(* since, through any scans, sorts and folds in between, unless that       *)
(* process was off the list meanwhile.                                     *)
(***************************************************************************)
THEOREM KillsAimedCorrect ==
  ASSUME Nothing \notin Nat
  PROVE  ToolsSpec => []KillsAimed
<1>1. (tool = "valkyrie" => KillInv) => KillsAimed
  BY DEF KillsAimed, KillInv
<1>2. QED BY <1>1, KillInvariance, PTL

-----------------------------------------------------------------------------
(* gorm's. *)
shown == v2

USE DEF shown

(***************************************************************************)
(* gorm: the latch is valkyrie's, on Alt-U, and the selection is on the    *)
(* list.                                                                   *)
(***************************************************************************)
Listing ==
  /\ Len(results) \in Nat /\ DOMAIN results = 1..Len(results)
  /\ (results = <<>> /\ at = Nothing) \/ at \in 1..Len(results)

\* An armed hold is for what is selected, unless that was off the list since.
ForgetAim == armed # "no" =>
  /\ aim = [addr |-> aim.addr, lost |-> aim.lost] /\ aim.lost \in BOOLEAN
  /\ aim.lost \/ G!Selected = aim.addr

ForgetInv == KillLatch /\ Listing /\ ForgetAim /\ G!ForgetsAimed

\* Devices in order are numbered from 1.
LEMMA DevicesNumbered ==
  ASSUME NEW snap, IsFiniteSet(DOMAIN snap), NEW q
  PROVE  \E n \in Nat : Len(G!Ranked(snap, q)) = n /\ DOMAIN G!Ranked(snap, q) = 1..n
<1> DEFINE matching == {a \in DOMAIN snap : q = Everything \/ DeviceScore[q][a] > 0}
           n == Cardinality(matching)
<1>1. n \in Nat
  <2>1. matching \subseteq DOMAIN snap
    OBVIOUS
  <2>2. IsFiniteSet(matching)
    BY <2>1, FS_Subset
  <2>3. QED BY <2>2, FS_CardinalityType
<1>2. G!Ranked(snap, q) = [i \in 1..n |-> G!Ranked(snap, q)[i]]
  <2>1. G!Cardinality(matching) = n
    BY Zenon DEF Cardinality, G!Cardinality
  <2> DEFINE before(a, b) == \/ q # Everything /\ DeviceScore[q][a] > DeviceScore[q][b]
                             \/ (q = Everything \/ DeviceScore[q][a] = DeviceScore[q][b]) /\ G!Ahead(snap, a, b)
             nth(i) == CHOOSE a \in matching : G!Cardinality({b \in matching : before(b, a)}) = i - 1
  <2>2. G!Ranked(snap, q) = [i \in 1..G!Cardinality(matching) |-> nth(i)]
    BY Zenon DEF G!Ranked, G!InOrder
  <2> HIDE DEF matching, n, nth
  <2>3. QED BY <2>1, <2>2
<1> HIDE DEF n
<1>3. QED BY <1>1, <1>2

\* The selection stays on its device, if that is still listed.
LEMMA SelectionFollows ==
  ASSUME Listing, NEW n \in Nat, Len(results') = n, DOMAIN results' = 1..n,
         at' = G!Follow(results'), Nothing \notin Nat
  PROVE  /\ Listing'
         /\ Contains(results', G!Selected) => G!Selected' = G!Selected
<1>1. CASE results' = <<>>
  <2>1. at' = Nothing
    BY <1>1 DEF G!Follow
  <2>2. ~Contains(results', G!Selected)
    BY <1>1 DEF Contains
  <2>3. QED BY <1>1, <2>1, <2>2 DEF Listing
<1>2. CASE results' # <<>> /\ Contains(results', G!Selected)
  <2>1. G!Contains(results', G!Selected)
    BY <1>2 DEF Contains, G!Contains
  <2>2. at' = CHOOSE i \in DOMAIN results' : results'[i] = G!Selected
    BY <1>2, <2>1 DEF G!Follow
  <2>3. \E i \in DOMAIN results' : results'[i] = G!Selected
    BY <1>2 DEF Contains
  <2>4. at' \in 1..n /\ results'[at'] = G!Selected
    BY <2>2, <2>3
  <2>5. at' # Nothing
    BY <2>4
  <2>6. G!Selected' = G!Selected
    BY <2>4, <2>5 DEF G!Selected
  <2>7. QED BY <2>4, <2>6 DEF Listing
<1>3. CASE results' # <<>> /\ ~Contains(results', G!Selected)
  <2>1. ~G!Contains(results', G!Selected)
    BY <1>3 DEF Contains, G!Contains
  <2>2. at' = 1
    BY <1>3, <2>1 DEF G!Follow
  <2>3. n # 0
    BY <1>3
  <2>4. QED BY <1>3, <2>2, <2>3 DEF Listing
<1>4. QED BY <1>1, <1>2, <1>3

\* What leaves the list and the hold alone keeps the aim.
LEMMA DeviceAimKept ==
  ASSUME ForgetAim, armed' = armed, aim' = aim, at' = at, results' = results
  PROVE  ForgetAim'
<1>1. G!Selected' = G!Selected
  BY DEF G!Selected
<1>2. QED BY <1>1 DEF ForgetAim

\* What leaves the list alone keeps it so.
LEMMA ListingKept ==
  ASSUME Listing, at' = at, results' = results
  PROVE  Listing'
BY DEF Listing

\* The latch alone bounds what a hold forgets, if nothing is sent.
LEMMA NothingForgotten ==
  ASSUME KillLatch', sent' = Nothing
  PROVE  G!ForgetsAimed'
BY DEF G!ForgetsAimed, KillLatch

\* Keys other than Alt-U do not touch the latch.
LEMMA DeviceLatchKept ==
  ASSUME KillLatch, G!Key
  PROVE  KillLatch' /\ armed' = armed /\ results' = results
BY DEF KillLatch, G!Key

\* All of it holds when gorm opens,
LEMMA ForgetInit ==
  ASSUME G!Init
  PROVE  ForgetInv
<1>1. armed = "no" /\ consumed = FALSE /\ fired = 0 /\ sent = Nothing /\ results = <<>> /\ at = Nothing
  BY DEF G!Init
<1>2. KillLatch
  <2>1. consumed \in BOOLEAN
    BY <1>1, Zenon
  <2>2. fired \in {0, 1} /\ fired # 1
    BY <1>1
  <2>3. QED BY <2>1, <2>2 DEF KillLatch
<1>3. ForgetAim /\ Listing
  BY <1>1 DEF ForgetAim, Listing
<1>4. G!ForgetsAimed
  BY <1>1 DEF G!ForgetsAimed
<1>5. QED BY <1>2, <1>3, <1>4 DEF ForgetInv

\* a frame keeps the aim or notes that the device is off the list,
LEMMA FrameKeeps ==
  ASSUME ForgetInv, Nothing \notin Nat, \A snap \in Snapshots : IsFiniteSet(DOMAIN snap), G!Frame
  PROVE  ForgetInv'
<1>1. KillLatch /\ Listing /\ ForgetAim
  BY DEF ForgetInv
<1>2. PICK snap \in Snapshots :
        /\ results' = G!Ranked(snap, query) /\ at' = G!Follow(results')
        /\ aim' = IF armed = "no" THEN Nothing
                  ELSE IF shown # query
                  THEN [addr |-> IF at' = Nothing THEN Nothing ELSE results'[at'], lost |-> FALSE]
                  ELSE [aim EXCEPT !.lost = @ \/ ~G!Contains(results', aim.addr)]
        /\ sent' = Nothing
        /\ UNCHANGED G!hold
  BY DEF G!Frame
<1>3. armed' = armed /\ consumed' = consumed /\ key' = key /\ fired' = fired
  BY <1>2 DEF G!hold
<1>4. PICK n \in Nat : Len(results') = n /\ DOMAIN results' = 1..n
  BY <1>2, DevicesNumbered
<1>5. /\ Listing'
      /\ Contains(results', G!Selected) => G!Selected' = G!Selected
  BY <1>1, <1>2, <1>4, SelectionFollows
<1>6. KillLatch'
  BY <1>1, <1>3 DEF KillLatch
<1>7. ForgetAim'
  <2>1. CASE armed = "no"
    BY <1>3, <2>1 DEF ForgetAim
  <2>2. CASE armed # "no" /\ shown # query
    <3>1. aim' = [addr |-> G!Selected', lost |-> FALSE]
      BY <1>2, <2>2 DEF G!Selected
    <3>2. QED BY <3>1 DEF ForgetAim
  <2>3. CASE armed # "no" /\ ~(shown # query)
    <3> DEFINE gone == ~Contains(results', aim.addr)
    <3>1. /\ aim = [addr |-> aim.addr, lost |-> aim.lost] /\ aim.lost \in BOOLEAN
          /\ aim.lost \/ G!Selected = aim.addr
      BY <1>1, <2>3 DEF ForgetAim
    <3>2. aim' = [aim EXCEPT !.lost = aim.lost \/ gone]
      BY <1>2, <2>3 DEF G!Contains, Contains
    <3> HIDE DEF gone
    <3>3. aim' = [addr |-> aim.addr, lost |-> aim.lost \/ gone]
      BY <3>1, <3>2
    <3>4. aim'.addr = aim.addr /\ aim'.lost = (aim.lost \/ gone)
      BY <3>3
    <3>5. aim'.lost \in BOOLEAN
      BY <3>4
    <3>6. ASSUME ~aim'.lost PROVE G!Selected' = aim'.addr
      <4>1. ~aim.lost /\ ~gone
        BY <3>4, <3>6
      <4>2. G!Selected = aim.addr
        BY <3>1, <4>1
      <4>3. G!Selected' = G!Selected
        BY <1>5, <4>1, <4>2 DEF gone
      <4>4. QED BY <3>4, <4>2, <4>3
    <3>7. aim' = [addr |-> aim'.addr, lost |-> aim'.lost]
      BY <3>3, <3>4
    <3>8. QED BY <3>5, <3>6, <3>7 DEF ForgetAim
  <2>4. QED BY <2>1, <2>2, <2>3
<1>8. G!ForgetsAimed'
  BY <1>2, <1>6, NothingForgotten
<1>9. QED BY <1>5, <1>6, <1>7, <1>8 DEF ForgetInv

\* the selection moves on the list,
LEMMA MoveKeeps ==
  ASSUME ForgetInv, Nothing \notin Nat, G!Move
  PROVE  ForgetInv'
<1>1. KillLatch /\ Listing /\ ForgetAim
  BY DEF ForgetInv
<1>2. KillLatch' /\ armed' = armed /\ results' = results
  BY <1>1, DeviceLatchKept DEF G!Move
<1>3. results # <<>> /\ sent' = Nothing
      /\ aim' = IF armed = "no" THEN Nothing ELSE [addr |-> results[at'], lost |-> FALSE]
  BY DEF G!Move
<1>4. PICK delta \in {0, 2} : at' = Min({Len(results), Max({1, at + delta - 1})})
  BY DEF G!Move, G!Min, G!Max, Min, Max
<1>5. at \in 1..Len(results) /\ Len(results) \in Nat
  BY <1>1, <1>3 DEF Listing
<1>7. at' \in 1..Len(results)
  BY <1>4, <1>5, Clamped
<1>8. Listing'
  BY <1>1, <1>2, <1>7 DEF Listing
<1>9. G!Selected' = results[at']
  BY <1>2, <1>7 DEF G!Selected
<1>10. ForgetAim'
  <2>1. CASE armed = "no"
    BY <1>2, <2>1 DEF ForgetAim
  <2>2. CASE armed # "no"
    <3>1. aim' = [addr |-> G!Selected', lost |-> FALSE]
      BY <1>3, <1>9, <2>2
    <3>2. QED BY <3>1 DEF ForgetAim
  <2>3. QED BY <2>1, <2>2
<1>11. QED BY <1>2, <1>3, <1>8, <1>10, NothingForgotten DEF ForgetInv

\* and so does every other step.
LEMMA ForgetStep ==
  ASSUME ForgetInv, Nothing \notin Nat, \A snap \in Snapshots : IsFiniteSet(DOMAIN snap),
         [G!Next]_(G!vars)
  PROVE  ForgetInv'
<1>1. KillLatch /\ Listing /\ ForgetAim /\ G!ForgetsAimed
  BY DEF ForgetInv
<1>2. CASE G!Frame
  BY <1>2, FrameKeeps
<1>3. CASE G!Move
  BY <1>3, MoveKeeps
<1>4. ASSUME G!AnswerPrompt \/ G!EditQuery PROVE ForgetInv'
  <2>1. G!Key /\ sent' = Nothing /\ at' = at /\ aim' = aim
    BY <1>4 DEF G!AnswerPrompt, G!EditQuery
  <2>2. KillLatch' /\ armed' = armed /\ results' = results
    BY <1>1, <2>1, DeviceLatchKept
  <2>3. QED BY <1>1, <2>1, <2>2, ListingKept, DeviceAimKept, NothingForgotten DEF ForgetInv
<1>5. ASSUME G!Act PROVE ForgetInv'
  <2>1. G!Key /\ at' = at /\ aim' = aim
    BY <1>5 DEF G!Act
  <2>2. KillLatch' /\ armed' = armed /\ results' = results
    BY <1>1, <2>1, DeviceLatchKept
  <2>3. PICK cmd \in {"Disconnect", "Connect", "Pair", "SetTrusted", "SetBlocked"} :
          sent' = [cmd |-> cmd, addr |-> G!Selected, aim |-> Nothing]
    BY <1>5 DEF G!Act
  <2>4. sent'.cmd # "Unpair"
    BY <2>3
  <2>5. G!ForgetsAimed'
    BY <2>2, <2>4 DEF G!ForgetsAimed, KillLatch
  <2>6. QED BY <1>1, <2>1, <2>2, <2>5, ListingKept, DeviceAimKept DEF ForgetInv
<1>6. ASSUME G!KeyDown PROVE ForgetInv'
  <2>1. /\ key' = (IF key = "up" THEN "down" ELSE "repeating")
        /\ fired' = (IF key = "up" THEN 0 ELSE fired)
        /\ sent' = Nothing /\ consumed' = consumed /\ at' = at /\ results' = results
    BY <1>6 DEF G!KeyDown, G!list
  <2>2. \/ armed' = armed /\ aim' = aim
        \/ /\ ~consumed /\ armed = "no" /\ armed' = "armed"
           /\ aim' = [addr |-> G!Selected, lost |-> FALSE]
        \/ ~consumed /\ armed # "no" /\ armed' = "kept" /\ aim' = aim
    BY <1>6 DEF G!KeyDown
  <2>3. KillLatch'
    BY <1>1, <2>1, <2>2 DEF KillLatch
  <2>4. ForgetAim'
    <3>1. G!Selected' = G!Selected
      BY <2>1 DEF G!Selected
    <3>2. CASE armed' = "armed" /\ aim' = [addr |-> G!Selected, lost |-> FALSE]
      <4>1. aim'.addr = G!Selected /\ aim'.lost = FALSE
        BY <3>2
      <4>2. QED BY <3>1, <3>2, <4>1 DEF ForgetAim
    <3>3. CASE aim' = aim /\ (armed' # "no" => armed # "no")
      BY <1>1, <3>1, <3>3 DEF ForgetAim
    <3>4. QED BY <2>2, <3>2, <3>3
  <2>5. Listing'
    BY <1>1, <2>1, ListingKept
  <2>6. QED BY <2>1, <2>3, <2>4, <2>5, NothingForgotten DEF ForgetInv
<1>7. ASSUME G!KeyUp PROVE ForgetInv'
  <2>1. key' = "up" /\ sent' = Nothing /\ fired' = fired /\ at' = at /\ results' = results
    BY <1>7 DEF G!KeyUp, G!list
  <2>2. \/ armed' = "no" /\ consumed' = FALSE
        \/ armed' = armed /\ consumed' = consumed /\ aim' = aim
    BY <1>7 DEF G!KeyUp, G!Disarm
  <2>3. KillLatch'
    BY <1>1, <2>1, <2>2 DEF KillLatch
  <2>4. ForgetAim'
    <3>1. CASE armed' = "no"
      BY <3>1 DEF ForgetAim
    <3>2. CASE armed' = armed /\ aim' = aim
      BY <1>1, <2>1, <3>2, DeviceAimKept
    <3>3. QED BY <2>2, <3>1, <3>2
  <2>5. Listing'
    BY <1>1, <2>1, ListingKept
  <2>6. QED BY <2>1, <2>3, <2>4, <2>5, NothingForgotten DEF ForgetInv
<1>8. ASSUME G!Gap PROVE ForgetInv'
  <2>1. /\ armed' = "no" /\ consumed' = FALSE /\ fired' = 0 /\ sent' = Nothing
        /\ at' = at /\ results' = results
    BY <1>8 DEF G!Gap, G!Disarm, G!list
  <2>2. KillLatch'
    <3>1. consumed' \in BOOLEAN
      BY <2>1, Zenon
    <3>2. fired' \in {0, 1} /\ fired' # 1
      BY <2>1
    <3>3. QED BY <3>1, <3>2 DEF KillLatch
  <2>3. ForgetAim'
    BY <2>1 DEF ForgetAim
  <2>4. Listing'
    BY <1>1, <2>1, ListingKept
  <2>5. QED BY <2>1, <2>2, <2>3, <2>4, NothingForgotten DEF ForgetInv
<1>9. ASSUME G!Fire PROVE ForgetInv'
  <2>1. /\ armed \in {"kept", "armed"} /\ armed' = "no" /\ consumed' = TRUE
        /\ fired' = fired \/ fired' = fired + 1
        /\ at' = at /\ results' = results
        /\ sent' = Nothing \/ sent' = [cmd |-> "Unpair", addr |-> G!Selected, aim |-> aim]
    BY <1>9 DEF G!Fire, G!list
  <2>2. fired = 0
    BY <1>1, <2>1 DEF KillLatch
  <2>3. KillLatch'
    BY <2>1, <2>2 DEF KillLatch
  <2>4. ForgetAim'
    BY <2>1 DEF ForgetAim
  <2>5. Listing'
    BY <1>1, <2>1, ListingKept
  <2>6. G!ForgetsAimed'
    <3>1. CASE sent' = Nothing
      BY <2>3, <3>1, NothingForgotten
    <3>2. CASE sent' = [cmd |-> "Unpair", addr |-> G!Selected, aim |-> aim]
      <4>1. sent'.addr = G!Selected /\ sent'.aim = aim
        BY <3>2
      <4>2. aim.lost \/ G!Selected = aim.addr
        BY <1>1, <2>1 DEF ForgetAim
      <4>3. fired' <= 1
        BY <2>3 DEF KillLatch
      <4>4. QED BY <4>1, <4>2, <4>3 DEF G!ForgetsAimed
    <3>3. QED BY <2>1, <3>1, <3>2
  <2>7. QED BY <2>3, <2>4, <2>5, <2>6 DEF ForgetInv
<1>10. ASSUME UNCHANGED G!vars PROVE ForgetInv'
  <2>1. /\ armed' = armed /\ consumed' = consumed /\ key' = key /\ fired' = fired
        /\ aim' = aim /\ sent' = sent /\ at' = at /\ results' = results
    BY <1>10 DEF G!vars, G!list, G!hold
  <2>2. ForgetAim' /\ Listing'
    BY <1>1, <2>1, DeviceAimKept, ListingKept
  <2>3. KillLatch' /\ G!ForgetsAimed'
    BY <1>1, <2>1 DEF KillLatch, G!ForgetsAimed
  <2>4. QED BY <2>2, <2>3 DEF ForgetInv
<1>11. QED BY <1>2, <1>3, <1>4, <1>5, <1>6, <1>7, <1>8, <1>9, <1>10 DEF G!Next

\* gorm's invariant, for any devices, snapshots and queries.
THEOREM ForgetInvariance ==
  ASSUME Nothing \notin Nat, \A snap \in Snapshots : IsFiniteSet(DOMAIN snap)
  PROVE  ToolsSpec => [](tool = "gorm" => ForgetInv)
<1>1. ToolsInit => (tool = "gorm" => ForgetInv)
  BY ForgetInit DEF ToolsInit
<1>2. (tool = "gorm" => ForgetInv) /\ [ToolsNext]_run => (tool = "gorm" => ForgetInv)'
  BY ChosenSteps, ForgetStep
<1>3. QED BY <1>1, <1>2, PTL DEF ToolsSpec

(***************************************************************************)
(* "holding past the meter can't unpair a second device", and the one it   *)
(* forgets is the one Alt-U was pressed for, or one the user moved to or   *)
(* searched for since, unless that was off the list meanwhile.             *)
(***************************************************************************)
THEOREM ForgetsAimedCorrect ==
  ASSUME Nothing \notin Nat, \A snap \in Snapshots : IsFiniteSet(DOMAIN snap)
  PROVE  ToolsSpec => []ForgetsAimed
<1>1. (tool = "gorm" => ForgetInv) => ForgetsAimed
  BY DEF ForgetsAimed, ForgetInv
<1>2. QED BY <1>1, ForgetInvariance, PTL

-----------------------------------------------------------------------------
(* hugin's. *)
stored == v1
version == v2
sort == v3
noticed == v6
missed == v7

USE DEF stored, version, sort, noticed, missed

(***************************************************************************)
(* hugin: what is listed is what the database held at the version noticed, *)
(* or, before one was, when the picker opened.                             *)
(***************************************************************************)
Fresh == noticed = Nothing \/ noticed = version

ListInv ==
  /\ version \in Nat /\ (noticed = Nothing \/ (noticed \in Nat /\ noticed <= version))
  /\ ~missed /\ Fresh => results = H!Listed(stored, query, sort)

\* Of nothing, in any order, nothing comes first.
LEMMA FirstOfNone ==
  ASSUME NEW n \in Nat
  PROVE  H!FirstN(<<>>, n) = <<>>
<1>1. Min({n, 0}) = 0
  BY MinMaxOfTwo
<1>2. H!FirstN(<<>>, n) = SubSeq(<<>>, 1, Min({n, 0}))
  BY DEF H!FirstN, H!Min, Min
<1>3. QED BY <1>1, <1>2

\* An empty database lists nothing.
LEMMA NothingListed ==
  ASSUME Limit \in Nat, PoolLimit \in Nat
  PROVE  H!Listed(<<>>, Everything, "Relevance") = <<>>
<1> DEFINE newest == H!InOrder(DOMAIN <<>>, >)
           pool == H!FirstN(newest, PoolLimit)
           ids == H!FirstN(pool, H!Min({Limit, PoolLimit}))
<1>1. newest = <<>>
  <2>1. H!Cardinality(DOMAIN <<>>) = 0
    <3>1. H!Cardinality(DOMAIN <<>>) = Cardinality(DOMAIN <<>>)
      BY Zenon DEF Cardinality, H!Cardinality
    <3>2. DOMAIN <<>> = {}
      OBVIOUS
    <3>3. QED BY <3>1, <3>2, FS_EmptySet
  <2> DEFINE nth(i) == CHOOSE a \in DOMAIN <<>> : H!Cardinality({b \in DOMAIN <<>> : b > a}) = i - 1
  <2>2. newest = [i \in 1..H!Cardinality(DOMAIN <<>>) |-> nth(i)]
    BY Zenon DEF H!InOrder
  <2> HIDE DEF newest, nth
  <2>3. newest = [i \in 1..0 |-> nth(i)]
    BY <2>1, <2>2
  <2>4. QED BY <2>3
<1>2. pool = <<>>
  BY <1>1, FirstOfNone
<1>3. H!Min({Limit, PoolLimit}) \in Nat
  <2>1. Min({Limit, PoolLimit}) \in Nat
    BY MinMaxOfTwo
  <2>2. QED BY <2>1 DEF Min, H!Min
<1>4. ids = <<>>
  BY <1>2, <1>3, FirstOfNone
<1>5. H!Search(<<>>, Everything, "Relevance")
        = [i \in DOMAIN ids |-> [id |-> ids[i], mimes |-> MimesOf[<<>>[ids[i]]]]]
  BY Zenon DEF H!Search
<1> HIDE DEF ids
<1>6. H!Search(<<>>, Everything, "Relevance") = <<>>
  BY <1>4, <1>5
<1>7. H!Reverse(<<>>) = <<>>
  BY DEF H!Reverse
<1>8. QED BY <1>6, <1>7 DEF H!Listed

\* A search lists what is in the database at the time.
LEMMA ListedNow ==
  ASSUME NEW q, NEW by, NEW preserve, H!Refresh(q, by, preserve)
  PROVE  results' = H!Listed(stored, query, sort)'
<1>1. query' = q /\ sort' = by /\ results' = H!Listed(stored', q, by)
  BY DEF H!Refresh
<1>2. results' = H!Listed(stored', query', sort')
  BY <1>1
<1>3. QED BY <1>2

\* The list is fresh when the picker opens,
LEMMA ListInit ==
  ASSUME Limit \in Nat, PoolLimit \in Nat, H!Init
  PROVE  ListInv
<1>1. stored = <<>> /\ version = 0 /\ query = Everything /\ sort = "Relevance" /\ results = <<>>
      /\ noticed = Nothing
  BY DEF H!Init
<1>2. results = H!Listed(stored, query, sort)
  BY <1>1, NothingListed
<1>3. QED BY <1>1, <1>2 DEF ListInv

\* and whatever is committed, typed, moved or confirmed, it stays so or is known not to be.
LEMMA ListStep ==
  ASSUME ListInv, [H!Next]_(H!vars)
  PROVE  ListInv'
<1>1. /\ version \in Nat /\ (noticed = Nothing \/ (noticed \in Nat /\ noticed <= version))
      /\ ~missed /\ Fresh => results = H!Listed(stored, query, sort)
  BY DEF ListInv
<1>2. ASSUME UNCHANGED <<stored, query, sort, results>> PROVE
        (results = H!Listed(stored, query, sort)) => (results = H!Listed(stored, query, sort))'
  BY <1>2
<1>3. ASSUME UNCHANGED <<stored, query, sort, results, version, noticed, missed>> PROVE ListInv'
  BY <1>1, <1>2, <1>3 DEF ListInv, Fresh
<1>4. ASSUME UNCHANGED <<version, noticed>>, results' = H!Listed(stored, query, sort)' PROVE ListInv'
  BY <1>1, <1>4 DEF ListInv
<1>5. ASSUME H!ReadVersion PROVE ListInv'
  <2>1. noticed = Nothing /\ noticed' = version /\ version' = version /\ missed' = missed
        /\ UNCHANGED <<stored, query, sort, results>>
    BY <1>5 DEF H!ReadVersion
  <2>2. QED BY <1>1, <1>2, <2>1 DEF ListInv, Fresh
<1>6. ASSUME H!Commit PROVE ListInv'
  <2>1. version' = version + 1 /\ noticed' = noticed /\ missed' = (missed \/ noticed = Nothing)
    BY <1>6 DEF H!Commit
  <2>2. CASE noticed = Nothing
    <3>1. missed'
      BY <2>1, <2>2
    <3>2. QED BY <1>1, <2>1, <2>2, <3>1 DEF ListInv
  <2>3. CASE noticed # Nothing
    <3>1. noticed' \in Nat /\ noticed' <= version' /\ noticed' # version' /\ noticed' # Nothing
      BY <1>1, <2>1, <2>3
    <3>2. QED BY <1>1, <2>1, <3>1 DEF ListInv, Fresh
  <2>4. QED BY <2>2, <2>3
<1>7. ASSUME H!Idle PROVE ListInv'
  <2>1. noticed' = version /\ version' = version /\ H!Refresh(query, sort, TRUE)
    BY <1>7 DEF H!Idle
  <2>2. results' = H!Listed(stored, query, sort)'
    BY <2>1, ListedNow
  <2>3. QED BY <1>1, <2>1, <2>2 DEF ListInv
<1>8. ASSUME H!EditQuery \/ H!CycleSort PROVE ListInv'
  <2>1. PICK q, by : H!Refresh(q, by, FALSE)
    BY <1>8 DEF H!EditQuery, H!CycleSort
  <2>2. results' = H!Listed(stored, query, sort)'
    BY <2>1, ListedNow
  <2>3. UNCHANGED <<version, noticed>>
    BY <1>8 DEF H!EditQuery, H!CycleSort
  <2>4. QED BY <1>4, <2>2, <2>3
<1>9. ASSUME H!Move \/ H!Copy \/ H!Leave \/ H!OpenDialog \/ H!ChooseMime PROVE ListInv'
  <2>1. UNCHANGED <<stored, query, sort, results, version, noticed, missed>>
    BY <1>9 DEF H!Move, H!Copy, H!Leave, H!OpenDialog, H!ChooseMime
  <2>2. QED BY <1>3, <2>1
<1>10. ASSUME H!Confirm PROVE ListInv'
  <2>1. noticed' = noticed /\ missed' = missed
    BY <1>10 DEF H!Confirm
  <2>2. CASE version' = version + 1 /\ H!Refresh(query, sort, FALSE)
    <3>1. results' = H!Listed(stored, query, sort)'
      BY <2>2, ListedNow
    <3>2. QED BY <1>1, <2>1, <2>2, <3>1 DEF ListInv
  <2>3. CASE UNCHANGED <<stored, version, query, sort, results, at>>
    BY <1>3, <2>1, <2>3
  <2>4. QED BY <1>10, <2>2, <2>3 DEF H!Confirm
<1>11. ASSUME UNCHANGED H!vars PROVE ListInv'
  BY <1>3, <1>11 DEF H!vars
<1>12. QED BY <1>5, <1>6, <1>7, <1>8, <1>9, <1>10, <1>11 DEF H!Next

\* hugin's invariant, for any entries, commits and queries.
THEOREM ListInvariance ==
  ASSUME Limit \in Nat, PoolLimit \in Nat
  PROVE  ToolsSpec => [](tool = "hugin" => ListInv)
<1>1. ToolsInit => (tool = "hugin" => ListInv)
  BY ListInit DEF ToolsInit
<1>2. (tool = "hugin" => ListInv) /\ [ToolsNext]_run => (tool = "hugin" => ListInv)'
  BY ChosenSteps, ListStep
<1>3. QED BY <1>1, <1>2, PTL DEF ToolsSpec

(***************************************************************************)
(* A list that differs from what the database holds was made at another    *)
(* version than the current one, so the idle tick will notice, unless a    *)
(* commit came before the picker first read the version.                   *)
(***************************************************************************)
THEOREM StaleIsNoticedCorrect ==
  ASSUME Limit \in Nat, PoolLimit \in Nat
  PROVE  ToolsSpec => []StaleIsNoticed
<1>1. (tool = "hugin" => ListInv) => StaleIsNoticed
  BY DEF StaleIsNoticed, ListInv, Fresh, H!StaleIsNoticed
<1>2. QED BY <1>1, ListInvariance, PTL

-----------------------------------------------------------------------------
(* Sums. A fold takes the elements of a set in an order nobody knows.       *)

First(s) == CHOOSE e \in s : TRUE

\* iter of FoldFunction(+, 0, f): what is added up, one element at a time.
Folds(g, f, I) ==
  g = [s \in SUBSET I |-> IF s = {} THEN 0 ELSE f[First(s)] + g[s \ {First(s)}]]

\* g adds up f, whichever element comes first.
Adds(g, f, I) ==
  /\ g \in [SUBSET I -> Nat] /\ g[{}] = 0
  /\ \A s \in SUBSET I : \A e \in s : g[s] = f[e] + g[s \ {e}]

\* An element less.
LEMMA OneLess ==
  ASSUME NEW I, IsFiniteSet(I), NEW s \in SUBSET I, NEW e \in s
  PROVE  /\ s \ {e} \in SUBSET I /\ Cardinality(s) \in Nat \ {0}
         /\ Cardinality(s \ {e}) = Cardinality(s) - 1
<1>1. IsFiniteSet(s)
  BY FS_Subset
<1>2. Cardinality(s \ {e}) = Cardinality(s) - 1 /\ IsFiniteSet(s \ {e})
  BY <1>1, FS_RemoveElement
<1>3. Cardinality(s) \in Nat /\ Cardinality(s \ {e}) \in Nat
  BY <1>1, <1>2, FS_CardinalityType
<1>4. QED BY <1>2, <1>3

\* What fails for some subset fails for a smallest one.
LEMMA Smallest ==
  ASSUME NEW I, IsFiniteSet(I), NEW Bad, Bad \subseteq SUBSET I, Bad # {}
  PROVE  \E s \in Bad : \A r \in Bad : Cardinality(s) <= Cardinality(r)
<1> DEFINE sizes == {Cardinality(s) : s \in Bad}
<1>1. \A s \in Bad : Cardinality(s) \in Nat
  BY FS_Subset, FS_CardinalityType
<1>2. sizes \subseteq Nat /\ sizes # {}
  BY <1>1
<1>3. PICK m \in sizes : \A n \in sizes : m <= n
  <2> HIDE DEF sizes
  <2> QED BY <1>2, Least
<1>4. QED BY <1>3

\* There is such a fold.
LEMMA FoldExists ==
  ASSUME NEW I, IsFiniteSet(I), NEW f
  PROVE  \E g : Folds(g, f, I)
<1> DEFINE Upto(n) == {s \in SUBSET I : Cardinality(s) <= n}
           Def(g, s) == IF s = {} THEN 0 ELSE f[First(s)] + g[s \ {First(s)}]
           Has(n) == \E g : g = [s \in Upto(n) |-> Def(g, s)]
           Bad == {n \in Nat : ~Has(n)}
<1>1. \A s : s # {} => First(s) \in s
  BY DEF First
<1>2. Cardinality(I) \in Nat /\ Upto(Cardinality(I)) = SUBSET I
  <2>1. \A s \in SUBSET I : Cardinality(s) <= Cardinality(I)
    BY FS_Subset
  <2>2. QED BY <2>1, FS_CardinalityType
<1>3. Bad = {}
  <2>1. SUFFICES ASSUME Bad # {} PROVE FALSE
    OBVIOUS
  <2>2. Bad \subseteq Nat
    OBVIOUS
  <2>3. PICK n \in Bad : \A m \in Bad : n <= m
    <3> HIDE DEF Bad
    <3> QED BY <2>1, <2>2, Least
  <2>4. n \in Nat /\ ~Has(n)
    BY <2>3
  <2>5. CASE n = 0
    <3> DEFINE g == [s \in Upto(0) |-> 0]
    <3>1. ASSUME NEW s \in Upto(0) PROVE s = {}
      <4>1. ASSUME NEW e \in s PROVE FALSE
        <5>1. s \in SUBSET I /\ Cardinality(s) <= 0
          BY <3>1
        <5>2. Cardinality(s) \in Nat \ {0}
          BY <4>1, <5>1, OneLess
        <5>3. QED BY <5>1, <5>2
      <4>2. QED BY <4>1
    <3>2. g = [s \in Upto(0) |-> Def(g, s)]
      BY <3>1
    <3>3. Has(0)
      BY <3>2
    <3>4. QED BY <2>4, <2>5, <3>3
  <2>6. CASE n # 0
    <3>1. n - 1 \in Nat /\ n - 1 \notin Bad
      <4>1. n - 1 \in Nat /\ ~(n <= n - 1)
        BY <2>4, <2>6
      <4> HIDE DEF Bad
      <4>2. QED BY <2>3, <4>1
    <3>2. Has(n - 1)
      BY <3>1
    <3>3. PICK g : g = [s \in Upto(n - 1) |-> Def(g, s)]
      BY <3>2
    <3> DEFINE h == [s \in Upto(n) |-> Def(g, s)]
    <3>4. ASSUME NEW s \in Upto(n) PROVE h[s] = Def(h, s)
      <4>1. CASE s = {}
        BY <4>1
      <4>2. CASE s # {}
        <5> DEFINE r == s \ {First(s)}
        <5>1. First(s) \in s
          BY <1>1, <4>2
        <5>2. r \in SUBSET I /\ Cardinality(s) \in Nat /\ Cardinality(r) = Cardinality(s) - 1
          BY <5>1, <3>4, OneLess
        <5>3. r \in Upto(n - 1) /\ r \in Upto(n)
          BY <5>2, <3>4, <2>4
        <5>4. g[r] = Def(g, r)
          BY <3>3, <5>3
        <5>5. h[r] = Def(g, r)
          BY <5>3
        <5>6. h[s] = f[First(s)] + g[r]
          BY <4>2
        <5>7. Def(h, s) = f[First(s)] + h[r]
          BY <4>2
        <5>8. QED BY <5>4, <5>5, <5>6, <5>7
      <4>3. QED BY <4>1, <4>2
    <3>5. h = [s \in Upto(n) |-> Def(h, s)]
      <4>1. h = [s \in Upto(n) |-> h[s]]
        OBVIOUS
      <4> HIDE DEF h, Def, Upto
      <4>2. QED BY <3>4, <4>1
    <3>6. Has(n)
      BY <3>5
    <3>7. QED BY <2>4, <3>6
  <2>7. QED BY <2>5, <2>6
<1>4. Has(Cardinality(I))
  BY <1>2, <1>3
<1>5. PICK g : g = [s \in Upto(Cardinality(I)) |-> Def(g, s)]
  BY <1>4
<1>6. g = [s \in SUBSET I |-> Def(g, s)]
  BY <1>2, <1>5
<1>7. QED BY <1>6 DEF Folds

\* What a fold of numbers adds up to.
LEMMA FoldAdds ==
  ASSUME NEW I, IsFiniteSet(I), NEW f, \A d \in I : f[d] \in Nat, NEW g, Folds(g, f, I)
  PROVE  Adds(g, f, I)
<1>1. ASSUME NEW s \in SUBSET I PROVE g[s] = IF s = {} THEN 0 ELSE f[First(s)] + g[s \ {First(s)}]
  BY Zenon DEF Folds
<1>2. \A s : s # {} => First(s) \in s
  BY DEF First
<1>3. \A s \in SUBSET I : Cardinality(s) \in Nat
  BY FS_Subset, FS_CardinalityType
<1>4. ASSUME NEW s \in SUBSET I PROVE g[s] \in Nat
  <2> DEFINE Bad == {r \in SUBSET I : g[r] \notin Nat}
  <2>1. SUFFICES ASSUME Bad # {} PROVE FALSE
    OBVIOUS
  <2>2. Bad \subseteq SUBSET I
    OBVIOUS
  <2>3. PICK r \in Bad : \A q \in Bad : Cardinality(r) <= Cardinality(q)
    <3> HIDE DEF Bad
    <3> QED BY <2>1, <2>2, Smallest
  <2>4. r \in SUBSET I /\ g[r] \notin Nat
    BY <2>3
  <2>5. r # {}
    <3>1. g[{}] = 0
      BY <1>1
    <3>2. QED BY <2>4, <3>1
  <2>6. First(r) \in r
    BY <1>2, <2>5
  <2> DEFINE q == r \ {First(r)}
  <2>7. q \in SUBSET I /\ Cardinality(q) = Cardinality(r) - 1
    BY <2>4, <2>6, OneLess
  <2>8. ~(Cardinality(r) <= Cardinality(q))
    BY <1>3, <2>4, <2>7
  <2>9. g[q] \in Nat
    BY <2>3, <2>7, <2>8
  <2>10. f[First(r)] \in Nat
    BY <2>4, <2>6
  <2>11. g[r] = f[First(r)] + g[q]
    BY <1>1, <2>4, <2>5
  <2>12. QED BY <2>4, <2>9, <2>10, <2>11
<1>5. ASSUME NEW s \in SUBSET I, NEW e \in s PROVE g[s] = f[e] + g[s \ {e}]
  <2> DEFINE Bad == {r \in SUBSET I : \E x \in r : g[r] # f[x] + g[r \ {x}]}
  <2>1. SUFFICES ASSUME Bad # {} PROVE FALSE
    OBVIOUS
  <2>2. Bad \subseteq SUBSET I
    OBVIOUS
  <2>3. PICK r \in Bad : \A q \in Bad : Cardinality(r) <= Cardinality(q)
    <3> HIDE DEF Bad
    <3> QED BY <2>1, <2>2, Smallest
  <2>4. PICK x \in r : r \in SUBSET I /\ g[r] # f[x] + g[r \ {x}]
    BY <2>3
  <2> DEFINE y == First(r)
             q == r \ {y}
             p == r \ {x}
  <2>5. y \in r
    BY <1>2, <2>4
  <2>6. g[r] = f[y] + g[q]
    BY <1>1, <2>4
  <2>7. x # y
    BY <2>4, <2>6
  <2>8. /\ q \in SUBSET I /\ Cardinality(q) = Cardinality(r) - 1
        /\ p \in SUBSET I /\ Cardinality(p) = Cardinality(r) - 1
    BY <2>4, <2>5, OneLess
  <2>9. ~(Cardinality(r) <= Cardinality(q)) /\ ~(Cardinality(r) <= Cardinality(p))
    BY <1>3, <2>4, <2>8
  <2>10. q \notin Bad /\ p \notin Bad
    <3> HIDE DEF Bad, q, p
    <3> QED BY <2>3, <2>9
  <2>11. x \in q /\ y \in p
    BY <2>4, <2>5, <2>7
  <2>12. g[q] = f[x] + g[q \ {x}] /\ g[p] = f[y] + g[p \ {y}]
    BY <2>8, <2>10, <2>11
  <2>13. q \ {x} = p \ {y} /\ q \ {x} \in SUBSET I
    BY <2>8
  <2> DEFINE rest == g[q \ {x}]
  <2>14. f[x] \in Nat /\ f[y] \in Nat /\ rest \in Nat
    BY <1>4, <2>4, <2>5, <2>13
  <2>15. g[q] = f[x] + rest /\ g[p] = f[y] + rest
    BY <2>12, <2>13
  <2>16. g[r] # f[x] + g[p]
    BY <2>4
  <2> HIDE DEF y, q, p, rest
  <2>17. QED BY <2>6, <2>14, <2>15, <2>16
<1>6. g[{}] = 0
  BY <1>1
<1>7. g = [s \in SUBSET I |-> g[s]]
  BY DEF Folds
<1>8. g \in [SUBSET I -> Nat]
  BY <1>4, <1>7
<1>9. QED BY <1>5, <1>6, <1>8 DEF Adds

\* So a sum is one.
LEMMA SumAdds ==
  ASSUME NEW I, IsFiniteSet(I), NEW f \in [I -> Nat]
  PROVE  \E g : Adds(g, f, I) /\ S!Sum(f) = g[I]
<1> DEFINE g == CHOOSE g : Folds(g, f, I)
<1>1. Folds(g, f, I)
  BY FoldExists
<1>2. Adds(g, f, I)
  <2> HIDE DEF g
  <2> QED BY <1>1, FoldAdds
<1>3. S!Sum(f) = g[I]
  <2>1. DOMAIN f = I
    OBVIOUS
  <2>2. S!Sum(f) = (CHOOSE iter : iter = [s \in SUBSET DOMAIN f |->
           IF s = {} THEN 0 ELSE f[CHOOSE x \in s : TRUE] + iter[s \ {CHOOSE x \in s : TRUE}]])[DOMAIN f]
    BY Zenon DEF S!Sum, S!FoldFunction, S!FoldFunctionOnSet, S!MapThenFoldSet
  <2>3. QED BY <2>1, <2>2, Zenon DEF Folds, First
<1>4. QED BY <1>2, <1>3

\* Where one adds less, and over fewer, its sum is less.
LEMMA AddsLess ==
  ASSUME NEW I, IsFiniteSet(I), NEW C, C \subseteq I, NEW f, NEW g, NEW k, NEW h,
         Adds(g, f, C), Adds(h, k, I),
         \A d \in C : f[d] \in Nat, \A d \in I : k[d] \in Nat, \A d \in C : f[d] <= k[d]
  PROVE  g[C] <= h[I]
<1> DEFINE Bad == {s \in SUBSET I : ~(g[s \cap C] <= h[s])}
<1>1. \A s \in SUBSET I : h[s] \in Nat /\ g[s \cap C] \in Nat
  BY DEF Adds
<1>2. Bad = {}
  <2>1. SUFFICES ASSUME Bad # {} PROVE FALSE
    OBVIOUS
  <2>2. Bad \subseteq SUBSET I
    OBVIOUS
  <2>3. PICK s \in Bad : \A r \in Bad : Cardinality(s) <= Cardinality(r)
    <3> HIDE DEF Bad
    <3> QED BY <2>1, <2>2, Smallest
  <2>4. s \in SUBSET I /\ ~(g[s \cap C] <= h[s])
    BY <2>3
  <2>5. s # {}
    <3>1. SUFFICES ASSUME s = {} PROVE FALSE
      OBVIOUS
    <3>2. g[{}] = 0 /\ h[{}] = 0
      BY DEF Adds
    <3>3. s \cap C = {}
      BY <3>1
    <3>4. g[s \cap C] = 0 /\ h[s] = 0
      BY <3>1, <3>2, <3>3
    <3>5. QED BY <2>4, <3>4
  <2>6. PICK e \in s : TRUE
    BY <2>5
  <2> DEFINE r == s \ {e}
  <2>7. r \in SUBSET I /\ Cardinality(r) = Cardinality(s) - 1 /\ Cardinality(s) \in Nat
    BY <2>4, OneLess
  <2>8. ~(Cardinality(s) <= Cardinality(r))
    BY <2>7
  <2>9. r \notin Bad
    <3> HIDE DEF Bad, r
    <3> QED BY <2>3, <2>8
  <2>10. g[r \cap C] <= h[r]
    BY <2>7, <2>9
  <2>11. h[s] = k[e] + h[r] /\ k[e] \in Nat
    BY <2>4 DEF Adds
  <2>12. h[r] \in Nat /\ g[r \cap C] \in Nat
    BY <1>1, <2>7
  <2>13. CASE e \in C
    <3>1. (s \cap C) \in SUBSET C /\ e \in s \cap C /\ (s \cap C) \ {e} = r \cap C
      BY <2>13
    <3>2. g[s \cap C] = f[e] + g[r \cap C]
      <4>1. g[s \cap C] = f[e] + g[(s \cap C) \ {e}]
        BY <3>1 DEF Adds
      <4>2. QED BY <3>1, <4>1
    <3>3. f[e] \in Nat /\ f[e] <= k[e]
      BY <2>13
    <3> HIDE DEF r
    <3>4. QED BY <2>4, <2>10, <2>11, <2>12, <3>2, <3>3
  <2>14. CASE e \notin C
    <3>1. s \cap C = r \cap C
      BY <2>14
    <3>2. g[s \cap C] = g[r \cap C]
      BY <3>1
    <3> HIDE DEF r
    <3>3. QED BY <2>4, <2>10, <2>11, <2>12, <3>2
  <2>15. QED BY <2>13, <2>14
<1>3. I \in SUBSET I /\ I \cap C = C
  OBVIOUS
<1>4. QED BY <1>2, <1>3

\* Fewer and smaller numbers have the smaller sum.
LEMMA SumIsMonotone ==
  ASSUME NEW I, IsFiniteSet(I), NEW C, C \subseteq I, NEW f \in [C -> Nat], NEW k \in [I -> Nat],
         \A d \in C : f[d] <= k[d]
  PROVE  S!Sum(f) \in Nat /\ S!Sum(k) \in Nat /\ S!Sum(f) <= S!Sum(k)
<1>1. PICK h : Adds(h, k, I) /\ S!Sum(k) = h[I]
  BY SumAdds
<1>2. IsFiniteSet(C)
  BY FS_Subset
<1>3. PICK g : Adds(g, f, C) /\ S!Sum(f) = g[C]
  BY <1>2, SumAdds
<1>4. g[C] <= h[I]
  BY <1>1, <1>3, AddsLess
<1>5. g[C] \in Nat /\ h[I] \in Nat
  BY <1>1, <1>3 DEF Adds
<1>6. QED BY <1>1, <1>3, <1>4, <1>5

-----------------------------------------------------------------------------
(* sleipnir's. *)
clock == v1
live == v2
steady == v4
dirs == v5
job == v8
visits == v10

USE DEF clock, live, steady, dirs, job, visits

(***************************************************************************)
(* sleipnir: what shells in the middle of a sync have seen is so still, as *)
(* far as the count needs it. A collected directory was missing once. As   *)
(* long as the visits are within RANK_CAP, no shell ages: the ranks it     *)
(* weighed are no more than the visits.                                    *)
(***************************************************************************)
RankOf(d) == IF d \in DOMAIN dirs THEN dirs[d].rank ELSE 0

\* Where a shell is, a shell that buries buries only what was missing,
BuriesTheDead(j, known) ==
  "step" \in DOMAIN j /\ (j.step = "Bury" => "dead" \in DOMAIN j /\ j.dead \cap known = {})

\* and one that does not age.
Calm(j) == j.step \notin {"Age", "Drop"}

Counted ==
  /\ \A s \in Shells : Calm(job[s])
  /\ DOMAIN dirs \subseteq Dirs
  /\ \A d \in DOMAIN dirs : dirs[d].rank \in Nat /\ dirs[d].rank <= visits[d]
  /\ \A d \in steady : RankOf(d) = visits[d]

CountInv ==
  /\ visits \in [Dirs -> Nat] /\ steady \subseteq Dirs \cap DOMAIN live /\ DOMAIN job = Shells
  /\ \A s \in Shells : BuriesTheDead(job[s], steady)
  /\ S!Sum(visits) <= RankCap => Counted

\* What a shell does to its own place only.
LEMMA ShellMoves ==
  ASSUME CountInv, NEW s \in Shells, NEW j, S!Goto(s, j),
         UNCHANGED <<dirs, visits, steady, live>>,
         BuriesTheDead(j, steady), S!Sum(visits) <= RankCap => Calm(j)
  PROVE  CountInv'
<1>1. job' = [job EXCEPT ![s] = j] /\ DOMAIN job = Shells
  BY DEF S!Goto, CountInv
<1>2. DOMAIN job' = Shells /\ job'[s] = j /\ \A t \in Shells : t # s => job'[t] = job[t]
  BY <1>1
<1>3. \A t \in Shells : BuriesTheDead(job'[t], steady')
  <2>1. steady' = steady
    OBVIOUS
  <2>2. \A t \in Shells : BuriesTheDead(job'[t], steady)
    BY <1>2 DEF CountInv
  <2>3. QED BY <2>1, <2>2
<1>4. /\ visits' \in [Dirs -> Nat] /\ steady' \subseteq Dirs \cap DOMAIN live'
      /\ S!Sum(visits') = S!Sum(visits)
  BY DEF CountInv
<1>5. ASSUME S!Sum(visits) <= RankCap PROVE Counted'
  <2>1. Counted /\ Calm(j)
    BY <1>5 DEF CountInv
  <2>2. \A t \in Shells : Calm(job'[t])
    BY <1>2, <2>1 DEF Counted
  <2>3. \A d : RankOf(d)' = RankOf(d)
    BY DEF RankOf
  <2>4. QED BY <2>1, <2>2, <2>3 DEF Counted
<1>6. QED BY <1>2, <1>3, <1>4, <1>5 DEF CountInv

\* What the world does: a directory that is missing once is not steady.
LEMMA WorldMoves ==
  ASSUME CountInv, UNCHANGED <<dirs, visits, job>>, steady' \subseteq steady \cap DOMAIN live'
  PROVE  CountInv'
<1>1. visits' \in [Dirs -> Nat] /\ steady' \subseteq Dirs \cap DOMAIN live' /\ DOMAIN job' = Shells
  BY DEF CountInv
<1>2. \A t \in Shells : BuriesTheDead(job'[t], steady')
  BY DEF CountInv, BuriesTheDead
<1>3. S!Sum(visits') = S!Sum(visits)
  OBVIOUS
<1>4. ASSUME Counted PROVE Counted'
  <2>1. \A d : RankOf(d)' = RankOf(d)
    BY DEF RankOf
  <2>2. QED BY <1>4, <2>1 DEF Counted
<1>5. QED BY <1>1, <1>2, <1>3, <1>4 DEF CountInv

\* A visit: the directory, which is there, is counted once more.
LEMMA VisitCounts ==
  ASSUME CountInv, IsFiniteSet(Dirs), RankCap \in Nat, NEW s \in Shells, S!Visit(s)
  PROVE  CountInv'
<1>1. PICK d \in Dirs \cap DOMAIN live :
        /\ S!AddDir(d, clock) /\ visits' = [visits EXCEPT ![d] = @ + 1]
        /\ S!Goto(s, [step |-> "Check", now |-> clock, gated |-> TRUE])
        /\ UNCHANGED S!world
  BY DEF S!Visit
<1> DEFINE row == [rank |-> IF d \in DOMAIN dirs THEN dirs[d].rank + 1 ELSE 1, at |-> clock]
<1>2. dirs' = [x \in DOMAIN dirs \cup {d} |-> IF x = d THEN row ELSE dirs[x]]
  BY <1>1 DEF S!AddDir, S!Put
<1>3. row.rank = RankOf(d) + 1
  BY DEF RankOf
<1> HIDE DEF row
<1>4. steady' = steady /\ live' = live
  BY <1>1 DEF S!world
<1>5. visits \in [Dirs -> Nat] /\ visits' \in [Dirs -> Nat] /\ visits'[d] = visits[d] + 1
      /\ \A e \in Dirs : e # d => visits'[e] = visits[e]
  BY <1>1 DEF CountInv
<1>6. \A e \in Dirs : visits[e] <= visits'[e]
  BY <1>5
<1>7. S!Sum(visits) \in Nat /\ S!Sum(visits') \in Nat /\ S!Sum(visits) <= S!Sum(visits')
  BY <1>5, <1>6, SumIsMonotone
<1> DEFINE j == [step |-> "Check", now |-> clock, gated |-> TRUE]
<1>8. job' = [job EXCEPT ![s] = j] /\ DOMAIN job = Shells
  BY <1>1 DEF S!Goto, CountInv
<1>9. DOMAIN job' = Shells /\ job'[s] = j /\ \A t \in Shells : t # s => job'[t] = job[t]
  BY <1>8
<1>10. BuriesTheDead(j, steady) /\ Calm(j)
  BY DEF BuriesTheDead, Calm
<1> HIDE DEF j
<1>11. \A t \in Shells : BuriesTheDead(job'[t], steady')
  <2>1. \A t \in Shells : BuriesTheDead(job'[t], steady)
    BY <1>9, <1>10 DEF CountInv
  <2>2. QED BY <1>4, <2>1
<1>12. ASSUME S!Sum(visits') <= RankCap PROVE Counted'
  <2>1. Counted
    BY <1>7, <1>12 DEF CountInv
  <2>2. \A t \in Shells : Calm(job'[t])
    BY <1>9, <1>10, <2>1 DEF Counted
  <2>3. DOMAIN dirs' = DOMAIN dirs \cup {d} /\ DOMAIN dirs' \subseteq Dirs
    BY <1>2, <2>1 DEF Counted
  <2>4. dirs'[d] = row /\ \A e \in DOMAIN dirs : e # d => dirs'[e] = dirs[e]
    BY <1>2
  <2>5. RankOf(d) \in Nat /\ RankOf(d) <= visits[d]
    BY <1>5, <2>1 DEF Counted, RankOf
  <2>6. \A e \in DOMAIN dirs' : dirs'[e].rank \in Nat /\ dirs'[e].rank <= visits'[e]
    BY <1>3, <1>5, <2>1, <2>3, <2>4, <2>5 DEF Counted
  <2>7. ASSUME NEW e \in steady PROVE RankOf(e)' = visits'[e]
    <3>1. e \in Dirs /\ RankOf(e) = visits[e]
      BY <2>1, <2>7 DEF Counted, CountInv
    <3>2. CASE e = d
      <4>1. RankOf(d)' = dirs'[d].rank
        BY <2>3 DEF RankOf
      <4>2. QED BY <1>3, <1>5, <2>4, <3>1, <3>2, <4>1
    <3>3. CASE e # d
      <4>1. RankOf(e)' = RankOf(e)
        BY <2>3, <2>4, <3>3 DEF RankOf
      <4>2. QED BY <1>5, <3>1, <3>3, <4>1
    <3>4. QED BY <3>2, <3>3
  <2>8. \A e \in steady' : RankOf(e)' = visits'[e]
    BY <1>4, <2>7
  <2>9. QED BY <2>2, <2>3, <2>6, <2>8 DEF Counted
<1>13. steady' \subseteq Dirs \cap DOMAIN live'
  BY <1>4 DEF CountInv
<1>14. QED BY <1>5, <1>9, <1>11, <1>12, <1>13 DEF CountInv

\* The ranks that were counted add up to no more than the visits.
LEMMA RanksWithinVisits ==
  ASSUME Counted, visits \in [Dirs -> Nat], IsFiniteSet(Dirs)
  PROVE  /\ S!Sum([d \in DOMAIN dirs |-> dirs[d].rank]) \in Nat /\ S!Sum(visits) \in Nat
         /\ S!Sum([d \in DOMAIN dirs |-> dirs[d].rank]) <= S!Sum(visits)
<1> DEFINE ranks == [d \in DOMAIN dirs |-> dirs[d].rank]
<1>1. DOMAIN dirs \subseteq Dirs /\ ranks \in [DOMAIN dirs -> Nat]
      /\ \A d \in DOMAIN dirs : ranks[d] <= visits[d]
  BY DEF Counted
<1> HIDE DEF ranks
<1>2. S!Sum(ranks) \in Nat /\ S!Sum(visits) \in Nat /\ S!Sum(ranks) <= S!Sum(visits)
  BY <1>1, SumIsMonotone
<1>3. QED BY <1>2 DEF ranks

\* Burying takes a directory that was missing once, and then weighs the rest.
LEMMA BuryKeeps ==
  ASSUME CountInv, IsFiniteSet(Dirs), RankCap \in Nat, NEW s \in Shells, S!Bury(s)
  PROVE  CountInv'
<1>1. job[s].step = "Bury" /\ BuriesTheDead(job[s], steady)
  BY DEF S!Bury, S!At, CountInv
<1>2. "dead" \in DOMAIN job[s] /\ "step" \in DOMAIN job[s] /\ job[s].dead \cap steady = {}
  BY <1>1 DEF BuriesTheDead
<1>3. ASSUME NEW d \in job[s].dead, dirs' = S!Without(dirs, {d}),
             S!Goto(s, [job[s] EXCEPT !.dead = @ \ {d}]),
             UNCHANGED S!world, UNCHANGED visits
      PROVE  CountInv'
  <2> DEFINE j == [job[s] EXCEPT !.dead = @ \ {d}]
  <2>1. "dead" \in DOMAIN j /\ "step" \in DOMAIN j /\ j.dead = job[s].dead \ {d} /\ j.step = "Bury"
    BY <1>1, <1>2
  <2>2. BuriesTheDead(j, steady) /\ Calm(j)
    BY <1>2, <2>1 DEF BuriesTheDead, Calm
  <2>3. job' = [job EXCEPT ![s] = j] /\ DOMAIN job = Shells
    BY <1>3 DEF S!Goto, CountInv
  <2> HIDE DEF j
  <2>4. DOMAIN job' = Shells /\ job'[s] = j /\ \A t \in Shells : t # s => job'[t] = job[t]
    BY <2>3
  <2>5. steady' = steady /\ live' = live
    BY <1>3 DEF S!world
  <2>6. \A t \in Shells : BuriesTheDead(job'[t], steady')
    <3>1. \A t \in Shells : BuriesTheDead(job'[t], steady)
      BY <2>2, <2>4 DEF CountInv
    <3>2. QED BY <2>5, <3>1
  <2>7. DOMAIN dirs' = DOMAIN dirs \ {d} /\ \A e \in DOMAIN dirs' : dirs'[e] = dirs[e]
    BY <1>3 DEF S!Without
  <2>8. d \notin steady
    BY <1>2, <1>3
  <2>9. S!Sum(visits') = S!Sum(visits)
    BY <1>3
  <2>10. ASSUME S!Sum(visits) <= RankCap PROVE Counted'
    <3>1. Counted
      BY <2>10 DEF CountInv
    <3>2. \A t \in Shells : Calm(job'[t])
      BY <2>2, <2>4, <3>1 DEF Counted
    <3>3. \A e \in steady : RankOf(e)' = RankOf(e)
      BY <2>7, <2>8 DEF RankOf
    <3>4. DOMAIN dirs' \subseteq Dirs
          /\ \A e \in DOMAIN dirs' : dirs'[e].rank \in Nat /\ dirs'[e].rank <= visits[e]
      BY <2>7, <3>1 DEF Counted
    <3>5. visits' = visits
      BY <1>3
    <3>6. \A e \in steady' : RankOf(e)' = visits'[e]
      BY <2>5, <3>1, <3>3, <3>5 DEF Counted
    <3>7. QED BY <3>2, <3>4, <3>5, <3>6 DEF Counted
  <2>11. visits' \in [Dirs -> Nat] /\ steady' \subseteq Dirs \cap DOMAIN live'
    BY <1>3, <2>5 DEF CountInv
  <2>12. QED BY <2>4, <2>6, <2>9, <2>10, <2>11 DEF CountInv
<1>4. ASSUME NEW total, total = S!Sum([d \in DOMAIN dirs |-> dirs[d].rank]),
             S!Goto(s, [step |-> IF total > RankCap THEN "Age" ELSE "Stamp", total |-> total,
                        now |-> job[s].now, gated |-> job[s].gated]),
             UNCHANGED <<dirs, visits, steady, live>>
      PROVE  CountInv'
  <2> DEFINE j == [step |-> IF total > RankCap THEN "Age" ELSE "Stamp", total |-> total,
                   now |-> job[s].now, gated |-> job[s].gated]
  <2>1. BuriesTheDead(j, steady)
    BY DEF BuriesTheDead
  <2>2. ASSUME S!Sum(visits) <= RankCap PROVE Calm(j)
    <3>1. Counted /\ visits \in [Dirs -> Nat]
      BY <2>2 DEF CountInv
    <3>2. total \in Nat /\ S!Sum(visits) \in Nat /\ total <= S!Sum(visits)
      BY <1>4, <3>1, RanksWithinVisits
    <3>3. ~(total > RankCap)
      BY <2>2, <3>2
    <3>4. j.step = "Stamp"
      BY <3>3
    <3>5. QED BY <3>4 DEF Calm
  <2> HIDE DEF j
  <2>3. S!Goto(s, j)
    BY <1>4 DEF j
  <2>4. QED BY <1>4, <2>1, <2>2, <2>3, ShellMoves
<1>5. \/ \E d \in job[s].dead :
           /\ dirs' = S!Without(dirs, {d})
           /\ S!Goto(s, [job[s] EXCEPT !.dead = @ \ {d}])
           /\ UNCHANGED S!world /\ UNCHANGED visits
      \/ /\ \E total : total = S!Sum([d \in DOMAIN dirs |-> dirs[d].rank])
              /\ S!Goto(s, [step |-> IF total > RankCap THEN "Age" ELSE "Stamp", total |-> total,
                            now |-> job[s].now, gated |-> job[s].gated])
         /\ UNCHANGED <<S!store, S!world, visits>>
  BY DEF S!Bury, S!Weight
<1>6. UNCHANGED <<S!store, S!world, visits>> => UNCHANGED <<dirs, visits, steady, live>>
  BY DEF S!store, S!world
<1>7. QED BY <1>3, <1>4, <1>5, <1>6

\* Aging changes ranks, and only above RANK_CAP.
LEMMA AgeKeeps ==
  ASSUME CountInv, NEW s \in Shells, S!Age(s) \/ S!Drop(s)
  PROVE  CountInv'
<1>1. job[s].step \in {"Age", "Drop"} /\ BuriesTheDead(job[s], steady)
  BY DEF S!Age, S!Drop, S!At, CountInv
<1>2. ~(S!Sum(visits) <= RankCap)
  BY <1>1 DEF CountInv, Counted, Calm
<1>3. PICK step \in {"Drop", "Stamp"} : S!Goto(s, [job[s] EXCEPT !.step = step])
  BY DEF S!Age, S!Drop
<1>4. visits' = visits /\ steady' = steady /\ live' = live
  BY DEF S!Age, S!Drop, S!world
<1> DEFINE j == [job[s] EXCEPT !.step = step]
<1>5. "step" \in DOMAIN j /\ j.step # "Bury"
  BY <1>1 DEF BuriesTheDead
<1>6. BuriesTheDead(j, steady)
  BY <1>5 DEF BuriesTheDead
<1>7. job' = [job EXCEPT ![s] = j] /\ DOMAIN job = Shells
  BY <1>3 DEF S!Goto, CountInv
<1> HIDE DEF j
<1>8. DOMAIN job' = Shells /\ job'[s] = j /\ \A t \in Shells : t # s => job'[t] = job[t]
  BY <1>7
<1>9. \A t \in Shells : BuriesTheDead(job'[t], steady')
  <2>1. \A t \in Shells : BuriesTheDead(job'[t], steady)
    BY <1>6, <1>8 DEF CountInv
  <2>2. QED BY <1>4, <2>1
<1>10. ~(S!Sum(visits') <= RankCap)
  BY <1>2, <1>4
<1>11. visits' \in [Dirs -> Nat] /\ steady' \subseteq Dirs \cap DOMAIN live'
  BY <1>4 DEF CountInv
<1>12. QED BY <1>8, <1>9, <1>10, <1>11 DEF CountInv

\* The count is right when the first shell starts,
LEMMA CountInit ==
  ASSUME S!Init
  PROVE  CountInv
<1>1. /\ live = [p \in S!Paths |-> 0] /\ steady = Dirs /\ dirs = <<>>
      /\ job = [s \in Shells |-> S!Idle] /\ visits = [d \in Dirs |-> 0]
  BY DEF S!Init
<1>2. DOMAIN live = Dirs \cup Files
  BY <1>1 DEF S!Paths
<1>3. \A s \in Shells : BuriesTheDead(job[s], steady) /\ Calm(job[s])
  <2>1. BuriesTheDead(S!Idle, steady) /\ Calm(S!Idle)
    BY DEF BuriesTheDead, Calm, S!Idle
  <2>2. QED BY <1>1, <2>1
<1>4. DOMAIN dirs = {}
  BY <1>1
<1>5. Counted
  BY <1>1, <1>3, <1>4 DEF Counted, RankOf
<1>6. visits \in [Dirs -> Nat] /\ steady \subseteq Dirs \cap DOMAIN live /\ DOMAIN job = Shells
  BY <1>1, <1>2
<1>7. QED BY <1>3, <1>5, <1>6 DEF CountInv

\* shells keep it in every order of their steps,
LEMMA ShellKeeps ==
  ASSUME CountInv, IsFiniteSet(Dirs), RankCap \in Nat, NEW s \in Shells, S!Shell(s)
  PROVE  CountInv'
<1>1. BuriesTheDead(job[s], steady)
  BY DEF CountInv
<1>2. ASSUME NEW j, S!Goto(s, j), UNCHANGED <<dirs, visits, steady, live>>,
             "step" \in DOMAIN j, j.step \notin {"Bury", "Age", "Drop"}
      PROVE  CountInv'
  <2>1. BuriesTheDead(j, steady) /\ Calm(j)
    BY <1>2 DEF BuriesTheDead, Calm
  <2>2. QED BY <1>2, <2>1, ShellMoves
<1>3. CASE S!Visit(s)
  BY <1>3, VisitCounts
<1>4. CASE S!Check(s)
  <2>1. UNCHANGED <<dirs, visits, steady, live>>
    BY <1>4 DEF S!Check, S!store, S!world
  <2>2. CASE S!Goto(s, S!Idle)
    <3>1. "step" \in DOMAIN S!Idle /\ S!Idle.step = "Idle"
      BY DEF S!Idle
    <3>2. QED BY <1>2, <2>1, <2>2, <3>1
  <2>3. CASE S!Goto(s, [job[s] EXCEPT !.step = "Mine"])
    <3> DEFINE j == [job[s] EXCEPT !.step = "Mine"]
    <3>1. "step" \in DOMAIN j /\ j.step = "Mine"
      BY <1>1 DEF BuriesTheDead
    <3> HIDE DEF j
    <3>2. S!Goto(s, j)
      BY <2>3 DEF j
    <3>3. QED BY <1>2, <2>1, <3>1, <3>2
  <2>4. QED BY <1>4, <2>2, <2>3 DEF S!Check
<1>5. CASE S!Sync(s)
  <2>1. UNCHANGED <<dirs, visits, steady, live>>
    BY <1>5 DEF S!Sync, S!store, S!world
  <2>2. S!Goto(s, [step |-> "Mine", now |-> clock, gated |-> FALSE])
    BY <1>5 DEF S!Sync
  <2>3. QED BY <1>2, <2>1, <2>2
<1>6. CASE S!Mine(s)
  <2>1. UNCHANGED <<dirs, visits, steady, live>>
    BY <1>6 DEF S!Mine, S!store, S!world
  <2>2. S!Goto(s, [step |-> "Replace", now |-> job[s].now, gated |-> job[s].gated, mined |-> S!Mined])
    BY <1>6 DEF S!Mine
  <2>3. QED BY <1>2, <2>1, <2>2
<1>7. CASE S!Fail(s)
  <2>1. UNCHANGED <<dirs, visits, steady, live>>
    BY <1>7 DEF S!Fail, S!store, S!world
  <2>2. \/ S!Goto(s, [step |-> "Stamp", now |-> job[s].now, gated |-> FALSE])
        \/ S!Goto(s, S!Idle)
    BY <1>7 DEF S!Fail
  <2>3. "step" \in DOMAIN S!Idle /\ S!Idle.step = "Idle"
    BY DEF S!Idle
  <2>4. CASE S!Goto(s, S!Idle)
    BY <1>2, <2>1, <2>3, <2>4
  <2>5. CASE S!Goto(s, [step |-> "Stamp", now |-> job[s].now, gated |-> FALSE])
    BY <1>2, <2>1, <2>5
  <2>6. QED BY <2>2, <2>4, <2>5
<1>8. CASE S!Replace(s)
  <2>1. UNCHANGED <<dirs, visits, steady, live>>
    BY <1>8 DEF S!Replace, S!world
  <2>2. S!Goto(s, [step |-> "Collect", now |-> job[s].now, gated |-> job[s].gated])
    BY <1>8 DEF S!Replace
  <2>3. QED BY <1>2, <2>1, <2>2
<1>9. CASE S!Collect(s)
  <2> DEFINE j == [step |-> "Bury", now |-> job[s].now, gated |-> job[s].gated,
                   dead |-> DOMAIN dirs \ DOMAIN live]
  <2>1. UNCHANGED <<dirs, visits, steady, live>>
    BY <1>9 DEF S!Collect, S!store, S!world
  <2>2. S!Goto(s, j)
    BY <1>9 DEF S!Collect
  <2>3. steady \subseteq DOMAIN live
    BY DEF CountInv
  <2>4. BuriesTheDead(j, steady) /\ Calm(j)
    BY <2>3 DEF BuriesTheDead, Calm
  <2> HIDE DEF j
  <2>5. QED BY <2>1, <2>2, <2>4, ShellMoves
<1>10. CASE S!Bury(s)
  BY <1>10, BuryKeeps
<1>11. CASE S!Age(s) \/ S!Drop(s)
  BY <1>11, AgeKeeps
<1>12. CASE S!Stamp(s)
  <2>1. UNCHANGED <<dirs, visits, steady, live>>
    BY <1>12 DEF S!Stamp, S!world
  <2>2. S!Goto(s, S!Idle)
    BY <1>12 DEF S!Stamp
  <2>3. "step" \in DOMAIN S!Idle /\ S!Idle.step = "Idle"
    BY DEF S!Idle
  <2>4. QED BY <1>2, <2>1, <2>2, <2>3
<1>13. QED BY <1>3, <1>4, <1>5, <1>6, <1>7, <1>8, <1>9, <1>10, <1>11, <1>12 DEF S!Shell

\* and so do the picker and the world.
LEMMA CountStep ==
  ASSUME CountInv, IsFiniteSet(Dirs), RankCap \in Nat, [S!Next]_(S!vars)
  PROVE  CountInv'
<1>1. steady \subseteq DOMAIN live
  BY DEF CountInv
<1>2. CASE \E s \in Shells : S!Shell(s)
  BY <1>2, ShellKeeps
<1>3. CASE S!Picker \/ S!Tick \/ S!Run \/ UNCHANGED S!vars
  <2>1. UNCHANGED <<dirs, visits, job, steady, live>>
    BY <1>3 DEF S!Picker, S!Pick, S!EditQuery, S!Move, S!Leave, S!Tick, S!Run, S!vars, S!store, S!world
  <2>2. QED BY <1>1, <2>1, WorldMoves
<1>4. CASE S!Write
  <2>1. UNCHANGED <<dirs, visits, job, steady>> /\ DOMAIN live \subseteq DOMAIN live'
    BY <1>4 DEF S!Write, S!store, S!Put
  <2>2. QED BY <1>1, <2>1, WorldMoves
<1>5. CASE S!Unlink
  <2>1. PICK p : live' = S!Without(live, {p}) /\ steady' = steady \ {p}
    BY <1>5 DEF S!Unlink
  <2>2. DOMAIN live' = DOMAIN live \ {p}
    BY <2>1 DEF S!Without
  <2>3. UNCHANGED <<dirs, visits, job>>
    BY <1>5 DEF S!Unlink, S!store
  <2>4. steady' \subseteq steady \cap DOMAIN live'
    BY <1>1, <2>1, <2>2
  <2>5. QED BY <2>3, <2>4, WorldMoves
<1>6. QED BY <1>2, <1>3, <1>4, <1>5 DEF S!Next

\* sleipnir's invariant, for any number of shells and of directories.
THEOREM CountInvariance ==
  ASSUME IsFiniteSet(Dirs), RankCap \in Nat
  PROVE  ToolsSpec => [](tool = "sleipnir" => CountInv)
<1>1. ToolsInit => (tool = "sleipnir" => CountInv)
  BY CountInit DEF ToolsInit
<1>2. (tool = "sleipnir" => CountInv) /\ [ToolsNext]_run => (tool = "sleipnir" => CountInv)'
  BY ChosenSteps, CountStep
<1>3. QED BY <1>1, <1>2, PTL DEF ToolsSpec

(***************************************************************************)
(* However the visits and the maintenance of the shells interleave, and    *)
(* whatever comes and goes on disk, no visit of a directory that was never *)
(* missing is lost or counts twice, up to RANK_CAP visits in all.          *)
(***************************************************************************)
THEOREM VisitsCountedCorrect ==
  ASSUME IsFiniteSet(Dirs), RankCap \in Nat
  PROVE  ToolsSpec => []VisitsCounted
<1>1. (tool = "sleipnir" => CountInv) => VisitsCounted
  BY DEF VisitsCounted, CountInv, Counted, RankOf, S!VisitsCounted
<1>2. QED BY <1>1, CountInvariance, PTL

-----------------------------------------------------------------------------
(***************************************************************************)
(* Lists in order. ahead[a] is what goes before a: the list holds each     *)
(* element once, where as many come before it as are ahead of it.          *)
(***************************************************************************)
Ordered(T, ahead) == \A a \in T :
  /\ ahead[a] \subseteq T /\ a \notin ahead[a]
  /\ \A b \in T : /\ a = b \/ a \in ahead[b] \/ b \in ahead[a]
                  /\ b \in ahead[a] => ahead[b] \subseteq ahead[a]

InLine(T, ahead, q) ==
  /\ q \in [1..Cardinality(T) -> T]
  /\ \A i \in DOMAIN q : Cardinality(ahead[q[i]]) = i - 1

\* Each place in the order is taken.
LEMMA Placed ==
  ASSUME NEW T, IsFiniteSet(T), NEW ahead, Ordered(T, ahead)
  PROVE  /\ Cardinality(T) \in Nat
         /\ \A a \in T : Cardinality(ahead[a]) \in Nat /\ Cardinality(ahead[a]) < Cardinality(T)
         /\ \A a, b \in T : b \in ahead[a] => Cardinality(ahead[b]) < Cardinality(ahead[a])
         /\ \A i \in 1..Cardinality(T) : \E a \in T : Cardinality(ahead[a]) = i - 1
<1>1. PICK n \in Nat : n = Cardinality(T)
  BY FS_CardinalityType
<1>2. ASSUME NEW U, NEW W, U \subseteq W, W \subseteq T, NEW a \in W, a \notin U
      PROVE  Cardinality(U) \in Nat /\ Cardinality(W) \in Nat /\ Cardinality(U) < Cardinality(W)
  <2>1. IsFiniteSet(W)
    BY <1>2, FS_Subset
  <2>2. Cardinality(U) \in Nat /\ Cardinality(W) \in Nat /\ Cardinality(U) <= Cardinality(W)
    BY <1>2, <2>1, FS_Subset, FS_CardinalityType
  <2>3. Cardinality(U) # Cardinality(W)
    BY <1>2, <2>1, FS_Subset
  <2>4. QED BY <2>2, <2>3
<1>3. \A a \in T : Cardinality(ahead[a]) \in Nat /\ Cardinality(ahead[a]) < Cardinality(T)
  BY <1>2 DEF Ordered
<1>4. \A a, b \in T : b \in ahead[a] => Cardinality(ahead[b]) < Cardinality(ahead[a])
  BY <1>2 DEF Ordered
<1> DEFINE place == [a \in T |-> Cardinality(ahead[a]) + 1]
<1>5. \A a \in T : place[a] \in 1..n
  BY <1>1, <1>3
<1>6. ASSUME NEW a \in T, NEW b \in T, place[a] = place[b] PROVE a = b
  <2>1. Cardinality(ahead[a]) = Cardinality(ahead[b])
    BY <1>3, <1>6
  <2>2. a \notin ahead[b] /\ b \notin ahead[a]
    BY <1>3, <1>4, <2>1
  <2>3. QED BY <2>2 DEF Ordered
<1>7. place \in Injection(T, 1..n)
  <2>1. place \in [T -> 1..n]
    BY <1>5
  <2> HIDE DEF place
  <2>2. QED BY <1>6, <2>1 DEF Injection, IsInjective
<1>8. IsFiniteSet(1..n) /\ Cardinality(1..n) = n
  BY FS_Interval
<1> HIDE DEF place
<1>9. place \in Surjection(T, 1..n)
  BY <1>1, <1>7, <1>8, FS_Injection
<1>10. ASSUME NEW i \in 1..n PROVE \E a \in T : Cardinality(ahead[a]) = i - 1
  <2>1. PICK a \in T : place[a] = i
    BY <1>9 DEF Surjection
  <2>2. i = Cardinality(ahead[a]) + 1 /\ Cardinality(ahead[a]) \in Nat
    BY <1>3, <2>1 DEF place
  <2>3. QED BY <2>2
<1>11. QED BY <1>1, <1>3, <1>4, <1>10

\* A list in line holds everything, in order.
LEMMA Lined ==
  ASSUME NEW T, IsFiniteSet(T), NEW ahead, Ordered(T, ahead), NEW q, InLine(T, ahead, q)
  PROVE  /\ \A a \in T : \E i \in DOMAIN q : q[i] = a
         /\ \A i, j \in DOMAIN q : i < j => q[i] \in ahead[q[j]]
<1>1. /\ Cardinality(T) \in Nat
      /\ \A a \in T : Cardinality(ahead[a]) \in Nat /\ Cardinality(ahead[a]) < Cardinality(T)
      /\ \A a, b \in T : b \in ahead[a] => Cardinality(ahead[b]) < Cardinality(ahead[a])
  BY Placed
<1>2. \A a, b \in T : Cardinality(ahead[a]) = Cardinality(ahead[b]) => a = b
  BY <1>1 DEF Ordered
<1>3. ASSUME NEW a \in T PROVE \E i \in DOMAIN q : q[i] = a
  <2>1. PICK i \in Nat : i = Cardinality(ahead[a]) + 1
    BY <1>1
  <2>2. i \in DOMAIN q /\ i - 1 = Cardinality(ahead[a])
    BY <1>1, <2>1 DEF InLine
  <2>3. q[i] \in T /\ Cardinality(ahead[q[i]]) = Cardinality(ahead[a])
    BY <2>2 DEF InLine
  <2>4. QED BY <1>2, <2>2, <2>3
<1>4. ASSUME NEW i \in DOMAIN q, NEW j \in DOMAIN q, i < j PROVE q[i] \in ahead[q[j]]
  <2>1. /\ i \in Nat /\ j \in Nat /\ q[i] \in T /\ q[j] \in T
        /\ Cardinality(ahead[q[i]]) = i - 1 /\ Cardinality(ahead[q[j]]) = j - 1
    BY <1>1 DEF InLine
  <2>2. q[i] # q[j]
    BY <1>4, <2>1
  <2>3. q[j] \notin ahead[q[i]]
    BY <1>1, <1>4, <2>1
  <2>4. QED BY <2>1, <2>2, <2>3 DEF Ordered
<1>5. QED BY <1>3, <1>4

-----------------------------------------------------------------------------
(***************************************************************************)
(* munin: what is listed for a query. The pool is in line by the order of  *)
(* the sort, its first runs by their places, and the list is a prefix.     *)
(***************************************************************************)
history == v1
recorded == v2

USE DEF history, recorded

\* The copies of Cardinality and of lists in order mean the same.
LEMMA SameCardinality ==
  ASSUME NEW T
  PROVE  P!Cardinality(T) = Cardinality(T)
BY Zenon DEF P!Cardinality, Cardinality

\* Numbers in order, up and down.
Above(T) == [a \in T |-> {b \in T : b > a}]
Below(T) == [a \in T |-> {b \in T : b < a}]

LEMMA Falling ==
  ASSUME NEW T, T \subseteq Nat, IsFiniteSet(T)
  PROVE  Ordered(T, Above(T)) /\ InLine(T, Above(T), P!InOrder(T, >))
<1>1. \A a \in T : Above(T)[a] = {b \in T : b > a}
  BY DEF Above
<1>2. Ordered(T, Above(T))
  <2>1. ASSUME NEW a \in T PROVE Above(T)[a] \subseteq T /\ a \notin Above(T)[a]
    <3>1. a \in Nat
      OBVIOUS
    <3>2. QED BY <1>1, <3>1
  <2>2. ASSUME NEW a \in T, NEW b \in T
        PROVE  a = b \/ a \in Above(T)[b] \/ b \in Above(T)[a]
    <3>1. a = b \/ a > b \/ b > a
      <4>1. a \in Nat /\ b \in Nat
        OBVIOUS
      <4>2. QED BY <4>1
    <3>2. QED BY <1>1, <3>1
  <2>3. ASSUME NEW a \in T, NEW b \in Above(T)[a] PROVE Above(T)[b] \subseteq Above(T)[a]
    <3>1. ASSUME NEW e \in Above(T)[b] PROVE e \in Above(T)[a]
      <4>1. a \in Nat /\ b \in T /\ b \in Nat /\ e \in T /\ e \in Nat /\ b > a /\ e > b
        BY <1>1
      <4>2. e > a
        BY <4>1
      <4>3. QED BY <1>1, <4>1, <4>2
    <3>2. QED BY <3>1
  <2>4. QED BY <2>1, <2>2, <2>3 DEF Ordered
<1> DEFINE nth(i) == CHOOSE a \in T : P!Cardinality({b \in T : b > a}) = i - 1
           q == P!InOrder(T, >)
<1>3. q = [i \in 1..Cardinality(T) |-> nth(i)]
  <2>1. q = [i \in 1..P!Cardinality(T) |-> nth(i)]
    BY Zenon DEF P!InOrder
  <2>2. P!Cardinality(T) = Cardinality(T)
    BY SameCardinality
  <2> HIDE DEF nth, q
  <2>3. QED BY <2>1, <2>2
<1>4. ASSUME NEW i \in 1..Cardinality(T) PROVE nth(i) \in T /\ Cardinality(Above(T)[nth(i)]) = i - 1
  <2>1. PICK a \in T : Cardinality(Above(T)[a]) = i - 1
    BY <1>2, Placed
  <2>2. P!Cardinality({b \in T : b > a}) = i - 1
    BY <1>1, <2>1, SameCardinality
  <2>3. nth(i) \in T /\ P!Cardinality({b \in T : b > nth(i)}) = i - 1
    BY Zenon, <2>2
  <2> HIDE DEF nth
  <2>4. QED BY <1>1, <2>3, SameCardinality
<1> HIDE DEF nth, q
<1>5. InLine(T, Above(T), q)
  BY <1>3, <1>4 DEF InLine
<1>6. QED BY <1>2, <1>5 DEF q

LEMMA Rising ==
  ASSUME NEW T, T \subseteq Nat, IsFiniteSet(T)
  PROVE  Ordered(T, Below(T)) /\ InLine(T, Below(T), P!InOrder(T, <))
<1>1. \A a \in T : Below(T)[a] = {b \in T : b < a}
  BY DEF Below
<1>2. Ordered(T, Below(T))
  <2>1. ASSUME NEW a \in T PROVE Below(T)[a] \subseteq T /\ a \notin Below(T)[a]
    <3>1. a \in Nat
      OBVIOUS
    <3>2. QED BY <1>1, <3>1
  <2>2. ASSUME NEW a \in T, NEW b \in T
        PROVE  a = b \/ a \in Below(T)[b] \/ b \in Below(T)[a]
    <3>1. a = b \/ a < b \/ b < a
      <4>1. a \in Nat /\ b \in Nat
        OBVIOUS
      <4>2. QED BY <4>1
    <3>2. QED BY <1>1, <3>1
  <2>3. ASSUME NEW a \in T, NEW b \in Below(T)[a] PROVE Below(T)[b] \subseteq Below(T)[a]
    <3>1. ASSUME NEW e \in Below(T)[b] PROVE e \in Below(T)[a]
      <4>1. a \in Nat /\ b \in T /\ b \in Nat /\ e \in T /\ e \in Nat /\ b < a /\ e < b
        BY <1>1
      <4>2. e < a
        BY <4>1
      <4>3. QED BY <1>1, <4>1, <4>2
    <3>2. QED BY <3>1
  <2>4. QED BY <2>1, <2>2, <2>3 DEF Ordered
<1> DEFINE nth(i) == CHOOSE a \in T : P!Cardinality({b \in T : b < a}) = i - 1
           q == P!InOrder(T, <)
<1>3. q = [i \in 1..Cardinality(T) |-> nth(i)]
  <2>1. q = [i \in 1..P!Cardinality(T) |-> nth(i)]
    BY Zenon DEF P!InOrder
  <2>2. P!Cardinality(T) = Cardinality(T)
    BY SameCardinality
  <2> HIDE DEF nth, q
  <2>3. QED BY <2>1, <2>2
<1>4. ASSUME NEW i \in 1..Cardinality(T) PROVE nth(i) \in T /\ Cardinality(Below(T)[nth(i)]) = i - 1
  <2>1. PICK a \in T : Cardinality(Below(T)[a]) = i - 1
    BY <1>2, Placed
  <2>2. P!Cardinality({b \in T : b < a}) = i - 1
    BY <1>1, <2>1, SameCardinality
  <2>3. nth(i) \in T /\ P!Cardinality({b \in T : b < nth(i)}) = i - 1
    BY Zenon, <2>2
  <2> HIDE DEF nth
  <2>4. QED BY <1>1, <2>3, SameCardinality
<1> HIDE DEF nth, q
<1>5. InLine(T, Below(T), q)
  BY <1>3, <1>4 DEF InLine
<1>6. QED BY <1>2, <1>5 DEF q

\* The start of a list.
LEMMA StartOf ==
  ASSUME NEW T, NEW s \in Seq(T), NEW n \in Nat
  PROVE  P!FirstN(s, n) = [i \in 1..IF n <= Len(s) THEN n ELSE Len(s) |-> s[i]]
<1> DEFINE size == IF n <= Len(s) THEN n ELSE Len(s)
<1>1. Len(s) \in Nat
  OBVIOUS
<1>2. P!Min({n, Len(s)}) = size
  <2>1. P!Min({n, Len(s)}) = Min({n, Len(s)})
    BY DEF P!Min, Min
  <2>2. QED BY <1>1, <2>1, MinMaxOfTwo
<1>3. P!FirstN(s, n) = SubSeq(s, 1, size)
  BY <1>2 DEF P!FirstN
<1>4. size \in 0..Len(s)
  BY <1>1
<1>5. ASSUME NEW j \in 0..Len(s)
      PROVE  SubSeq(s, 1, j) = [i \in 1..j |-> s[i]]
  <2>1. /\ SubSeq(s, 1, j) \in Seq(T) /\ Len(SubSeq(s, 1, j)) = j
        /\ \A i \in 1..j : SubSeq(s, 1, j)[i] = s[i]
    BY <1>1
  <2>2. QED BY <2>1
<1>6. QED BY <1>3, <1>4, <1>5

(***************************************************************************)
(* The pool: the newest of what the filters let pass.                      *)
(***************************************************************************)
Entries == [cmd : Commands, passes : BOOLEAN]
Passing == {i \in DOMAIN history : history[i].passes}
Pool == {i \in Passing : Cardinality(Above(Passing)[i]) < PoolLimit}

LEMMA PoolListed ==
  ASSUME history \in Seq(Entries), PoolLimit \in Nat
  PROVE  /\ Passing \subseteq Nat /\ IsFiniteSet(Passing)
         /\ P!ToSet(P!ListNewest(PoolLimit)) = Pool
         /\ IsFiniteSet(Pool) /\ Cardinality(Pool) <= PoolLimit
<1> DEFINE n == Cardinality(Passing)
           newest == P!InOrder(Passing, >)
           top == P!FirstN(newest, PoolLimit)
           k == IF PoolLimit <= n THEN PoolLimit ELSE n
<1>1. Passing \subseteq Nat /\ IsFiniteSet(Passing)
  <2>1. PICK len \in Nat : len = Len(history) /\ DOMAIN history = 1..len
    OBVIOUS
  <2>2. Passing \subseteq 1..len
    BY <2>1 DEF Passing
  <2>3. IsFiniteSet(1..len)
    BY FS_Interval
  <2>4. IsFiniteSet(Passing)
    BY Zenon, <2>2, <2>3, FS_Subset
  <2>5. QED BY <2>2, <2>4
<1>2. n \in Nat /\ k \in 0..n /\ k <= PoolLimit
  BY <1>1, FS_CardinalityType
<1>3. Ordered(Passing, Above(Passing)) /\ InLine(Passing, Above(Passing), newest)
  BY <1>1, Falling
<1>4. P!ListNewest(PoolLimit) = top
  <2>1. P!Min({PoolLimit, PoolLimit}) = PoolLimit
    BY DEF P!Min
  <2>2. QED BY <2>1 DEF P!ListNewest, Passing
<1> HIDE DEF newest
<1>5. newest \in [1..n -> Passing] /\ \A i \in 1..n : Cardinality(Above(Passing)[newest[i]]) = i - 1
  BY <1>3 DEF InLine
<1> HIDE DEF n
<1>6. top \in [1..k -> Passing] /\ \A i \in 1..k : top[i] = newest[i]
  <2>1. k = IF PoolLimit <= n THEN PoolLimit ELSE n
    OBVIOUS
  <2> HIDE DEF k
  <2>2. n \in Nat /\ k \in Nat /\ newest \in [1..n -> Passing]
    BY <1>2, <1>5
  <2>3. newest \in Seq(Passing) /\ Len(newest) = n
    BY <2>2
  <2>4. top = [i \in 1..k |-> newest[i]]
    BY <2>1, <2>3, StartOf
  <2> HIDE DEF top
  <2>5. \A i \in 1..k : newest[i] \in Passing
    BY <1>2, <2>2
  <2>6. QED BY <2>4, <2>5
<1> HIDE DEF k, top
<1>7. ASSUME NEW i \in 1..k PROVE top[i] \in Pool
  <2>1. i \in 1..n /\ i - 1 < PoolLimit
    BY <1>2
  <2>2. QED BY <1>5, <1>6, <2>1 DEF Pool
<1>8. ASSUME NEW a \in Pool PROVE \E i \in 1..k : top[i] = a
  <2>1. PICK i \in DOMAIN newest : newest[i] = a
    BY <1>1, <1>3, Lined DEF Pool
  <2>2. i \in 1..n /\ i - 1 < PoolLimit
    BY <1>5, <2>1 DEF Pool
  <2>3. i \in 1..k
    BY <1>2, <2>2 DEF k
  <2>4. QED BY <1>6, <2>1, <2>3
<1>9. P!ToSet(P!ListNewest(PoolLimit)) = Pool
  BY <1>4, <1>6, <1>7, <1>8 DEF P!ToSet
<1>10. IsFiniteSet(Pool) /\ Cardinality(Pool) <= PoolLimit
  <2>1. top \in Surjection(1..k, Pool)
    BY <1>6, <1>7, <1>8 DEF Surjection
  <2>2. IsFiniteSet(1..k) /\ Cardinality(1..k) = k
    BY <1>2, FS_Interval
  <2>3. IsFiniteSet(Pool) /\ Cardinality(Pool) <= k
    BY <2>1, <2>2, FS_Surjection
  <2>4. Cardinality(Pool) \in Nat
    BY <2>3, FS_CardinalityType
  <2>5. QED BY <1>2, <2>3, <2>4
<1>11. QED BY <1>1, <1>9, <1>10
(***************************************************************************)
(* What matches, in the order of the sort.                                 *)
(***************************************************************************)
ScoreOf(q, i) == CommandScore[q][history[i].cmd]

GoesBefore(q, by, a, b) ==
  \/ by = "Relevance" /\ ScoreOf(q, a) > ScoreOf(q, b)
  \/ (by = "Recent" \/ ScoreOf(q, a) = ScoreOf(q, b)) /\ a > b

Matched(q) == {i \in Pool : ScoreOf(q, i) > 0}
Before(q, by) == [a \in Matched(q) |-> {b \in Matched(q) : GoesBefore(q, by, b, a)}]

Scored == \A q \in Queries, cmd \in Commands : CommandScore[q][cmd] \in Nat

LEMMA RankedInLine ==
  ASSUME history \in Seq(Entries), PoolLimit \in Nat, Scored,
         NEW q \in Queries, NEW by \in {"Relevance", "Recent"}
  PROVE  /\ IsFiniteSet(Matched(q)) /\ Ordered(Matched(q), Before(q, by))
         /\ InLine(Matched(q), Before(q, by), P!Ranked(q, by))
<1> DEFINE T == Matched(q)
           ahead == Before(q, by)
<1>1. /\ IsFiniteSet(T) /\ T \subseteq Pool /\ Pool \subseteq Passing /\ Passing \subseteq Nat
      /\ P!ToSet(P!ListNewest(PoolLimit)) = Pool
  <2>1. T \subseteq Pool /\ Pool \subseteq Passing
    BY DEF Matched, Pool
  <2>2. QED BY <2>1, PoolListed, FS_Subset
<1>2. \A a \in T : a \in Nat /\ ScoreOf(q, a) \in Nat
  <2>1. ASSUME NEW a \in T PROVE ScoreOf(q, a) \in Nat
    <3>1. history[a] \in Entries
      BY <1>1 DEF Passing
    <3>2. QED BY <3>1 DEF ScoreOf, Scored, Entries
  <2>2. QED BY <1>1, <2>1
<1>3. \A a \in T : ahead[a] = {b \in T : GoesBefore(q, by, b, a)}
  BY DEF Before
<1> HIDE DEF T, ahead
<1>4. Ordered(T, ahead)
  <2>1. ASSUME NEW a \in T PROVE ahead[a] \subseteq T /\ a \notin ahead[a]
    <3>1. ~GoesBefore(q, by, a, a)
      BY <1>2 DEF GoesBefore
    <3>2. QED BY <1>3, <3>1
  <2>2. ASSUME NEW a \in T, NEW b \in T
        PROVE  a = b \/ a \in ahead[b] \/ b \in ahead[a]
    <3>1. a = b \/ GoesBefore(q, by, a, b) \/ GoesBefore(q, by, b, a)
      BY <1>2 DEF GoesBefore
    <3>2. QED BY <1>3, <3>1
  <2>3. ASSUME NEW a \in T, NEW b \in ahead[a] PROVE ahead[b] \subseteq ahead[a]
    <3>1. ASSUME NEW e \in ahead[b] PROVE e \in ahead[a]
      <4>1. b \in T /\ e \in T /\ GoesBefore(q, by, b, a) /\ GoesBefore(q, by, e, b)
        BY <1>3
      <4>2. GoesBefore(q, by, e, a)
        BY <1>2, <4>1 DEF GoesBefore
      <4>3. QED BY <1>3, <4>1, <4>2
    <3>2. QED BY <3>1
  <2>4. QED BY <2>1, <2>2, <2>3 DEF Ordered
<1> DEFINE found == {id \in P!ToSet(P!ListNewest(PoolLimit)) : CommandScore[q][history[id].cmd] > 0}
           before(a, b) ==
             \/ by = "Relevance" /\ CommandScore[q][history[a].cmd] > CommandScore[q][history[b].cmd]
             \/ (by = "Recent" \/ CommandScore[q][history[a].cmd] = CommandScore[q][history[b].cmd]) /\ a > b
           nth(i) == CHOOSE a \in found : P!Cardinality({b \in found : before(b, a)}) = i - 1
           ranked == P!Ranked(q, by)
<1>5. ranked = [i \in 1..P!Cardinality(found) |-> nth(i)]
  BY Zenon DEF P!Ranked, P!InOrder
<1>6. found = T /\ P!Cardinality(found) = Cardinality(T)
  <2>1. found = T
    BY <1>1 DEF T, Matched, ScoreOf
  <2>2. QED BY <2>1, SameCardinality
<1>7. \A a, b : before(a, b) <=> GoesBefore(q, by, a, b)
  BY DEF GoesBefore, ScoreOf
<1> HIDE DEF found, before
<1>8. ASSUME NEW i \in 1..Cardinality(T) PROVE nth(i) \in T /\ Cardinality(ahead[nth(i)]) = i - 1
  <2>1. PICK a \in T : Cardinality(ahead[a]) = i - 1
    BY <1>1, <1>4, Placed
  <2>2. ASSUME NEW e \in T PROVE {b \in found : before(b, e)} = ahead[e]
    BY <1>3, <1>6, <1>7
  <2>3. P!Cardinality({b \in found : before(b, a)}) = i - 1
    BY <2>1, <2>2, SameCardinality
  <2>4. nth(i) \in found /\ P!Cardinality({b \in found : before(b, nth(i))}) = i - 1
    <3>1. a \in found
      BY <1>6
    <3>2. QED BY Zenon, <2>3, <3>1
  <2> HIDE DEF nth
  <2>5. QED BY <1>6, <2>2, <2>4, SameCardinality
<1> HIDE DEF nth, ranked
<1>9. InLine(T, ahead, ranked)
  BY <1>5, <1>6, <1>8 DEF InLine
<1>10. QED BY <1>1, <1>4, <1>9 DEF T, ahead, ranked

(***************************************************************************)
(* What is kept of a list: each command where it is first met.             *)
(***************************************************************************)
Firsts(ids) ==
  {i \in DOMAIN ids : \A j \in 1..i - 1 : history[ids[j]].cmd # history[ids[i]].cmd}

LEMMA FirstsKept ==
  ASSUME NEW m \in Nat, NEW ids, DOMAIN ids = 1..m
  PROVE  /\ IsFiniteSet(Firsts(ids)) /\ Firsts(ids) \subseteq 1..m /\ Cardinality(Firsts(ids)) <= m
         /\ \E first :
              /\ InLine(Firsts(ids), Below(Firsts(ids)), first)
              /\ P!Deduped(ids) = [i \in 1..Cardinality(Firsts(ids)) |-> ids[first[i]]]
<1> DEFINE kept == Firsts(ids)
           first == P!InOrder(kept, <)
<1>1. kept \subseteq 1..m /\ IsFiniteSet(1..m) /\ Cardinality(1..m) = m
  BY FS_Interval DEF Firsts
<1>2. IsFiniteSet(kept) /\ Cardinality(kept) <= m
  BY <1>1, FS_Subset
<1>3. InLine(kept, Below(kept), first)
  <2> HIDE DEF kept
  <2>1. kept \subseteq Nat
    BY <1>1
  <2>2. QED BY Zenon, <1>2, <2>1, Rising
<1>4. P!Deduped(ids) = [i \in DOMAIN first |-> ids[first[i]]]
  BY Zenon DEF P!Deduped, Firsts
<1> HIDE DEF first, kept
<1>5. DOMAIN first = 1..Cardinality(kept)
  BY <1>3 DEF InLine
<1>6. QED BY <1>1, <1>2, <1>3, <1>4, <1>5 DEF kept

(***************************************************************************)
(* The search lists what P!NewestOfEach says, of all that is recorded.     *)
(***************************************************************************)
ListedRight(q, by, listed) ==
  LET matching == {i \in Passing : ScoreOf(q, i) > 0}
  IN /\ listed \subseteq Matched(q)
     /\ \A i \in listed : \A j \in matching : history[j].cmd = history[i].cmd => j <= i
     /\ \A j \in Matched(q) :
          \/ \E i \in listed : history[i].cmd = history[j].cmd
          \/ Cardinality(listed) = Limit /\ \A i \in listed : GoesBefore(q, by, i, j)

LEMMA SearchLists ==
  ASSUME history \in Seq(Entries), Limit \in Nat, PoolLimit \in Nat, Scored,
         NEW q \in Queries, NEW by \in {"Relevance", "Recent"}, q # Everything
  PROVE  /\ ListedRight(q, by, P!ToSet(P!Search(q, by)))
         /\ \E k \in Nat : DOMAIN P!Search(q, by) = 1..k /\ Len(P!Search(q, by)) = k
<1> DEFINE T == Matched(q)
           ahead == Before(q, by)
           ranked == P!Ranked(q, by)
           m == Cardinality(T)
           kept == Firsts(ranked)
           n == Cardinality(kept)
           upto == IF Limit <= PoolLimit THEN Limit ELSE PoolLimit
           k == IF upto <= n THEN upto ELSE n
           list == P!Search(q, by)
<1>1. /\ Passing \subseteq Nat /\ IsFiniteSet(Passing) /\ T \subseteq Pool
      /\ IsFiniteSet(T) /\ m \in Nat /\ m <= PoolLimit
  <2>1. /\ Passing \subseteq Nat /\ IsFiniteSet(Passing)
        /\ IsFiniteSet(Pool) /\ Cardinality(Pool) <= PoolLimit /\ Cardinality(Pool) \in Nat
    BY PoolListed, FS_CardinalityType
  <2>2. T \subseteq Pool
    BY DEF Matched
  <2>3. IsFiniteSet(T) /\ m <= Cardinality(Pool) /\ m \in Nat
    BY <2>1, <2>2, FS_Subset, FS_CardinalityType
  <2> HIDE DEF T, m
  <2>4. QED BY <2>1, <2>2, <2>3
<1>2. Ordered(T, ahead) /\ InLine(T, ahead, ranked)
  BY RankedInLine
<1>3. ranked \in [1..m -> T] /\ \A i \in 1..m : Cardinality(ahead[ranked[i]]) = i - 1
  BY <1>2 DEF InLine
<1>4. /\ \A a \in T : \E i \in 1..m : ranked[i] = a
      /\ \A i, j \in 1..m : i < j => ranked[i] \in ahead[ranked[j]]
  <2> HIDE DEF T, ahead, ranked, m
  <2>1. DOMAIN ranked = 1..m
    BY <1>3
  <2>2. /\ \A a \in T : \E i \in DOMAIN ranked : ranked[i] = a
        /\ \A i, j \in DOMAIN ranked : i < j => ranked[i] \in ahead[ranked[j]]
    BY <1>1, <1>2, Lined
  <2>3. QED BY <2>1, <2>2
<1>5. \A a \in T : ahead[a] = {b \in T : GoesBefore(q, by, b, a)}
  BY DEF Before
<1>6. /\ IsFiniteSet(kept) /\ kept \subseteq 1..m /\ n <= m /\ n \in Nat
      /\ \E first : /\ InLine(kept, Below(kept), first)
                    /\ P!Deduped(ranked) = [i \in 1..n |-> ranked[first[i]]]
  <2>1. DOMAIN ranked = 1..m
    BY <1>3
  <2> HIDE DEF ranked, m
  <2>2. QED BY <1>1, <2>1, FirstsKept, FS_CardinalityType
<1>7. PICK first : /\ InLine(kept, Below(kept), first)
                   /\ P!Deduped(ranked) = [i \in 1..n |-> ranked[first[i]]]
  BY <1>6
<1>8. /\ first \in [1..n -> kept]
      /\ \A f \in kept : \E i \in 1..n : first[i] = f
      /\ \A i, j \in 1..n : i < j => first[i] < first[j]
  <2>1. first \in [1..n -> kept]
    BY <1>7 DEF InLine
  <2>2. Ordered(kept, Below(kept)) /\ kept \subseteq Nat
    <3> HIDE DEF kept
    <3>1. kept \subseteq Nat
      BY <1>1, <1>6
    <3>2. QED BY Zenon, <1>6, <3>1, Rising
  <2> HIDE DEF kept, n
  <2>3. /\ \A f \in kept : \E i \in DOMAIN first : first[i] = f
        /\ \A i, j \in DOMAIN first : i < j => first[i] \in Below(kept)[first[j]]
    BY <1>6, <1>7, <2>2, Lined
  <2>4. ASSUME NEW i \in 1..n, NEW j \in 1..n, i < j PROVE first[i] < first[j]
    <3>1. first[i] \in Below(kept)[first[j]] /\ first[j] \in kept
      BY <2>1, <2>3, <2>4
    <3>2. QED BY <3>1 DEF Below
  <2>5. QED BY <2>1, <2>3, <2>4
<1>9. k \in 0..n /\ k \in Nat /\ upto \in Nat
  BY <1>6
<1>10. list = [i \in 1..k |-> ranked[first[i]]]
  <2> DEFINE deduped == P!Deduped(ranked)
  <2>1. P!Min({Limit, PoolLimit}) = upto
    <3>1. P!Min({Limit, PoolLimit}) = Min({Limit, PoolLimit})
      BY DEF P!Min, Min
    <3>2. QED BY <3>1, MinMaxOfTwo
  <2>2. list = P!FirstN(deduped, P!Min({Limit, PoolLimit}))
    BY Zenon DEF P!Search
  <2> HIDE DEF list, ranked, kept, m, n, T, deduped
  <2>3. deduped = [i \in 1..n |-> ranked[first[i]]]
    BY <1>7 DEF deduped
  <2>4. \A i \in 1..n : ranked[first[i]] \in T
    BY <1>3, <1>6, <1>8
  <2>5. deduped \in Seq(T) /\ Len(deduped) = n
    BY <1>6, <2>3, <2>4
  <2> HIDE DEF upto
  <2>6. list = [i \in 1..k |-> deduped[i]]
    BY <1>9, <2>1, <2>2, <2>5, StartOf
  <2>7. \A i \in 1..k : deduped[i] = ranked[first[i]]
    BY <1>6, <1>9, <2>3
  <2> HIDE DEF k
  <2>8. QED BY <2>6, <2>7
<1>11. \A i \in 1..k : list[i] \in T /\ list[i] = ranked[first[i]] /\ first[i] \in 1..m /\ first[i] \in kept
  <2> HIDE DEF list, ranked, kept, m, n, T, k
  <2>1. ASSUME NEW i \in 1..k
        PROVE  list[i] \in T /\ list[i] = ranked[first[i]] /\ first[i] \in 1..m /\ first[i] \in kept
    <3>1. i \in 1..n
      BY <1>6, <1>9
    <3>2. first[i] \in kept /\ first[i] \in 1..m
      BY <1>6, <1>8, <3>1
    <3>3. list[i] = ranked[first[i]]
      BY <1>10
    <3>4. QED BY <1>3, <3>2, <3>3
  <2>2. QED BY <2>1
<1>12. P!ToSet(list) = {list[i] : i \in 1..k}
  <2> HIDE DEF list, k
  <2>1. DOMAIN list = 1..k
    BY <1>10
  <2>2. QED BY <2>1 DEF P!ToSet
<1>13. P!ToSet(list) \subseteq T
  <2> HIDE DEF list, k, T
  <2>1. QED BY <1>11, <1>12
<1>14. \A i \in kept : \A j \in 1..i - 1 : history[ranked[j]].cmd # history[ranked[i]].cmd
  BY DEF Firsts
<1>15. ASSUME NEW i \in T, NEW j \in Passing, ScoreOf(q, j) > 0, history[j].cmd = history[i].cmd, i < j
       PROVE  j \in ahead[i]
  <2>1. i \in Passing /\ i \in Nat /\ j \in Nat /\ Cardinality(Above(Passing)[i]) < PoolLimit
    BY <1>1 DEF Pool
  <2>2. Ordered(Passing, Above(Passing))
    BY Zenon, <1>1, Falling
  <2>3. j \in Above(Passing)[i]
    BY <1>15, <2>1 DEF Above
  <2>4. /\ Cardinality(Above(Passing)[j]) < Cardinality(Above(Passing)[i])
        /\ Cardinality(Above(Passing)[j]) \in Nat /\ Cardinality(Above(Passing)[i]) \in Nat
    BY <1>1, <2>1, <2>2, <2>3, Placed
  <2>5. j \in Pool
    BY <2>1, <2>4 DEF Pool
  <2>6. j \in T
    BY <1>15, <2>5 DEF Matched
  <2>7. GoesBefore(q, by, j, i)
    BY <1>15, <2>1 DEF GoesBefore, ScoreOf
  <2> HIDE DEF T, ahead
  <2>8. QED BY <1>5, <2>6, <2>7
<1> HIDE DEF T, ahead, ranked, m, kept, n, list
<1>16. ASSUME NEW i \in P!ToSet(list), NEW j \in Passing, ScoreOf(q, j) > 0, history[j].cmd = history[i].cmd
       PROVE  j <= i
  <2>1. PICK a \in 1..k : list[a] = i
    BY <1>12
  <2>2. i \in T /\ i = ranked[first[a]] /\ first[a] \in 1..m /\ first[a] \in kept
    BY <1>11, <2>1
  <2>3. i \in Nat /\ j \in Nat
    <3>1. i \in Passing
      BY <1>1, <2>2 DEF Pool
    <3>2. QED BY <1>1, <3>1
  <2>4. SUFFICES ASSUME i < j PROVE FALSE
    BY <2>3
  <2>5. j \in ahead[i] /\ j \in T
    BY <1>5, <1>15, <1>16, <2>2, <2>4
  <2>6. PICK g \in 1..m : ranked[g] = j
    BY <1>4, <2>5
  <2>7. i \notin ahead[j]
    BY <1>2, <2>2, <2>5 DEF Ordered
  <2>8. g < first[a]
    BY <1>1, <1>4, <2>2, <2>3, <2>4, <2>6, <2>7
  <2>9. g \in 1..first[a] - 1
    BY <1>1, <2>2, <2>6, <2>8
  <2>10. QED BY <1>14, <1>16, <2>2, <2>6, <2>9
<1>17. ASSUME NEW j \in T, \A i \in P!ToSet(list) : history[i].cmd # history[j].cmd
       PROVE  Cardinality(P!ToSet(list)) = Limit /\ \A i \in P!ToSet(list) : GoesBefore(q, by, i, j)
  <2>1. PICK g \in 1..m : ranked[g] = j
    BY <1>4
  <2>2. PICK f \in 1..m : /\ history[ranked[f]].cmd = history[j].cmd
                          /\ \A e \in 1..m : history[ranked[e]].cmd = history[j].cmd => f <= e
    <3> DEFINE same == {e \in 1..m : history[ranked[e]].cmd = history[j].cmd}
    <3>1. same \subseteq Nat /\ same # {}
      BY <1>1, <2>1
    <3> HIDE DEF same
    <3>2. PICK f \in same : \A e \in same : f <= e
      BY <3>1, Least
    <3>3. QED BY <3>2 DEF same
  <2>3. f \in kept
    <3>1. \A e \in 1..f - 1 : history[ranked[e]].cmd # history[ranked[f]].cmd
      BY <1>1, <2>2
    <3>2. QED BY <1>3, <3>1 DEF kept, Firsts
  <2>4. PICK a \in 1..n : first[a] = f
    BY <1>8, <2>3
  <2>5. a \notin 1..k
    BY <1>11, <1>12, <1>17, <2>2, <2>4
  <2>6. k < a /\ k = Limit
    BY <1>1, <1>6, <1>9, <2>4, <2>5
  <2>7. ASSUME NEW i \in P!ToSet(list) PROVE GoesBefore(q, by, i, j)
    <3>1. PICK b \in 1..k : list[b] = i
      BY <1>12
    <3>2. b \in 1..n /\ b < a
      BY <1>6, <1>9, <2>4, <2>6
    <3>3. first[b] < f /\ i = ranked[first[b]] /\ first[b] \in 1..m
      BY <1>8, <1>11, <2>4, <3>1, <3>2
    <3>4. f <= g
      BY <2>1, <2>2
    <3>5. first[b] < g
      BY <1>1, <3>3, <3>4
    <3>6. i \in ahead[j]
      BY <1>4, <2>1, <3>3, <3>5
    <3>7. QED BY <1>5, <3>6
  <2>8. Cardinality(P!ToSet(list)) = k
    <3>1. ASSUME NEW b \in 1..k, NEW e \in 1..k, b < e PROVE list[b] # list[e]
      <4>1. b \in 1..n /\ e \in 1..n
        BY <1>6, <1>9
      <4>2. first[b] < first[e] /\ first[b] \in 1..m /\ first[e] \in 1..m
        BY <1>8, <1>11, <3>1, <4>1
      <4>3. list[b] \in ahead[list[e]] /\ list[e] \in T
        BY <1>4, <1>11, <4>2
      <4>4. QED BY <1>2, <4>3 DEF Ordered
    <3>2. \A b, e \in 1..k : list[b] = list[e] => b = e
      <4>1. \A b, e \in 1..k : b < e \/ e < b \/ b = e
        BY <1>9
      <4>2. QED BY <3>1, <4>1
    <3>3. list \in Bijection(1..k, P!ToSet(list))
      <4> HIDE DEF k
      <4>1. list \in [1..k -> P!ToSet(list)]
        BY <1>10, <1>12
      <4>2. \A b \in P!ToSet(list) : \E e \in 1..k : list[e] = b
        BY <1>12
      <4>3. QED BY <3>2, <4>1, <4>2 DEF Bijection, Injection, Surjection, IsInjective
    <3>4. IsFiniteSet(1..k) /\ Cardinality(1..k) = k
      <4> HIDE DEF k
      <4>1. QED BY <1>9, FS_Interval
    <3>5. ExistsBijection(1..k, P!ToSet(list))
      BY <3>3 DEF ExistsBijection
    <3>6. QED BY <3>4, <3>5, FS_Bijection
  <2>9. QED BY <2>6, <2>7, <2>8
<1>18. ListedRight(q, by, P!ToSet(list))
  BY <1>13, <1>16, <1>17 DEF ListedRight, T
<1>19. DOMAIN list = 1..k /\ Len(list) = k /\ k \in Nat
  <2> HIDE DEF k
  <2>1. QED BY <1>9, <1>10
<1>20. QED BY <1>18, <1>19 DEF list

(***************************************************************************)
(* What P!NewestOfEach says of the first n entries of h.                   *)
(***************************************************************************)
Matching(h, n, q) == {i \in 1..n : h[i].passes /\ CommandScore[q][h[i].cmd] > 0}
Newest(h, n, q) ==
  {i \in Matching(h, n, q) : Cardinality({j \in i + 1..n : h[j].passes}) < PoolLimit}

Lists(h, n, q, by, listed) ==
  LET before(a, b) ==
        \/ by = "Relevance" /\ CommandScore[q][h[a].cmd] > CommandScore[q][h[b].cmd]
        \/ (by = "Recent" \/ CommandScore[q][h[a].cmd] = CommandScore[q][h[b].cmd]) /\ a > b
  IN /\ listed \subseteq Newest(h, n, q)
     /\ \A i \in listed : \A j \in Matching(h, n, q) : h[j].cmd = h[i].cmd => j <= i
     /\ \A j \in Newest(h, n, q) :
          \/ \E i \in listed : h[i].cmd = h[j].cmd
          \/ Cardinality(listed) = Limit /\ \A i \in listed : before(i, j)

\* A search lists that of all entries,
LEMMA SearchListsAll ==
  ASSUME history \in Seq(Entries), Limit \in Nat, PoolLimit \in Nat, Scored,
         NEW q \in Queries, NEW by \in {"Relevance", "Recent"}, q # Everything
  PROVE  Lists(history, Len(history), q, by, P!ToSet(P!Search(q, by)))
<1> DEFINE listed == P!ToSet(P!Search(q, by))
<1>1. ListedRight(q, by, listed)
  BY SearchLists
<1>2. PICK n \in Nat : n = Len(history) /\ DOMAIN history = 1..n
  OBVIOUS
<1>3. Matching(history, n, q) = {i \in Passing : ScoreOf(q, i) > 0}
  BY <1>2 DEF Matching, Passing, ScoreOf
<1>4. ASSUME NEW i \in Passing PROVE {j \in i + 1..n : history[j].passes} = Above(Passing)[i]
  <2>1. i \in 1..n
    BY <1>2 DEF Passing
  <2>2. Above(Passing)[i] = {j \in Passing : j > i}
    BY DEF Above
  <2>3. {j \in i + 1..n : history[j].passes} = {j \in Passing : j > i}
    <3>1. \A j \in 1..n : j > i <=> j \in i + 1..n
      BY <2>1
    <3>2. i + 1..n \subseteq 1..n
      BY <2>1
    <3>3. Passing = {j \in 1..n : history[j].passes}
      BY <1>2 DEF Passing
    <3>4. QED BY <3>1, <3>2, <3>3
  <2>4. QED BY <2>2, <2>3
<1>5. Newest(history, n, q) = Matched(q)
  <2>1. Matched(q) = {i \in Passing : ScoreOf(q, i) > 0 /\ Cardinality(Above(Passing)[i]) < PoolLimit}
    BY DEF Matched, Pool
  <2>2. QED BY <1>3, <1>4, <2>1 DEF Newest
<1> HIDE DEF listed
<1>6. Lists(history, n, q, by, listed)
  BY <1>1, <1>3, <1>5 DEF Lists, ListedRight, GoesBefore, ScoreOf
<1>7. QED BY <1>2, <1>6 DEF listed

\* and still does when more are recorded.
LEMMA ListsEarlier ==
  ASSUME NEW h, NEW g, NEW n \in Nat, \A i \in 1..n : g[i] = h[i], NEW q, NEW by, NEW listed,
         Lists(h, n, q, by, listed)
  PROVE  Lists(g, n, q, by, listed)
<1>1. Matching(g, n, q) = Matching(h, n, q)
  BY DEF Matching
<1>2. Newest(g, n, q) = Newest(h, n, q)
  <2>1. ASSUME NEW i \in 1..n PROVE {j \in i + 1..n : g[j].passes} = {j \in i + 1..n : h[j].passes}
    <3>1. i + 1..n \subseteq 1..n
      OBVIOUS
    <3>2. QED BY <3>1
  <2>2. Matching(h, n, q) \subseteq 1..n
    BY DEF Matching
  <2>3. QED BY <1>1, <2>1, <2>2 DEF Newest
<1>3. /\ Matching(h, n, q) \subseteq 1..n /\ Newest(h, n, q) \subseteq 1..n
      /\ listed \subseteq 1..n
  BY DEF Matching, Newest, Lists
<1>4. QED BY <1>1, <1>2, <1>3 DEF Lists

\* A list turned around lists the same.
LEMMA TurnedAround ==
  ASSUME NEW s, NEW k \in Nat, DOMAIN s = 1..k, Len(s) = k
  PROVE  P!ToSet(P!Reverse(s)) = P!ToSet(s)
<1>1. P!Reverse(s) = [i \in 1..k |-> s[(k - i) + 1]]
  BY DEF P!Reverse
<1>2. DOMAIN P!Reverse(s) = 1..k /\ \A i \in 1..k : P!Reverse(s)[i] = s[(k - i) + 1]
  BY <1>1
<1>3. \A i \in 1..k : (k - i) + 1 \in 1..k /\ (k - ((k - i) + 1)) + 1 = i
  OBVIOUS
<1>4. ASSUME NEW e \in P!ToSet(s) PROVE e \in P!ToSet(P!Reverse(s))
  <2>1. PICK i \in 1..k : s[i] = e
    BY DEF P!ToSet
  <2>2. P!Reverse(s)[(k - i) + 1] = e /\ (k - i) + 1 \in 1..k
    BY <1>2, <1>3, <2>1
  <2>3. QED BY <1>2, <2>2 DEF P!ToSet
<1>5. ASSUME NEW e \in P!ToSet(P!Reverse(s)) PROVE e \in P!ToSet(s)
  <2>1. PICK i \in 1..k : P!Reverse(s)[i] = e
    BY <1>2 DEF P!ToSet
  <2>2. s[(k - i) + 1] = e /\ (k - i) + 1 \in 1..k
    BY <1>2, <1>3, <2>1
  <2>3. QED BY <2>2 DEF P!ToSet
<1>6. QED BY <1>4, <1>5

(***************************************************************************)
(* The list was right for the entries there were when it was made, and     *)
(* those stay as they are.                                                 *)
(***************************************************************************)
SearchInv ==
  /\ history \in Seq(Entries) /\ recorded \in 0..Len(history)
  /\ query \in Queries /\ sort \in {"Relevance", "Recent"}
  /\ query # Everything => Lists(history, recorded, query, sort, P!ToSet(results))

\* What the run checks is that.
LEMMA ListsIsNewest ==
  ASSUME query # Everything => Lists(history, recorded, query, sort, P!ToSet(results))
  PROVE  P!NewestOfEach
BY SameCardinality DEF P!NewestOfEach, Lists, Newest, Matching

SearchAssumption ==
  /\ Everything \in Queries /\ Limit \in Nat /\ PoolLimit \in Nat /\ Scored

\* refresh_results makes it right, for all entries.
LEMMA RefreshLists ==
  ASSUME SearchAssumption, SearchInv, NEW q \in Queries, NEW by \in {"Relevance", "Recent"},
         P!Refresh(q, by), history' = history
  PROVE  SearchInv'
<1>1. query' = q /\ sort' = by /\ recorded' = Len(history) /\ Len(history) \in Nat
  BY DEF P!Refresh, SearchInv
<1>2. CASE q # Everything
  <2>1. Lists(history, Len(history), q, by, P!ToSet(P!Search(q, by)))
    BY <1>2, SearchListsAll DEF SearchAssumption, SearchInv
  <2>2. \E k \in Nat : DOMAIN P!Search(q, by) = 1..k /\ Len(P!Search(q, by)) = k
    BY <1>2, SearchLists DEF SearchAssumption, SearchInv
  <2>3. P!ToSet(P!Reverse(P!Search(q, by))) = P!ToSet(P!Search(q, by))
    BY <2>2, TurnedAround
  <2>4. P!ToSet(results') = P!ToSet(P!Search(q, by))
    BY <2>3 DEF P!Refresh
  <2>5. Lists(history', recorded', query', sort', P!ToSet(results'))
    BY <1>1, <2>1, <2>4
  <2>6. QED BY <1>1, <2>5 DEF SearchInv
<1>3. CASE q = Everything
  BY <1>1, <1>3 DEF SearchInv
<1>4. QED BY <1>2, <1>3

\* Each step keeps it so.
THEOREM SearchInvariance ==
  ASSUME SearchAssumption
  PROVE  ToolsSpec => [](tool = "munin" => SearchInv)
<1>1. ToolsInit => (tool = "munin" => SearchInv)
  <2>1. SUFFICES ASSUME ToolsInit, tool = "munin" PROVE SearchInv
    OBVIOUS
  <2>2. P!Init
    BY <2>1 DEF ToolsInit
  <2>3. history = <<>> /\ recorded = 0 /\ query = Everything /\ sort = "Relevance"
    BY <2>2 DEF P!Init
  <2>4. QED BY <2>3 DEF SearchInv, SearchAssumption
<1>2. (tool = "munin" => SearchInv) /\ [ToolsNext]_run => (tool = "munin" => SearchInv)'
  <2>1. SUFFICES ASSUME tool = "munin" => SearchInv, [ToolsNext]_run, tool' = "munin" PROVE SearchInv'
    OBVIOUS
  <2>2. SearchInv /\ [P!Next]_(P!vars)
    BY <2>1, ChosenSteps
  <2>3. PICK n \in Nat : Len(history) = n
    BY <2>2 DEF SearchInv
  <2>4. CASE P!Record
    <3>1. PICK cmd \in Commands, passes \in BOOLEAN :
            history' = Append(history, [cmd |-> cmd, passes |-> passes])
      BY <2>4 DEF P!Record
    <3>2. /\ history' \in Seq(Entries) /\ Len(history') = n + 1
          /\ \A i \in 1..n : history'[i] = history[i]
      BY <2>2, <2>3, <3>1 DEF SearchInv, Entries
    <3>3. UNCHANGED <<query, sort, results, recorded>>
      BY <2>4 DEF P!Record
    <3>4. recorded \in Nat /\ \A i \in 1..recorded : history'[i] = history[i]
      BY <2>2, <2>3, <3>2 DEF SearchInv
    <3>5. query' # Everything => Lists(history', recorded', query', sort', P!ToSet(results'))
      BY <2>2, <3>3, <3>4, ListsEarlier DEF SearchInv
    <3>6. QED BY <2>2, <2>3, <3>2, <3>3, <3>5 DEF SearchInv
  <2>5. CASE P!EditQuery
    BY <2>2, <2>5, RefreshLists DEF P!EditQuery, SearchInv
  <2>6. CASE P!CycleSort
    BY <2>2, <2>6, RefreshLists DEF P!CycleSort, SearchInv
  <2>7. CASE P!Move
    BY <2>2, <2>7 DEF P!Move, SearchInv
  <2>8. CASE P!Leave
    BY <2>2, <2>8 DEF P!Leave, SearchInv
  <2>9. CASE UNCHANGED P!vars
    BY <2>2, <2>9 DEF P!vars, SearchInv
  <2>10. QED BY <2>2, <2>4, <2>5, <2>6, <2>7, <2>8, <2>9 DEF P!Next
<1>3. QED BY <1>1, <1>2, PTL DEF ToolsSpec

(***************************************************************************)
(* munin's search lists the newest run of each command that matches, and a *)
(* command of the pool is left out only for a full list of commands that   *)
(* go before it.                                                           *)
(***************************************************************************)
THEOREM NewestOfEachCorrect ==
  ASSUME SearchAssumption
  PROVE  ToolsSpec => []NewestOfEach
<1>1. (tool = "munin" => SearchInv) => NewestOfEach
  BY ListsIsNewest DEF SearchInv, NewestOfEach
<1>2. QED BY <1>1, SearchInvariance, PTL

-----------------------------------------------------------------------------
(* heimdall's. *)
waiting == v5
found == v6
known == v8
lastHeard == v10

USE DEF waiting, found, known, lastHeard

(***************************************************************************)
(* heimdall: a device that grows keeps its name and its services.          *)
(***************************************************************************)
Numbered(s) == \E n \in Nat : s = [i \in 1..n |-> s[i]]

Device(d) ==
  /\ d = [mac |-> d.mac, vendor |-> d.vendor, hostname |-> d.hostname,
          services |-> d.services, ports |-> d.ports, at |-> d.at]
  /\ d.at \in Nat /\ Numbered(d.services)

Begins(s, t) == Len(s) <= Len(t) /\ \A i \in 1..Len(s) : s[i] = t[i]

Grown(d, e) ==
  /\ Device(e) /\ d.at <= e.at
  /\ e.hostname = d.hostname \/ d.hostname = Nothing
  /\ Begins(d.services, e.services)

\* What Append makes of a list, whatever it holds.
LEMMA Appended ==
  ASSUME NEW n \in Nat, NEW s, s = [i \in 1..n |-> s[i]], NEW e
  PROVE  /\ Len(s) = n
         /\ Append(s, e) = [i \in 1..n + 1 |-> IF i = n + 1 THEN e ELSE s[i]]
         /\ Len(Append(s, e)) = n + 1
<1> DEFINE T == {s[i] : i \in 1..n} \cup {e}
<1>1. s \in [1..n -> T]
  OBVIOUS
<1> HIDE DEF T
<1>2. s \in Seq(T) /\ Len(s) = n
  BY <1>1
<1>3. e \in T
  BY DEF T
<1>4. /\ Append(s, e) \in Seq(T) /\ Len(Append(s, e)) = n + 1
      /\ \A i \in 1..n + 1 : Append(s, e)[i] = IF i = n + 1 THEN e ELSE s[i]
  BY <1>2, <1>3
<1>5. Append(s, e) = [i \in 1..n + 1 |-> IF i = n + 1 THEN e ELSE s[i]]
  BY <1>4
<1>6. QED BY <1>2, <1>4, <1>5

\* Growing twice is growing.
LEMMA GrownTwice ==
  ASSUME NEW d, NEW e, NEW g, Device(d), Grown(d, e), Grown(e, g)
  PROVE  Grown(d, g)
<1>1. PICK i, j, k \in Nat : Len(d.services) = i /\ Len(e.services) = j /\ Len(g.services) = k
  BY Appended DEF Device, Grown, Numbered
<1>2. Begins(d.services, g.services)
  BY <1>1 DEF Grown, Begins
<1>3. d.at <= g.at /\ Device(g)
  BY DEF Grown, Device
<1>4. g.hostname = d.hostname \/ d.hostname = Nothing
  BY DEF Grown
<1>5. QED BY <1>2, <1>3, <1>4 DEF Grown

\* A sighting makes a device grow.
LEMMA MergedGrows ==
  ASSUME NEW d, Device(d), NEW s, clock \in Nat, d.at <= clock
  PROVE  /\ Grown(d, D!Merged(d, s)) /\ D!Merged(d, s).at = clock
         /\ Device(D!Merged(d, s))
<1> DEFINE e == D!Merged(d, s)
<1>1. /\ e = [mac |-> e.mac, vendor |-> e.vendor, hostname |-> e.hostname,
              services |-> e.services, ports |-> e.ports, at |-> e.at]
      /\ e.hostname = D!Or(d.hostname, s.hostname) /\ e.at = clock
  <2>1. DOMAIN d = {"mac", "vendor", "hostname", "services", "ports", "at"}
    BY DEF Device
  <2>2. e = [x \in {"mac", "vendor", "hostname", "services", "ports", "at"} |-> e[x]]
    BY <2>1 DEF D!Merged
  <2>3. e.hostname = D!Or(d.hostname, s.hostname) /\ e.at = clock
    BY <2>1 DEF D!Merged
  <2> HIDE DEF e
  <2>4. QED BY <2>2, <2>3
<1>2. e.services = d.services \/ e.services = Append(d.services, s.service)
  BY DEF D!Merged, Device
<1>3. PICK n \in Nat : d.services = [i \in 1..n |-> d.services[i]]
  BY DEF Device, Numbered
<1>4. Numbered(e.services) /\ Begins(d.services, e.services)
  <2>1. /\ Len(d.services) = n
        /\ Append(d.services, s.service) = [i \in 1..n + 1 |-> IF i = n + 1 THEN s.service ELSE d.services[i]]
        /\ Len(Append(d.services, s.service)) = n + 1
    BY <1>3, Appended
  <2>2. CASE e.services = d.services
    BY <1>3, <2>1, <2>2 DEF Numbered, Begins
  <2>3. CASE e.services = Append(d.services, s.service)
    <3>1. n + 1 \in Nat /\ e.services = [i \in 1..n + 1 |-> e.services[i]]
      BY <2>1, <2>3
    <3>2. Begins(d.services, e.services)
      BY <2>1, <2>3 DEF Begins
    <3>3. QED BY <3>1, <3>2 DEF Numbered
  <2>4. QED BY <1>2, <2>2, <2>3
<1> HIDE DEF e
<1>5. e.at = clock /\ (e.hostname = d.hostname \/ d.hostname = Nothing)
  BY <1>1 DEF D!Or
<1>6. Device(e)
  <2>1. QED BY <1>1, <1>4, <1>5 DEF Device
<1>7. QED BY <1>4, <1>5, <1>6 DEF Grown, e

(***************************************************************************)
(* What waits is merged one by one.                                        *)
(***************************************************************************)
Drains(g, n) ==
  /\ g[0] = known
  /\ \A i \in 1..n : g[i] = D!Merge(g[i - 1], waiting[i])

\* There is such a course,
LEMMA DrainExists ==
  ASSUME NEW n \in Nat
  PROVE  \E g : g = [i \in 0..n |-> IF i = 0 THEN known ELSE D!Merge(g[i - 1], waiting[i])]
<1> DEFINE Def(g, i) == IF i = 0 THEN known ELSE D!Merge(g[i - 1], waiting[i])
           Has(m) == \E g : g = [i \in 0..m |-> Def(g, i)]
           Bad == {m \in Nat : ~Has(m)}
<1>1. Bad = {}
  <2>1. SUFFICES ASSUME Bad # {} PROVE FALSE
    OBVIOUS
  <2>2. Bad \subseteq Nat
    OBVIOUS
  <2>3. PICK m \in Bad : \A j \in Bad : m <= j
    <3> HIDE DEF Bad
    <3> QED BY <2>1, <2>2, Least
  <2>4. m \in Nat /\ ~Has(m)
    BY <2>3
  <2>5. m # 0
    <3>1. SUFFICES ASSUME m = 0 PROVE Has(0)
      BY <2>4
    <3> DEFINE g == [i \in 0..0 |-> known]
    <3>2. g = [i \in 0..0 |-> Def(g, i)]
      OBVIOUS
    <3>3. QED BY <3>2
  <2>6. m - 1 \in Nat /\ m - 1 \notin Bad
    <3>1. m - 1 \in Nat /\ ~(m <= m - 1)
      BY <2>4, <2>5
    <3> HIDE DEF Bad
    <3>2. QED BY <2>3, <3>1
  <2>7. PICK g : g = [i \in 0..m - 1 |-> Def(g, i)]
    BY <2>6
  <2> DEFINE h == [i \in 0..m |-> Def(g, i)]
  <2>8. ASSUME NEW i \in 0..m PROVE h[i] = Def(h, i)
    <3>1. CASE i = 0
      BY <3>1
    <3>2. CASE i # 0
      <4>1. i - 1 \in 0..m - 1 /\ i - 1 \in 0..m
        BY <2>4, <3>2
      <4>2. g[i - 1] = Def(g, i - 1) /\ h[i - 1] = Def(g, i - 1)
        BY <2>7, <4>1
      <4>3. h[i] = D!Merge(g[i - 1], waiting[i]) /\ Def(h, i) = D!Merge(h[i - 1], waiting[i])
        BY <3>2
      <4>4. QED BY <4>2, <4>3
    <3>3. QED BY <3>1, <3>2
  <2>9. h = [i \in 0..m |-> Def(h, i)]
    <3>1. h = [i \in 0..m |-> h[i]]
      OBVIOUS
    <3> HIDE DEF h
    <3>2. QED BY <2>8, <3>1
  <2>10. QED BY <2>4, <2>9
<1>2. Has(n)
  BY <1>1
<1>3. QED BY <1>2

\* and Drained is where it ends.
LEMMA DrainedIs ==
  ASSUME NEW n \in Nat, Len(waiting) = n
  PROVE  \E g : Drains(g, n) /\ D!Drained(known) = g[n]
<1> DEFINE g == CHOOSE g : g = [i \in 0..n |-> IF i = 0 THEN known ELSE D!Merge(g[i - 1], waiting[i])]
<1>1. g = [i \in 0..n |-> IF i = 0 THEN known ELSE D!Merge(g[i - 1], waiting[i])]
  BY DrainExists
<1>2. D!Drained(known) = g[n]
  <2>1. D!Drained(known) =
          (CHOOSE f : f = [i \in 0..Len(waiting) |-> IF i = 0 THEN known ELSE D!Merge(f[i - 1], waiting[i])])[Len(waiting)]
    BY Zenon DEF D!Drained
  <2>2. QED BY <2>1
<1> HIDE DEF g
<1>3. Drains(g, n)
  BY <1>1 DEF Drains
<1>4. QED BY <1>2, <1>3

(***************************************************************************)
(* An entry is as new as what was heard of its address, or a sighting of   *)
(* it waits.                                                               *)
(***************************************************************************)
HeardInv ==
  /\ clock \in Nat /\ Numbered(waiting)
  /\ \A i \in 1..Len(waiting) : waiting[i].ip \in DOMAIN lastHeard
  /\ \A ip \in DOMAIN lastHeard : lastHeard[ip] \in 0..clock
  /\ \A ip \in DOMAIN known :
       /\ Device(known[ip]) /\ known[ip].at <= clock /\ ip \in DOMAIN lastHeard
       /\ \/ lastHeard[ip] <= known[ip].at
          \/ \E i \in 1..Len(waiting) : waiting[i].ip = ip

\* What the first i sightings make of the devices.
MergedUpTo(k, i) ==
  /\ \A ip \in DOMAIN k :
       /\ Device(k[ip]) /\ k[ip].at <= clock
       /\ ip \in DOMAIN known \/ \E j \in 1..i : waiting[j].ip = ip
  /\ \A ip \in DOMAIN known : ip \in DOMAIN k /\ Grown(known[ip], k[ip])
  /\ \A j \in 1..i : waiting[j].ip \in DOMAIN k /\ k[waiting[j].ip].at = clock

LEMMA GrownNot ==
  ASSUME NEW d, Device(d)
  PROVE  Grown(d, d)
<1>1. d.at <= d.at
  BY DEF Device
<1>2. QED BY <1>1, Appended DEF Device, Grown, Begins, Numbered

LEMMA MergeStep ==
  ASSUME HeardInv, NEW k, NEW i \in Nat, i + 1 <= Len(waiting), MergedUpTo(k, i)
  PROVE  MergedUpTo(D!Merge(k, waiting[i + 1]), i + 1)
<1> DEFINE s == waiting[i + 1]
           d == IF s.ip \in DOMAIN k THEN k[s.ip] ELSE D!NewDevice
           e == D!Merged(d, s)
           m == D!Merge(k, s)
<1>1. Device(d) /\ d.at <= clock /\ clock \in Nat
  <2>1. clock \in Nat
    BY DEF HeardInv
  <2>2. Device(D!NewDevice) /\ D!NewDevice.at <= clock
    <3>1. D!NewDevice.services = [j \in 1..0 |-> D!NewDevice.services[j]]
      BY DEF D!NewDevice
    <3>2. QED BY <2>1, <3>1 DEF Device, Numbered, D!NewDevice
  <2>3. QED BY <2>1, <2>2 DEF MergedUpTo
<1>2. Grown(d, e) /\ e.at = clock /\ Device(e)
  <2> HIDE DEF d
  <2>1. QED BY <1>1, MergedGrows
<1>3. m = [o \in DOMAIN k \cup {s.ip} |-> IF o = s.ip THEN e ELSE k[o]]
  BY DEF D!Merge, D!Put
<1>4. s.ip \in DOMAIN k => d = k[s.ip]
  OBVIOUS
<1> HIDE DEF d, e, m
<1>5. ASSUME NEW ip \in DOMAIN m
      PROVE  /\ Device(m[ip]) /\ m[ip].at <= clock
             /\ ip \in DOMAIN known \/ \E j \in 1..i + 1 : waiting[j].ip = ip
  <2>1. CASE ip = s.ip
    <3>1. i + 1 \in 1..i + 1
      OBVIOUS
    <3>2. QED BY <1>1, <1>2, <1>3, <2>1, <3>1
  <2>2. CASE ip # s.ip
    <3>1. m[ip] = k[ip] /\ ip \in DOMAIN k
      BY <1>3, <2>2
    <3>2. 1..i \subseteq 1..i + 1
      OBVIOUS
    <3>3. QED BY <3>1, <3>2 DEF MergedUpTo
  <2>3. QED BY <2>1, <2>2
<1>6. ASSUME NEW ip \in DOMAIN known PROVE ip \in DOMAIN m /\ Grown(known[ip], m[ip])
  <2>1. ip \in DOMAIN k /\ Grown(known[ip], k[ip]) /\ Device(known[ip])
    BY DEF MergedUpTo, HeardInv
  <2>2. CASE ip = s.ip
    BY <1>2, <1>3, <1>4, <2>1, <2>2, GrownTwice
  <2>3. CASE ip # s.ip
    BY <1>3, <2>1, <2>3
  <2>4. QED BY <2>2, <2>3
<1>7. ASSUME NEW j \in 1..i + 1 PROVE waiting[j].ip \in DOMAIN m /\ m[waiting[j].ip].at = clock
  <2>1. CASE waiting[j].ip = s.ip
    BY <1>2, <1>3, <2>1
  <2>2. CASE waiting[j].ip # s.ip
    <3>1. j \in 1..i
      BY <2>2
    <3>2. QED BY <1>3, <2>2, <3>1 DEF MergedUpTo
  <2>3. QED BY <2>1, <2>2
<1>8. MergedUpTo(m, i + 1)
  BY <1>5, <1>6, <1>7 DEF MergedUpTo
<1>9. QED BY <1>8 DEF m

LEMMA DrainKeeps ==
  ASSUME HeardInv, NEW n \in Nat, Len(waiting) = n
  PROVE  MergedUpTo(D!Drained(known), n)
<1>1. PICK g : Drains(g, n) /\ D!Drained(known) = g[n]
  BY DrainedIs
<1> DEFINE Bad == {i \in 0..n : ~MergedUpTo(g[i], i)}
<1>2. Bad = {}
  <2>1. SUFFICES ASSUME Bad # {} PROVE FALSE
    OBVIOUS
  <2>2. Bad \subseteq Nat
    OBVIOUS
  <2>3. PICK i \in Bad : \A j \in Bad : i <= j
    <3> HIDE DEF Bad
    <3> QED BY <2>1, <2>2, Least
  <2>4. i \in 0..n /\ ~MergedUpTo(g[i], i)
    BY <2>3
  <2>5. i # 0
    <3>1. MergedUpTo(known, 0)
      BY GrownNot DEF MergedUpTo, HeardInv
    <3>2. QED BY <1>1, <2>4, <3>1 DEF Drains
  <2>6. PICK j \in Nat : j \in 0..n /\ j + 1 = i
    <3>1. i - 1 \in Nat /\ i - 1 \in 0..n /\ (i - 1) + 1 = i
      BY <2>4, <2>5
    <3>2. QED BY <3>1
  <2>7. MergedUpTo(g[j], j)
    BY <2>3, <2>6
  <2>8. g[i] = D!Merge(g[j], waiting[i])
    <3>1. i \in 1..n /\ i - 1 = j
      BY <2>4, <2>5, <2>6
    <3>2. QED BY <1>1, <3>1 DEF Drains
  <2>9. MergedUpTo(g[i], i)
    BY <2>4, <2>6, <2>7, <2>8, MergeStep
  <2>10. QED BY <2>4, <2>9
<1>3. QED BY <1>1, <1>2

\* A scan's answer changes the ports alone.
LEMMA ScannedGrows ==
  ASSUME NEW k, \A ip \in DOMAIN k : Device(k[ip])
  PROVE  /\ DOMAIN D!Scanned(k) = DOMAIN k
         /\ \A ip \in DOMAIN k : Grown(k[ip], D!Scanned(k)[ip]) /\ D!Scanned(k)[ip].at = k[ip].at
<1>1. DOMAIN D!Scanned(k) = DOMAIN k
  BY DEF D!Scanned
<1>2. ASSUME NEW ip \in DOMAIN k
      PROVE  Grown(k[ip], D!Scanned(k)[ip]) /\ D!Scanned(k)[ip].at = k[ip].at
  <2>1. \E open : D!Scanned(k)[ip] = k[ip] \/ D!Scanned(k)[ip] = [k[ip] EXCEPT !.ports = open]
    BY DEF D!Scanned
  <2>2. PICK open : D!Scanned(k)[ip] = k[ip] \/ D!Scanned(k)[ip] = [k[ip] EXCEPT !.ports = open]
    BY <2>1
  <2> DEFINE d == k[ip]
             e == [d EXCEPT !.ports = open]
  <2>3. Device(d) /\ Grown(d, d)
    BY GrownNot
  <2>4. /\ e = [mac |-> d.mac, vendor |-> d.vendor, hostname |-> d.hostname,
                services |-> d.services, ports |-> open, at |-> d.at]
    BY <2>3 DEF Device
  <2> HIDE DEF d, e
  <2>5. Grown(d, e) /\ e.at = d.at
    BY <2>3, <2>4 DEF Grown, Device
  <2>6. QED BY <2>2, <2>3, <2>5 DEF d, e
<1>3. QED BY <1>1, <1>2

(***************************************************************************)
(* A frame keeps what was heard of within Drop, and lets it only grow.     *)
(***************************************************************************)
LEMMA FrameKeepsHeard ==
  ASSUME HeardInv, DropAfter \in Nat, D!Frame
  PROVE  /\ HeardInv'
         /\ \A ip \in DOMAIN known : clock - lastHeard[ip] < DropAfter =>
              ip \in DOMAIN known' /\ Grown(known[ip], known'[ip])
<1> DEFINE k == D!Drained(known)
           s == D!Scanned(k)
<1>1. PICK n \in Nat : Len(waiting) = n
  BY Appended DEF HeardInv, Numbered
<1>2. MergedUpTo(k, n)
  BY <1>1, DrainKeeps
<1> HIDE DEF k
<1>3. /\ DOMAIN s = DOMAIN k
      /\ \A ip \in DOMAIN k : Grown(k[ip], s[ip]) /\ s[ip].at = k[ip].at
  BY <1>2, ScannedGrows DEF MergedUpTo
<1> HIDE DEF s
<1>4. /\ known' = [ip \in {o \in DOMAIN s : clock - s[o].at < DropAfter} |-> s[ip]]
      /\ waiting' = <<>> /\ clock' = clock /\ lastHeard' = lastHeard
  BY DEF D!Frame, D!Kept, D!network, k, s
<1>5. ASSUME NEW ip \in DOMAIN s
      PROVE  /\ Device(s[ip]) /\ s[ip].at <= clock /\ ip \in DOMAIN lastHeard
             /\ lastHeard[ip] <= s[ip].at
  <2>1. Device(s[ip]) /\ s[ip].at <= clock /\ s[ip].at = k[ip].at /\ ip \in DOMAIN k
    BY <1>2, <1>3 DEF MergedUpTo, Grown
  <2>2. CASE \E j \in 1..n : waiting[j].ip = ip
    <3>1. k[ip].at = clock
      BY <1>2, <2>2 DEF MergedUpTo
    <3>2. ip \in DOMAIN lastHeard
      BY <1>1, <2>2 DEF HeardInv
    <3>3. QED BY <2>1, <3>1, <3>2 DEF HeardInv
  <2>3. CASE ~\E j \in 1..n : waiting[j].ip = ip
    <3>1. ip \in DOMAIN known
      BY <1>2, <2>1, <2>3 DEF MergedUpTo
    <3>2. Grown(known[ip], k[ip]) /\ Device(known[ip])
      BY <1>2, <3>1 DEF MergedUpTo, HeardInv
    <3>3. ip \in DOMAIN lastHeard /\ lastHeard[ip] <= known[ip].at /\ lastHeard[ip] \in Nat
      BY <1>1, <2>3, <3>1 DEF HeardInv
    <3>4. QED BY <2>1, <3>2, <3>3 DEF Grown, Device
  <2>4. QED BY <2>1, <2>2, <2>3
<1>6. HeardInv'
  <2>1. Numbered(waiting') /\ Len(waiting') = 0
    <3>1. waiting' = [i \in 1..0 |-> waiting'[i]]
      BY <1>4
    <3>2. QED BY <1>4, <3>1 DEF Numbered
  <2>2. clock' \in Nat /\ \A ip \in DOMAIN lastHeard' : lastHeard'[ip] \in 0..clock'
    BY <1>4 DEF HeardInv
  <2>3. ASSUME NEW ip \in DOMAIN known'
        PROVE  /\ Device(known'[ip]) /\ known'[ip].at <= clock' /\ ip \in DOMAIN lastHeard'
               /\ lastHeard'[ip] <= known'[ip].at
    BY <1>4, <1>5
  <2>4. QED BY <2>1, <2>2, <2>3 DEF HeardInv
<1>7. ASSUME NEW ip \in DOMAIN known, clock - lastHeard[ip] < DropAfter
      PROVE  ip \in DOMAIN known' /\ Grown(known[ip], known'[ip])
  <2>1. ip \in DOMAIN k /\ Grown(known[ip], k[ip]) /\ Device(known[ip])
    BY <1>2 DEF MergedUpTo, HeardInv
  <2>2. ip \in DOMAIN s /\ Grown(known[ip], s[ip])
    BY <1>3, <2>1, GrownTwice
  <2>3. s[ip].at \in Nat /\ lastHeard[ip] \in Nat /\ clock \in Nat /\ lastHeard[ip] <= s[ip].at
    BY <1>5, <2>2 DEF HeardInv, Device
  <2>4. clock - s[ip].at < DropAfter
    BY <1>7, <2>3
  <2>5. ip \in DOMAIN known' /\ known'[ip] = s[ip]
    BY <1>4, <2>2, <2>4
  <2>6. QED BY <2>2, <2>5
<1>8. QED BY <1>6, <1>7

\* A sighting waits to be merged.
LEMMA SightWaits ==
  ASSUME HeardInv, NEW s, D!Sight(s)
  PROVE  HeardInv' /\ known' = known
<1>1. PICK n \in Nat : waiting = [i \in 1..n |-> waiting[i]]
  BY DEF HeardInv, Numbered
<1>2. /\ Len(waiting) = n
      /\ waiting' = [i \in 1..n + 1 |-> IF i = n + 1 THEN s ELSE waiting[i]]
      /\ Len(waiting') = n + 1
  BY <1>1, Appended DEF D!Sight
<1>3. /\ lastHeard' = [o \in DOMAIN lastHeard \cup {s.ip} |-> IF o = s.ip THEN clock ELSE lastHeard[o]]
      /\ clock' = clock /\ known' = known
  BY DEF D!Sight, D!Put, D!network
<1>4. clock \in Nat
  BY DEF HeardInv
<1>5. Numbered(waiting')
  <2>1. n + 1 \in Nat /\ waiting' = [i \in 1..n + 1 |-> waiting'[i]]
    BY <1>2
  <2>2. QED BY <2>1 DEF Numbered
<1>6. ASSUME NEW i \in 1..n + 1 PROVE waiting'[i].ip \in DOMAIN lastHeard'
  BY <1>2, <1>3 DEF HeardInv
<1>7. \A ip \in DOMAIN lastHeard' : lastHeard'[ip] \in 0..clock'
  BY <1>3, <1>4 DEF HeardInv
<1>8. ASSUME NEW ip \in DOMAIN known
      PROVE  \/ lastHeard'[ip] <= known[ip].at
             \/ \E i \in 1..n + 1 : waiting'[i].ip = ip
  <2>1. CASE ip = s.ip
    <3>1. n + 1 \in 1..n + 1 /\ waiting'[n + 1].ip = ip
      BY <1>2, <2>1
    <3>2. QED BY <3>1
  <2>2. CASE ip # s.ip /\ \E i \in 1..n : waiting[i].ip = ip
    <3>1. PICK i \in 1..n : waiting[i].ip = ip
      BY <2>2
    <3>2. i \in 1..n + 1 /\ waiting'[i].ip = ip
      BY <1>2, <3>1
    <3>3. QED BY <3>2
  <2>3. CASE ip # s.ip /\ lastHeard[ip] <= known[ip].at
    BY <1>3, <2>3 DEF HeardInv
  <2>4. QED BY <1>2, <2>1, <2>2, <2>3 DEF HeardInv
<1>9. ASSUME NEW ip \in DOMAIN known
      PROVE  Device(known[ip]) /\ known[ip].at <= clock /\ ip \in DOMAIN lastHeard'
  BY <1>3 DEF HeardInv
<1>10. QED BY <1>2, <1>3, <1>4, <1>5, <1>6, <1>7, <1>8, <1>9 DEF HeardInv

\* Every step keeps the invariant, and lets what was heard of lately only grow.
LEMMA HeardStep ==
  ASSUME HeardInv, DropAfter \in Nat, [D!Next]_(D!vars)
  PROVE  /\ HeardInv'
         /\ \A ip \in DOMAIN known : clock - lastHeard[ip] < DropAfter =>
              ip \in DOMAIN known' /\ Grown(known[ip], known'[ip])
<1>1. ASSUME known' = known
      PROVE  \A ip \in DOMAIN known : ip \in DOMAIN known' /\ Grown(known[ip], known'[ip])
  BY <1>1, GrownNot DEF HeardInv
<1>2. CASE D!Frame
  BY <1>2, FrameKeepsHeard
<1>3. CASE \E s : D!Sight(s)
  BY <1>1, <1>3, SightWaits
<1>4. CASE D!Tick
  <2>1. /\ clock' = clock + 1 /\ waiting' = waiting /\ known' = known /\ lastHeard' = lastHeard
    BY <1>4 DEF D!Tick
  <2>2. clock \in Nat /\ clock' \in Nat
    BY <2>1 DEF HeardInv
  <2>3. \A ip \in DOMAIN lastHeard : lastHeard[ip] \in 0..clock'
    BY <2>1, <2>2 DEF HeardInv
  <2>4. \A ip \in DOMAIN known : known[ip].at <= clock'
    BY <2>1, <2>2 DEF HeardInv, Device
  <2>5. HeardInv'
    BY <2>1, <2>2, <2>3, <2>4 DEF HeardInv
  <2>6. QED BY <1>1, <2>1, <2>5
<1>5. CASE UNCHANGED <<clock, waiting, known, lastHeard>>
  BY <1>1, <1>5 DEF HeardInv
<1>6. [D!Next]_(D!vars) =>
        D!Frame \/ (\E s : D!Sight(s)) \/ D!Tick \/ UNCHANGED <<clock, waiting, known, lastHeard>>
  <2>1. D!SightARP \/ D!SightMDNS \/ D!SightSSDP => \E s : D!Sight(s)
    BY Zenon DEF D!SightARP, D!SightMDNS, D!SightSSDP
  <2>2. D!Sweep \/ D!ScanEnds \/ D!Rehost \/ D!Forget => UNCHANGED <<clock, waiting, known, lastHeard>>
    BY DEF D!Sweep, D!ScanEnds, D!Rehost, D!Forget, D!network
  <2>3. D!EditQuery \/ D!Move \/ D!Scan \/ D!Ssh \/ D!SshEnds => UNCHANGED <<clock, waiting, known, lastHeard>>
    BY DEF D!EditQuery, D!Move, D!Scan, D!Ssh, D!SshEnds, D!Key, D!network
  <2>4. UNCHANGED D!vars => UNCHANGED <<clock, waiting, known, lastHeard>>
    BY DEF D!vars, D!network
  <2>5. QED BY <2>1, <2>2, <2>3, <2>4 DEF D!Next
<1>7. QED BY <1>2, <1>3, <1>4, <1>5, <1>6

\* The library's words for what begins like another.
LEMMA BeginsIsPrefix ==
  ASSUME NEW s, Numbered(s), NEW t, Numbered(t), Begins(s, t)
  PROVE  D!IsPrefix(s, t)
<1>1. PICK n \in Nat : s = [i \in 1..n |-> s[i]] /\ Len(s) = n
  BY Appended DEF Numbered
<1>2. PICK m \in Nat : t = [i \in 1..m |-> t[i]] /\ Len(t) = m
  BY Appended DEF Numbered
<1>3. n <= m /\ \A i \in 1..n : s[i] = t[i]
  BY <1>1, <1>2 DEF Begins
<1> DEFINE T == {s[i] : i \in 1..n} \cup {t[i] : i \in 1..m}
<1>4. s \in [1..n -> T] /\ t \in [1..m -> T]
  BY <1>1, <1>2
<1> HIDE DEF T
<1>5. s \in Seq(T) /\ t \in Seq(T)
  BY <1>4
<1>6. ASSUME NEW q \in Seq(T), NEW j \in 0..Len(q)
      PROVE  SubSeq(q, 1, j) = [i \in 1..j |-> q[i]]
  <2>1. Len(q) \in Nat
    OBVIOUS
  <2>2. /\ SubSeq(q, 1, j) \in Seq(T) /\ Len(SubSeq(q, 1, j)) = j
        /\ \A i \in 1..j : SubSeq(q, 1, j)[i] = q[i]
    BY <2>1
  <2>3. QED BY <2>2
<1>7. SubSeq(s, 1, n) = SubSeq(t, 1, n)
  <2>1. n \in 0..Len(s) /\ n \in 0..Len(t)
    BY <1>1, <1>2, <1>3
  <2>2. SubSeq(s, 1, n) = [i \in 1..n |-> s[i]] /\ SubSeq(t, 1, n) = [i \in 1..n |-> t[i]]
    BY <1>5, <1>6, <2>1
  <2>3. QED BY <1>3, <2>2
<1>8. QED BY <1>1, <1>2, <1>3, <1>7 DEF D!IsPrefix

\* Each step keeps it so.
THEOREM HeardInvariance ==
  ASSUME DropAfter \in Nat
  PROVE  ToolsSpec => [](tool = "heimdall" => HeardInv)
<1>1. ToolsInit => (tool = "heimdall" => HeardInv)
  <2>1. SUFFICES ASSUME ToolsInit, tool = "heimdall" PROVE HeardInv
    OBVIOUS
  <2>2. clock = 0 /\ waiting = <<>> /\ known = <<>> /\ lastHeard = <<>>
    BY <2>1 DEF ToolsInit, D!Init
  <2>3. Numbered(waiting)
    <3>1. waiting = [i \in 1..0 |-> waiting[i]]
      BY <2>2
    <3>2. QED BY <3>1 DEF Numbered
  <2>4. QED BY <2>2, <2>3 DEF HeardInv
<1>2. (tool = "heimdall" => HeardInv) /\ [ToolsNext]_run => (tool = "heimdall" => HeardInv)'
  BY ChosenSteps, HeardStep
<1>3. QED BY <1>1, <1>2, PTL DEF ToolsSpec

(***************************************************************************)
(* heimdall drops the entry of no device it has heard of within DROP, and  *)
(* forgets neither its name nor its services, however long sightings wait. *)
(***************************************************************************)
THEOREM OnlySilentDroppedCorrect ==
  ASSUME DropAfter \in Nat
  PROVE  ToolsSpec => OnlySilentDropped
<1>1. (tool = "heimdall" => HeardInv) /\ [ToolsNext]_run => [tool = "heimdall" => D!OnlySilentDropped]_run
  <2>1. SUFFICES ASSUME tool = "heimdall" => HeardInv, [ToolsNext]_run, tool = "heimdall"
                 PROVE  D!OnlySilentDropped
    OBVIOUS
  <2>2. HeardInv /\ [D!Next]_(D!vars)
    BY <2>1, ChosenSteps
  <2>3. ASSUME NEW ip \in DOMAIN known, clock - lastHeard[ip] < DropAfter
        PROVE  /\ ip \in DOMAIN known'
               /\ known'[ip].hostname = known[ip].hostname \/ known[ip].hostname = Nothing
               /\ D!IsPrefix(known[ip].services, known'[ip].services)
    <3>1. ip \in DOMAIN known' /\ Grown(known[ip], known'[ip]) /\ Device(known[ip])
      BY <2>2, <2>3, HeardStep DEF HeardInv
    <3>2. D!IsPrefix(known[ip].services, known'[ip].services)
      BY <3>1, BeginsIsPrefix DEF Grown, Device
    <3>3. QED BY <3>1, <3>2 DEF Grown
  <2>4. QED BY <2>3 DEF D!OnlySilentDropped
<1>2. QED BY <1>1, HeardInvariance, PTL DEF ToolsSpec, OnlySilentDropped

-----------------------------------------------------------------------------
(***************************************************************************)
(* valkyrie: the tree. A set of processes is closed if it has the children *)
(* of its own; who descends from some is in every closed set with them.    *)
(***************************************************************************)
Closed(t, s) == \A c \in DOMAIN t : t[c].ppid \in s => c \in s

Family(t, p) == V!Descendants(t, {p})

\* The descendants are the least closed set.
LEMMA LeastClosed ==
  ASSUME NEW t, NEW from, from \subseteq DOMAIN t
  PROVE  /\ from \subseteq V!Descendants(t, from) /\ V!Descendants(t, from) \subseteq DOMAIN t
         /\ Closed(t, V!Descendants(t, from))
         /\ \A s \in SUBSET DOMAIN t : from \subseteq s /\ Closed(t, s) => V!Descendants(t, from) \subseteq s
<1> DEFINE below == V!Descendants(t, from)
           Holds(s) == from \subseteq s /\ Closed(t, s)
<1>1. below = {p \in DOMAIN t : \A s \in SUBSET DOMAIN t : Holds(s) => p \in s}
  BY DEF V!Descendants, Closed
<1> HIDE DEF below
<1>2. from \subseteq below /\ below \subseteq DOMAIN t
  BY <1>1
<1>3. Closed(t, below)
  <2>1. ASSUME NEW c \in DOMAIN t, t[c].ppid \in below, NEW s \in SUBSET DOMAIN t, Holds(s)
        PROVE  c \in s
    BY <1>1, <2>1 DEF Closed
  <2>2. QED BY <1>1, <2>1 DEF Closed
<1>4. \A s \in SUBSET DOMAIN t : Holds(s) => below \subseteq s
  BY <1>1
<1>5. QED BY <1>2, <1>3, <1>4 DEF below

\* Who is not where it starts has its parent there.
LEMMA ParentWithin ==
  ASSUME NEW t, NEW from, from \subseteq DOMAIN t,
         NEW q \in V!Descendants(t, from), q \notin from
  PROVE  t[q].ppid \in V!Descendants(t, from)
<1> DEFINE below == V!Descendants(t, from)
           rest == below \ {q}
<1>1. /\ from \subseteq below /\ below \subseteq DOMAIN t /\ Closed(t, below)
      /\ \A s \in SUBSET DOMAIN t : from \subseteq s /\ Closed(t, s) => below \subseteq s
  BY LeastClosed
<1>2. q \in below
  OBVIOUS
<1> HIDE DEF below
<1>3. SUFFICES ASSUME t[q].ppid \notin below PROVE FALSE
  BY DEF below
<1>4. from \subseteq rest /\ rest \in SUBSET DOMAIN t /\ Closed(t, rest)
  BY <1>1, <1>3 DEF Closed
<1>5. QED BY <1>1, <1>2, <1>4

\* A family is the process and those of its children.
LEMMA FamilyIs ==
  ASSUME NEW t, NEW p \in DOMAIN t
  PROVE  /\ p \in Family(t, p) /\ Family(t, p) \subseteq DOMAIN t
         /\ \A c \in V!Kids(t, p) : Family(t, c) \subseteq Family(t, p)
         /\ Family(t, p) = {p} \cup UNION {Family(t, c) : c \in V!Kids(t, p)}
<1> DEFINE own == Family(t, p)
           sum == {p} \cup UNION {Family(t, c) : c \in V!Kids(t, p)}
<1>1. /\ p \in own /\ own \subseteq DOMAIN t /\ Closed(t, own)
      /\ \A s \in SUBSET DOMAIN t : p \in s /\ Closed(t, s) => own \subseteq s
  BY LeastClosed DEF Family
<1>2. ASSUME NEW c \in V!Kids(t, p)
      PROVE  /\ c \in DOMAIN t /\ c \in Family(t, c) /\ Family(t, c) \subseteq DOMAIN t
             /\ Closed(t, Family(t, c)) /\ Family(t, c) \subseteq own
  <2>1. c \in DOMAIN t /\ t[c].ppid = p
    BY DEF V!Kids
  <2>2. c \in own
    BY <1>1, <2>1 DEF Closed
  <2>3. /\ c \in Family(t, c) /\ Family(t, c) \subseteq DOMAIN t /\ Closed(t, Family(t, c))
        /\ \A s \in SUBSET DOMAIN t : c \in s /\ Closed(t, s) => Family(t, c) \subseteq s
    BY <2>1, LeastClosed DEF Family
  <2>4. QED BY <1>1, <2>1, <2>2, <2>3
<1> HIDE DEF own
<1>3. sum \subseteq own
  BY <1>1, <1>2
<1>4. Closed(t, sum)
  <2>1. SUFFICES ASSUME NEW c \in DOMAIN t, t[c].ppid \in sum PROVE c \in sum
    BY DEF Closed
  <2>2. CASE t[c].ppid = p
    <3>1. CASE c = p
      BY <3>1
    <3>2. CASE c # p
      <4>1. c \in V!Kids(t, p)
        BY <2>2, <3>2 DEF V!Kids
      <4>2. QED BY <1>2, <4>1
    <3>3. QED BY <3>1, <3>2
  <2>3. CASE t[c].ppid # p
    <3>1. PICK d \in V!Kids(t, p) : t[c].ppid \in Family(t, d)
      BY <2>1, <2>3
    <3>2. c \in Family(t, d)
      BY <1>2, <3>1 DEF Closed
    <3>3. QED BY <3>2
  <2>4. QED BY <2>2, <2>3
<1>5. own \subseteq sum
  BY <1>1, <1>3, <1>4
<1>6. QED BY <1>1, <1>2, <1>3, <1>5 DEF own

\* What descends from a process whose parent is missing or itself: all that is on no ring.
Grounded(t) == V!Descendants(t, V!Roots(t))

\* A root descends from nobody else.
LEMMA RootsAlone ==
  ASSUME NEW t, NEW r \in V!Roots(t), NEW c \in DOMAIN t, c # r
  PROVE  r \notin Family(t, c)
<1> DEFINE s == DOMAIN t \ {r}
<1>1. {c} \subseteq s /\ s \in SUBSET DOMAIN t /\ Closed(t, s)
  BY DEF Closed, V!Roots
<1>2. Family(t, c) \subseteq s
  <2> HIDE DEF s
  <2> QED BY <1>1, LeastClosed DEF Family
<1>3. QED BY <1>2

\* The grounded processes: the roots and the children of grounded ones.
LEMMA GroundedIs ==
  ASSUME NEW t
  PROVE  /\ V!Roots(t) \subseteq Grounded(t) /\ Grounded(t) \subseteq DOMAIN t
         /\ Grounded(t) = UNION {Family(t, r) : r \in V!Roots(t)}
         /\ \A p \in Grounded(t) : V!Kids(t, p) \subseteq Grounded(t) /\ Family(t, p) \subseteq Grounded(t)
<1> DEFINE all == Grounded(t)
           sum == UNION {Family(t, r) : r \in V!Roots(t)}
<1>1. V!Roots(t) \subseteq DOMAIN t
  BY DEF V!Roots
<1>2. /\ V!Roots(t) \subseteq all /\ all \subseteq DOMAIN t /\ Closed(t, all)
      /\ \A s \in SUBSET DOMAIN t : V!Roots(t) \subseteq s /\ Closed(t, s) => all \subseteq s
  BY <1>1, LeastClosed DEF Grounded
<1> HIDE DEF all
<1>3. ASSUME NEW p \in DOMAIN t
      PROVE  /\ p \in Family(t, p) /\ Family(t, p) \subseteq DOMAIN t /\ Closed(t, Family(t, p))
             /\ \A s \in SUBSET DOMAIN t : p \in s /\ Closed(t, s) => Family(t, p) \subseteq s
  BY <1>3, LeastClosed DEF Family
<1>4. ASSUME NEW p \in all PROVE V!Kids(t, p) \subseteq all /\ Family(t, p) \subseteq all
  <2>1. Family(t, p) \subseteq all
    BY <1>2, <1>3
  <2>2. QED BY <1>2, <2>1 DEF V!Kids, Closed
<1>5. sum \subseteq all
  BY <1>2, <1>4
<1>6. V!Roots(t) \subseteq sum /\ sum \in SUBSET DOMAIN t
  BY <1>1, <1>3
<1>7. Closed(t, sum)
  <2>1. SUFFICES ASSUME NEW c \in DOMAIN t, t[c].ppid \in sum PROVE c \in sum
    BY DEF Closed
  <2>2. PICK r \in V!Roots(t) : t[c].ppid \in Family(t, r)
    BY <2>1
  <2>3. c \in Family(t, r)
    BY <1>1, <1>3, <2>2 DEF Closed
  <2>4. QED BY <2>3
<1>8. all \subseteq sum
  BY <1>2, <1>6, <1>7
<1>9. QED BY <1>2, <1>4, <1>5, <1>8 DEF all

\* A grounded process is no descendant of its children.
LEMMA NoRing ==
  ASSUME NEW t, NEW p \in Grounded(t), NEW c \in V!Kids(t, p)
  PROVE  p \notin Family(t, c)
<1> DEFINE s == {q \in Grounded(t) : \A d \in V!Kids(t, q) : q \notin Family(t, d)}
<1>1. V!Roots(t) \subseteq s
  <2>1. ASSUME NEW r \in V!Roots(t), NEW d \in V!Kids(t, r) PROVE r \notin Family(t, d)
    <3>1. d \in DOMAIN t /\ d # r
      BY DEF V!Kids
    <3>2. QED BY <3>1, RootsAlone
  <2>2. QED BY <2>1, GroundedIs
<1>2. ASSUME NEW y \in DOMAIN t, t[y].ppid \in s PROVE y \in s
  <2>1. CASE t[y].ppid = y
    BY <1>2, <2>1
  <2>2. CASE t[y].ppid # y
    <3> DEFINE x == t[y].ppid
    <3>1. x \in Grounded(t) /\ \A d \in V!Kids(t, x) : x \notin Family(t, d)
      BY <1>2
    <3>2. y \in V!Kids(t, x)
      BY <1>2, <2>2 DEF V!Kids
    <3>3. y \in Grounded(t)
      BY <3>1, <3>2, GroundedIs
    <3>4. ASSUME NEW d \in V!Kids(t, y), y \in Family(t, d) PROVE FALSE
      <4>1. d \in DOMAIN t /\ d # y
        BY DEF V!Kids
      <4>2. x \in Family(t, d)
        BY <3>4, <4>1, ParentWithin DEF Family
      <4>3. x \in Family(t, y)
        BY <1>2, <4>2, FamilyIs
      <4>4. QED BY <3>1, <3>2, <4>3
    <3>5. QED BY <3>3, <3>4
  <2>3. QED BY <2>1, <2>2
<1>3. s \in SUBSET DOMAIN t /\ Closed(t, s)
  BY <1>2, GroundedIs DEF Closed
<1>4. Grounded(t) \subseteq s
  <2>1. V!Roots(t) \subseteq DOMAIN t
    BY DEF V!Roots
  <2> HIDE DEF s
  <2>2. QED BY <1>1, <1>3, <2>1, LeastClosed DEF Grounded
<1>5. QED BY <1>4

\* Two families of which neither has the head of the other share nobody.
LEMMA FamiliesApart ==
  ASSUME NEW t, NEW c \in DOMAIN t, NEW d \in DOMAIN t, c \notin Family(t, d), d \notin Family(t, c)
  PROVE  Family(t, c) \cap Family(t, d) = {}
<1> DEFINE rest == Family(t, c) \ Family(t, d)
<1>1. /\ c \in Family(t, c) /\ Family(t, c) \subseteq DOMAIN t /\ Closed(t, Family(t, c))
      /\ \A s \in SUBSET DOMAIN t : c \in s /\ Closed(t, s) => Family(t, c) \subseteq s
  BY LeastClosed DEF Family
<1>2. ASSUME NEW y \in DOMAIN t, t[y].ppid \in rest PROVE y \in rest
  <2>1. y \in Family(t, c)
    BY <1>1, <1>2 DEF Closed
  <2>2. ASSUME y \in Family(t, d) PROVE FALSE
    <3>1. y # d
      BY <2>1
    <3>2. t[y].ppid \in Family(t, d)
      BY <2>2, <3>1, ParentWithin DEF Family
    <3>3. QED BY <1>2, <3>2
  <2>3. QED BY <2>1, <2>2
<1>3. c \in rest /\ rest \in SUBSET DOMAIN t /\ Closed(t, rest)
  BY <1>1, <1>2 DEF Closed
<1>4. QED BY <1>1, <1>3

\* Roots have families of their own, and so do the children of a grounded process.
LEMMA SiblingsApart ==
  ASSUME NEW t, NEW T, T = V!Roots(t) \/ \E p \in Grounded(t) : T = V!Kids(t, p)
  PROVE  /\ T \subseteq Grounded(t)
         /\ \A c, d \in T : c # d => Family(t, c) \cap Family(t, d) = {}
<1>1. CASE T = V!Roots(t)
  <2>1. T \subseteq Grounded(t) /\ T \subseteq DOMAIN t
    BY <1>1, GroundedIs
  <2>2. ASSUME NEW c \in T, NEW d \in T, c # d PROVE Family(t, c) \cap Family(t, d) = {}
    <3>1. c \notin Family(t, d) /\ d \notin Family(t, c)
      BY <1>1, <2>1, <2>2, RootsAlone
    <3>2. QED BY <2>1, <3>1, FamiliesApart
  <2>3. QED BY <2>1, <2>2
<1>2. ASSUME NEW p \in Grounded(t), T = V!Kids(t, p)
      PROVE  /\ T \subseteq Grounded(t)
             /\ \A c, d \in T : c # d => Family(t, c) \cap Family(t, d) = {}
  <2>1. T \subseteq Grounded(t) /\ T \subseteq DOMAIN t /\ \A c \in T : t[c].ppid = p
    BY <1>2, GroundedIs DEF V!Kids
  <2>2. ASSUME NEW c \in T, NEW d \in T, c # d PROVE c \notin Family(t, d)
    <3>1. SUFFICES ASSUME c \in Family(t, d) PROVE FALSE
      OBVIOUS
    <3>2. p \in Family(t, d)
      BY <2>1, <2>2, <3>1, ParentWithin DEF Family
    <3>3. QED BY <1>2, <3>2, NoRing
  <2>3. QED BY <2>1, <2>2, FamiliesApart
<1>3. QED BY <1>1, <1>2

-----------------------------------------------------------------------------
(* What the walk has left over grows less on the way down. *)

\* Under of Build: the processes of p's subtree, as far as they are left.
Part(t, f, p) == {p} \cup UNION {f[c] : c \in V!Kids(t, p)}

Parts(t, g, left) == [p \in DOMAIN t |-> IF p \notin left THEN {} ELSE Part(t, g[left \ {p}], p)]

\* There is such a function.
LEMMA UnderExists ==
  ASSUME NEW t, IsFiniteSet(DOMAIN t)
  PROVE  \E g : g = [left \in SUBSET DOMAIN t |-> Parts(t, g, left)]
<1> DEFINE all == DOMAIN t
           Upto(n) == {s \in SUBSET all : Cardinality(s) < n}
           Has(n) == \E g : g = [s \in Upto(n) |-> Parts(t, g, s)]
           Bad == {n \in Nat : ~Has(n)}
<1>1. Bad = {}
  <2>1. SUFFICES ASSUME Bad # {} PROVE FALSE
    OBVIOUS
  <2>2. Bad \subseteq Nat
    OBVIOUS
  <2>3. PICK n \in Bad : \A m \in Bad : n <= m
    <3> HIDE DEF Bad
    <3> QED BY <2>1, <2>2, Least
  <2>4. n \in Nat /\ ~Has(n)
    BY <2>3
  <2>5. \E g : n # 0 => g = [s \in Upto(n - 1) |-> Parts(t, g, s)]
    <3>1. SUFFICES ASSUME n # 0 PROVE Has(n - 1)
      OBVIOUS
    <3>2. n - 1 \in Nat /\ ~(n <= n - 1)
      BY <2>4, <3>1
    <3>3. n - 1 \notin Bad
      <4> HIDE DEF Bad
      <4> QED BY <2>3, <3>2
    <3>4. QED BY <3>2, <3>3
  <2>6. PICK g : n # 0 => g = [s \in Upto(n - 1) |-> Parts(t, g, s)]
    BY <2>5
  <2> DEFINE h == [s \in Upto(n) |-> Parts(t, g, s)]
  <2>7. ASSUME NEW s \in Upto(n) PROVE h[s] = Parts(t, h, s)
    <3>1. ASSUME NEW p \in s PROVE g[s \ {p}] = h[s \ {p}]
      <4> DEFINE r == s \ {p}
      <4>1. r \in SUBSET all /\ Cardinality(s) \in Nat \ {0} /\ Cardinality(r) = Cardinality(s) - 1
        BY <2>7, <3>1, OneLess
      <4>2. n # 0 /\ r \in Upto(n - 1) /\ r \in Upto(n)
        BY <2>4, <2>7, <4>1
      <4> HIDE DEF r
      <4>3. g[r] = Parts(t, g, r)
        <5> HIDE DEF Upto
        <5> QED BY <2>6, <4>2
      <4>4. QED BY <4>2, <4>3 DEF r
    <3>2. Parts(t, g, s) = Parts(t, h, s)
      <4> HIDE DEF h
      <4> QED BY <3>1 DEF Parts
    <3>3. QED BY <3>2
  <2>8. h = [s \in Upto(n) |-> Parts(t, h, s)]
    <3>1. h = [s \in Upto(n) |-> h[s]]
      OBVIOUS
    <3> HIDE DEF h, Upto
    <3>2. QED BY <2>7, <3>1
  <2>9. QED BY <2>4, <2>8
<1>2. Cardinality(all) + 1 \in Nat /\ Upto(Cardinality(all) + 1) = SUBSET all
  <2>1. \A s \in SUBSET all : Cardinality(s) <= Cardinality(all) /\ Cardinality(s) \in Nat
    BY FS_Subset, FS_CardinalityType
  <2>2. Cardinality(all) \in Nat
    BY FS_CardinalityType
  <2> HIDE DEF all
  <2>3. QED BY <2>1, <2>2
<1>3. Has(Cardinality(all) + 1)
  BY <1>1, <1>2
<1>4. QED BY <1>2, <1>3

\* From a grounded process Under gets to its family, whatever else is left.
LEMMA UnderIsFamily ==
  ASSUME NEW t, IsFiniteSet(DOMAIN t),
         NEW g, g = [left \in SUBSET DOMAIN t |-> Parts(t, g, left)],
         NEW left \in SUBSET DOMAIN t, NEW p \in Grounded(t), Family(t, p) \subseteq left
  PROVE  g[left][p] = Family(t, p)
<1> DEFINE all == DOMAIN t
           Wrong(s) == \E q \in Grounded(t) : Family(t, q) \subseteq s /\ g[s][q] # Family(t, q)
           Bad == {s \in SUBSET all : Wrong(s)}
<1>1. Bad = {}
  <2>1. SUFFICES ASSUME Bad # {} PROVE FALSE
    OBVIOUS
  <2>2. PICK s \in Bad : \A r \in Bad : Cardinality(s) <= Cardinality(r)
    <3>1. Bad \subseteq SUBSET all
      OBVIOUS
    <3> HIDE DEF Bad, all
    <3>2. IsFiniteSet(all)
      BY DEF all
    <3>3. QED BY <2>1, <3>1, <3>2, Smallest
  <2>3. PICK q \in Grounded(t) : Family(t, q) \subseteq s /\ g[s][q] # Family(t, q)
    BY <2>2
  <2>4. s \in SUBSET all /\ q \in all /\ q \in s
    BY <2>2, <2>3, GroundedIs, FamilyIs
  <2> DEFINE r == s \ {q}
  <2>5. r \in SUBSET all /\ Cardinality(r) = Cardinality(s) - 1 /\ Cardinality(s) \in Nat
    BY <2>4, OneLess
  <2>6. ~Wrong(r)
    <3>1. ~(Cardinality(s) <= Cardinality(r))
      BY <2>5
    <3>2. r \notin Bad
      <4> HIDE DEF Bad, r
      <4> QED BY <2>2, <3>1
    <3>3. QED BY <2>5, <3>2
  <2>7. ASSUME NEW c \in V!Kids(t, q) PROVE g[r][c] = Family(t, c)
    <3>1. c \in Grounded(t) /\ Family(t, c) \subseteq Family(t, q)
      BY <2>3, <2>4, <2>7, GroundedIs, FamilyIs
    <3>2. q \notin Family(t, c)
      BY <2>3, NoRing
    <3>3. Family(t, c) \subseteq r
      BY <2>3, <3>1, <3>2
    <3>4. QED BY <2>6, <3>1, <3>3
  <2>8. g[s][q] = Part(t, g[r], q)
    <3>1. g[s] = Parts(t, g, s)
      BY <2>4
    <3>2. QED BY <2>4, <3>1 DEF Parts
  <2>9. Part(t, g[r], q) = Family(t, q)
    <3>1. {g[r][c] : c \in V!Kids(t, q)} = {Family(t, c) : c \in V!Kids(t, q)}
      BY <2>7
    <3>2. Family(t, q) = {q} \cup UNION {Family(t, c) : c \in V!Kids(t, q)}
      BY <2>4, FamilyIs
    <3>3. QED BY <3>1, <3>2 DEF Part
  <2>10. QED BY <2>3, <2>8, <2>9
<1>2. QED BY <1>1

-----------------------------------------------------------------------------
(***************************************************************************)
(* Lists of rows. A row stands for a process, or for a family; a list of   *)
(* them covers the processes that stand in one of its rows each.           *)
(***************************************************************************)
TreeRows(t) == [pid : DOMAIN t, depth : Nat, count : Nat, expandable : BOOLEAN]

Share(t, r) == IF r.count = 0 THEN {r.pid} ELSE Family(t, r.pid)

Covers(t, w, who) ==
  /\ w \in Seq(TreeRows(t))
  /\ \A i \in 1..Len(w) : /\ Share(t, w[i]) \subseteq who
                          /\ w[i].count \in {0, Cardinality(Family(t, w[i].pid)) - 1}
  /\ \A p \in who : \E i \in 1..Len(w) :
       p \in Share(t, w[i]) /\ \A j \in 1..Len(w) : p \in Share(t, w[j]) => j = i

\* Lists that cover others are joined.
LEMMA CoversBoth ==
  ASSUME NEW t, NEW w, NEW u, NEW who, NEW them, who \cap them = {},
         Covers(t, w, who), Covers(t, u, them)
  PROVE  Covers(t, w \o u, who \cup them)
<1> DEFINE s == w \o u
           Fits(r) == r.count \in {0, Cardinality(Family(t, r.pid)) - 1}
           m == Len(w)
           n == Len(u)
<1>1. w \in Seq(TreeRows(t)) /\ u \in Seq(TreeRows(t)) /\ m \in Nat /\ n \in Nat
  BY DEF Covers
<1>2. /\ s \in Seq(TreeRows(t)) /\ Len(s) = m + n
      /\ \A i \in 1..m : s[i] = w[i]
      /\ \A i \in 1..n : s[m + i] = u[i]
  BY <1>1
<1>3. /\ \A i \in 1..m : Share(t, w[i]) \subseteq who /\ Fits(w[i])
      /\ \A i \in 1..n : Share(t, u[i]) \subseteq them /\ Fits(u[i])
  BY DEF Covers
<1>4. /\ \A p \in who : \E i \in 1..m : p \in Share(t, w[i]) /\ \A j \in 1..m : p \in Share(t, w[j]) => j = i
      /\ \A p \in them : \E i \in 1..n : p \in Share(t, u[i]) /\ \A j \in 1..n : p \in Share(t, u[j]) => j = i
  BY DEF Covers
<1> HIDE DEF s, Fits, m, n
<1>5. ASSUME NEW i \in 1..(m + n)
      PROVE  \/ i \in 1..m /\ s[i] = w[i]
             \/ i - m \in 1..n /\ i \notin 1..m /\ s[i] = u[i - m]
  <2>1. CASE i <= m
    <3>1. i \in 1..m
      BY <1>1, <2>1
    <3>2. QED BY <1>2, <3>1
  <2>2. CASE ~(i <= m)
    <3>1. i - m \in 1..n /\ i \notin 1..m /\ m + (i - m) = i
      BY <1>1, <2>2
    <3>2. s[m + (i - m)] = u[i - m]
      BY <1>2, <3>1
    <3>3. QED BY <3>1, <3>2
  <2>3. QED BY <2>1, <2>2
<1>6. ASSUME NEW i \in 1..(m + n) PROVE Share(t, s[i]) \subseteq who \cup them /\ Fits(s[i])
  BY <1>3, <1>5
<1>7. ASSUME NEW p \in who \cup them
      PROVE  \E i \in 1..(m + n) : p \in Share(t, s[i]) /\ \A j \in 1..(m + n) : p \in Share(t, s[j]) => j = i
  <2>1. CASE p \in who
    <3>1. PICK i \in 1..m : p \in Share(t, w[i]) /\ \A j \in 1..m : p \in Share(t, w[j]) => j = i
      BY <1>4, <2>1
    <3>2. i \in 1..(m + n) /\ p \in Share(t, s[i])
      BY <1>1, <1>2, <3>1
    <3>3. ASSUME NEW j \in 1..(m + n), p \in Share(t, s[j]) PROVE j = i
      <4>1. j \in 1..m /\ s[j] = w[j]
        BY <1>3, <1>5, <2>1, <3>3
      <4>2. QED BY <3>1, <3>3, <4>1
    <3>4. QED BY <3>2, <3>3
  <2>2. CASE p \in them
    <3>1. PICK i \in 1..n : p \in Share(t, u[i]) /\ \A j \in 1..n : p \in Share(t, u[j]) => j = i
      BY <1>4, <2>2
    <3>2. m + i \in 1..(m + n) /\ p \in Share(t, s[m + i])
      BY <1>1, <1>2, <3>1
    <3>3. ASSUME NEW j \in 1..(m + n), p \in Share(t, s[j]) PROVE j = m + i
      <4>1. j - m \in 1..n /\ s[j] = u[j - m]
        BY <1>3, <1>5, <2>2, <3>3
      <4>2. j - m = i
        BY <3>1, <3>3, <4>1
      <4>3. QED BY <1>1, <4>2
    <3>4. QED BY <3>2, <3>3
  <2>3. QED BY <2>1, <2>2
<1>8. QED BY <1>2, <1>6, <1>7 DEF Covers, s, Fits, m, n

\* flatten of FlattenSeq: what the first lists make.
LEMMA FlattenExists ==
  ASSUME NEW seqs, NEW n \in Nat
  PROVE  \E g : g = [i \in 1..n |-> IF i = 1 THEN seqs[i] ELSE g[i - 1] \o seqs[i]]
<1> DEFINE Def(g, i) == IF i = 1 THEN seqs[i] ELSE g[i - 1] \o seqs[i]
           Has(m) == \E g : g = [i \in 1..m |-> Def(g, i)]
           Bad == {m \in Nat : ~Has(m)}
<1>1. Bad = {}
  <2>1. SUFFICES ASSUME Bad # {} PROVE FALSE
    OBVIOUS
  <2>2. Bad \subseteq Nat
    OBVIOUS
  <2>3. PICK m \in Bad : \A j \in Bad : m <= j
    <3> HIDE DEF Bad
    <3> QED BY <2>1, <2>2, Least
  <2>4. m \in Nat /\ ~Has(m)
    BY <2>3
  <2>5. \E g : m # 0 => g = [i \in 1..m - 1 |-> Def(g, i)]
    <3>1. SUFFICES ASSUME m # 0 PROVE Has(m - 1)
      OBVIOUS
    <3>2. m - 1 \in Nat /\ ~(m <= m - 1)
      BY <2>4, <3>1
    <3>3. m - 1 \notin Bad
      <4> HIDE DEF Bad
      <4> QED BY <2>3, <3>2
    <3>4. QED BY <3>2, <3>3
  <2>6. PICK g : m # 0 => g = [i \in 1..m - 1 |-> Def(g, i)]
    BY <2>5
  <2> DEFINE h == [i \in 1..m |-> Def(g, i)]
  <2>7. ASSUME NEW i \in 1..m PROVE h[i] = Def(h, i)
    <3>1. CASE i = 1
      BY <3>1
    <3>2. CASE i # 1
      <4>1. m # 0 /\ i - 1 \in 1..m - 1 /\ i - 1 \in 1..m
        BY <2>4, <3>2
      <4>2. g[i - 1] = Def(g, i - 1) /\ h[i - 1] = Def(g, i - 1)
        BY <2>6, <4>1
      <4>3. h[i] = g[i - 1] \o seqs[i] /\ Def(h, i) = h[i - 1] \o seqs[i]
        BY <3>2
      <4>4. QED BY <4>2, <4>3
    <3>3. QED BY <3>1, <3>2
  <2>8. h = [i \in 1..m |-> Def(h, i)]
    <3>1. h = [i \in 1..m |-> h[i]]
      OBVIOUS
    <3> HIDE DEF h
    <3>2. QED BY <2>7, <3>1
  <2>9. QED BY <2>4, <2>8
<1>2. Has(n)
  BY <1>1
<1>3. QED BY <1>2

Together(who, n) == UNION {who[i] : i \in 1..n}

CoverApart(t, seqs, who, n) == \A i \in 1..n :
  Covers(t, seqs[i], who[i]) /\ \A j \in 1..n : i # j => who[i] \cap who[j] = {}

\* Lists that cover sets apart, one after the other.
LEMMA FlattenCovers ==
  ASSUME NEW t, NEW n \in Nat, NEW X, NEW seqs \in [1..n -> X], NEW who,
         CoverApart(t, seqs, who, n)
  PROVE  Covers(t, V!FlattenSeq(seqs), Together(who, n))
<1> USE DEF CoverApart
<1>1. Len(seqs) = n
  <2>1. seqs \in Seq(X) /\ DOMAIN seqs = 1..n
    OBVIOUS
  <2>2. QED BY <2>1
<1>2. CASE n = 0
  <2>1. seqs = << >>
    BY <1>2
  <2>2. V!FlattenSeq(seqs) = << >>
    BY <1>1, <1>2, <2>1 DEF V!FlattenSeq
  <2>3. Together(who, n) = {}
    BY <1>2 DEF Together
  <2>4. Covers(t, << >>, {})
    BY DEF Covers
  <2>5. QED BY <2>2, <2>3, <2>4
<1>3. CASE n # 0
  <2> DEFINE g == CHOOSE g : g = [i \in 1..n |-> IF i = 1 THEN seqs[i] ELSE g[i - 1] \o seqs[i]]
  <2>1. g = [i \in 1..n |-> IF i = 1 THEN seqs[i] ELSE g[i - 1] \o seqs[i]]
    <3>1. \E f : f = [i \in 1..n |-> IF i = 1 THEN seqs[i] ELSE f[i - 1] \o seqs[i]]
      BY FlattenExists
    <3>2. QED BY Zenon, <3>1
  <2>2. V!FlattenSeq(seqs) = g[n]
    <3>1. V!FlattenSeq(seqs) =
            IF Len(seqs) = 0 THEN seqs
            ELSE (CHOOSE f : f = [i \in 1..Len(seqs) |-> IF i = 1 THEN seqs[i] ELSE f[i - 1] \o seqs[i]])[Len(seqs)]
      BY Zenon DEF V!FlattenSeq
    <3>2. QED BY <1>1, <1>3, <3>1
  <2> HIDE DEF g
  <2> DEFINE upto(m) == UNION {who[i] : i \in 1..m}
             Bad == {m \in 1..n : ~Covers(t, g[m], upto(m))}
  <2>3. Bad = {}
    <3>1. SUFFICES ASSUME Bad # {} PROVE FALSE
      OBVIOUS
    <3>2. Bad \subseteq Nat
      OBVIOUS
    <3>3. PICK m \in Bad : \A j \in Bad : m <= j
      <4> HIDE DEF Bad
      <4> QED BY <3>1, <3>2, Least
    <3>4. m \in 1..n /\ ~Covers(t, g[m], upto(m))
      BY <3>3
    <3>5. CASE m = 1
      <4>1. g[m] = seqs[1]
        BY <2>1, <3>4, <3>5
      <4>2. upto(m) = who[1]
        BY <3>5
      <4>3. Covers(t, seqs[1], who[1])
        BY <3>4, <3>5
      <4>4. QED BY <3>4, <4>1, <4>2, <4>3
    <3>6. CASE m # 1
      <4>1. m - 1 \in 1..n /\ ~(m <= m - 1)
        BY <3>4, <3>6
      <4>2. m - 1 \notin Bad
        <5> HIDE DEF Bad
        <5> QED BY <3>3, <4>1
      <4>3. Covers(t, g[m - 1], upto(m - 1)) /\ Covers(t, seqs[m], who[m])
        BY <3>4, <4>1, <4>2
      <4>4. g[m] = g[m - 1] \o seqs[m]
        BY <2>1, <3>4, <3>6
      <4>5. upto(m - 1) \cap who[m] = {}
        <5>1. \A i \in 1..m - 1 : i \in 1..n /\ i # m
          BY <3>4
        <5>2. \A i \in 1..m - 1 : who[i] \cap who[m] = {}
          BY <3>4, <5>1
        <5>3. QED BY <5>2
      <4>6. upto(m) = upto(m - 1) \cup who[m]
        <5>1. 1..m = (1..m - 1) \cup {m}
          BY <3>4
        <5>2. QED BY <5>1
      <4> HIDE DEF upto
      <4>7. Covers(t, g[m - 1] \o seqs[m], upto(m - 1) \cup who[m])
        BY <4>3, <4>5, CoversBoth
      <4>8. QED BY <3>4, <4>4, <4>6, <4>7
    <3>7. QED BY <3>5, <3>6
  <2>4. n \in 1..n
    BY <1>3
  <2>5. Covers(t, g[n], upto(n))
    <3> HIDE DEF upto
    <3>1. QED BY <2>3, <2>4
  <2>6. upto(n) = Together(who, n)
    BY DEF Together
  <2>7. QED BY <2>2, <2>5, <2>6
<1>4. QED BY <1>2, <1>3

-----------------------------------------------------------------------------
(* Siblings in order. *)

\* valkyrie counts as the library does.
LEMMA CountsAlike == \A T : V!Cardinality(T) = Cardinality(T)
BY DEF V!Cardinality, Cardinality

\* A scan of finitely many processes, with numbers to sort by.
Scan(t) ==
  /\ IsFiniteSet(DOMAIN t) /\ DOMAIN t \subseteq Nat
  /\ \A p \in DOMAIN t : t[p].cpu \in Int /\ t[p].rss \in Int

SortKeys == {"cpu", "mem", "pid"}

\* The order of a sort key is one.
LEMMA BeforeOrders ==
  ASSUME NEW t, Scan(t), NEW by \in SortKeys
  PROVE  /\ \A a \in DOMAIN t : ~V!Before(t, by, a, a)
         /\ \A a, b \in DOMAIN t : a = b \/ V!Before(t, by, a, b) \/ V!Before(t, by, b, a)
         /\ \A a, b, c \in DOMAIN t :
              V!Before(t, by, a, b) /\ V!Before(t, by, b, c) => V!Before(t, by, a, c)
<1> DEFINE less(p, q) ==
      \/ by = "cpu" /\ t[q].cpu < t[p].cpu
      \/ (by = "cpu" => t[q].cpu = t[p].cpu) /\ by # "pid" /\ t[q].rss < t[p].rss
      \/ (by = "cpu" => t[q].cpu = t[p].cpu) /\ (by # "pid" => t[q].rss = t[p].rss) /\ p < q
<1>1. \A p \in DOMAIN t : p \in Nat /\ t[p].cpu \in Int /\ t[p].rss \in Int
  BY DEF Scan
<1>2. ASSUME NEW p \in DOMAIN t, NEW q \in DOMAIN t PROVE V!Before(t, by, p, q) <=> less(p, q)
  <2>1. CASE by = "cpu"
    BY <1>1, <2>1 DEF V!Before
  <2>2. CASE by = "mem"
    BY <1>1, <2>2 DEF V!Before
  <2>3. CASE by = "pid"
    BY <1>1, <2>3 DEF V!Before
  <2>4. QED BY <2>1, <2>2, <2>3 DEF SortKeys
<1>3. \A a \in DOMAIN t : ~less(a, a)
  BY <1>1 DEF SortKeys
<1>4. \A a, b \in DOMAIN t : a = b \/ less(a, b) \/ less(b, a)
  BY <1>1 DEF SortKeys
<1>5. \A a, b, c \in DOMAIN t : less(a, b) /\ less(b, c) => less(a, c)
  BY <1>1 DEF SortKeys
<1> HIDE DEF less
<1>6. QED BY <1>2, <1>3, <1>4, <1>5

\* Sorted lists each of them once.
LEMMA SortedLists ==
  ASSUME NEW t, Scan(t), NEW by \in SortKeys, NEW T, T \subseteq DOMAIN t
  PROVE  /\ IsFiniteSet(T) /\ Cardinality(T) \in Nat
         /\ V!Sorted(t, by, T) \in [1..Cardinality(T) -> T]
         /\ \A a \in T : \E i \in 1..Cardinality(T) : V!Sorted(t, by, T)[i] = a
         /\ \A i, j \in 1..Cardinality(T) : i # j => V!Sorted(t, by, T)[i] # V!Sorted(t, by, T)[j]
<1> DEFINE ahead == [a \in T |-> {b \in T : V!Before(t, by, b, a)}]
           n == Cardinality(T)
           nth(i) == CHOOSE a \in T : V!Cardinality({b \in T : V!Before(t, by, b, a)}) = i - 1
           q == V!Sorted(t, by, T)
<1>1. IsFiniteSet(T) /\ n \in Nat
  BY FS_Subset, FS_CardinalityType DEF Scan
<1>2. \A a \in T : ahead[a] = {b \in T : V!Before(t, by, b, a)}
  OBVIOUS
<1>3. q = [i \in 1..V!Cardinality(T) |-> nth(i)]
  BY Zenon DEF V!Sorted, V!InOrder
<1> HIDE DEF ahead
<1>4. Ordered(T, ahead)
  <2>1. ASSUME NEW a \in T PROVE ahead[a] \subseteq T /\ a \notin ahead[a]
    BY <1>2, BeforeOrders
  <2>2. ASSUME NEW a \in T, NEW b \in T PROVE a = b \/ a \in ahead[b] \/ b \in ahead[a]
    BY <1>2, BeforeOrders
  <2>3. ASSUME NEW a \in T, NEW b \in ahead[a] PROVE ahead[b] \subseteq ahead[a]
    BY <1>2, BeforeOrders
  <2>4. QED BY <2>1, <2>2, <2>3 DEF Ordered
<1>5. ASSUME NEW i \in 1..n PROVE nth(i) \in T /\ Cardinality(ahead[nth(i)]) = i - 1
  <2>1. PICK a \in T : Cardinality(ahead[a]) = i - 1
    BY <1>1, <1>4, Placed
  <2>2. V!Cardinality({b \in T : V!Before(t, by, b, a)}) = i - 1
    BY <1>2, <2>1, CountsAlike
  <2>3. nth(i) \in T /\ V!Cardinality({b \in T : V!Before(t, by, b, nth(i))}) = i - 1
    BY Zenon, <2>2
  <2> HIDE DEF nth
  <2>4. QED BY <1>2, <2>3, CountsAlike
<1>6. q = [i \in 1..n |-> nth(i)]
  BY <1>3, CountsAlike
<1> HIDE DEF nth, q
<1>7. InLine(T, ahead, q)
  BY <1>5, <1>6 DEF InLine
<1>8. /\ \A a \in T : \E i \in DOMAIN q : q[i] = a
      /\ \A i, j \in DOMAIN q : i < j => q[i] \in ahead[q[j]]
  BY <1>1, <1>4, <1>7, Lined
<1>9. q \in [1..n -> T]
  BY <1>7 DEF InLine
<1>10. ASSUME NEW i \in 1..n, NEW j \in 1..n, i # j PROVE q[i] # q[j]
  <2>1. i < j \/ j < i
    BY <1>1, <1>10
  <2>2. q[i] \in ahead[q[j]] \/ q[j] \in ahead[q[i]]
    BY <1>8, <1>9, <2>1
  <2>3. q[i] \in T /\ q[j] \in T
    BY <1>9
  <2>4. QED BY <1>4, <2>2, <2>3 DEF Ordered
<1>11. QED BY <1>1, <1>8, <1>9, <1>10 DEF q

-----------------------------------------------------------------------------
(***************************************************************************)
(* The walk covers what it comes to.                                       *)
(***************************************************************************)

\* Walk of Build: the rows of p's subtree, where u is what is under whom.
Visit(t, v, u, f, left, p) ==
  IF V!Collapsed(t, v, p)
  THEN <<V!Row(t, p, V!Cardinality(DOMAIN t \ left), V!Cardinality(u[p]) - 1, TRUE)>>
  ELSE <<V!Row(t, p, V!Cardinality(DOMAIN t \ left), 0, V!Sorted(t, v.sort, V!Kids(t, p)) # << >>)>>
       \o V!FlattenSeq([i \in DOMAIN V!Sorted(t, v.sort, V!Kids(t, p)) |->
                          f[V!Sorted(t, v.sort, V!Kids(t, p))[i]]])

Visits(t, v, u, g, left) == [p \in DOMAIN t |->
  IF p \notin left THEN << >> ELSE Visit(t, v, u, g[left \ {p}], left, p)]

\* There is such a function.
LEMMA WalkExists ==
  ASSUME NEW t, IsFiniteSet(DOMAIN t), NEW v, NEW u
  PROVE  \E g : g = [left \in SUBSET DOMAIN t |-> Visits(t, v, u, g, left)]
<1> DEFINE all == DOMAIN t
           Upto(n) == {s \in SUBSET all : Cardinality(s) < n}
           Has(n) == \E g : g = [s \in Upto(n) |-> Visits(t, v, u, g, s)]
           Bad == {n \in Nat : ~Has(n)}
<1>1. Bad = {}
  <2>1. SUFFICES ASSUME Bad # {} PROVE FALSE
    OBVIOUS
  <2>2. Bad \subseteq Nat
    OBVIOUS
  <2>3. PICK n \in Bad : \A m \in Bad : n <= m
    <3> HIDE DEF Bad
    <3> QED BY <2>1, <2>2, Least
  <2>4. n \in Nat /\ ~Has(n)
    BY <2>3
  <2>5. \E g : n # 0 => g = [s \in Upto(n - 1) |-> Visits(t, v, u, g, s)]
    <3>1. SUFFICES ASSUME n # 0 PROVE Has(n - 1)
      OBVIOUS
    <3>2. n - 1 \in Nat /\ ~(n <= n - 1)
      BY <2>4, <3>1
    <3>3. n - 1 \notin Bad
      <4> HIDE DEF Bad
      <4> QED BY <2>3, <3>2
    <3>4. QED BY <3>2, <3>3
  <2>6. PICK g : n # 0 => g = [s \in Upto(n - 1) |-> Visits(t, v, u, g, s)]
    BY <2>5
  <2> DEFINE h == [s \in Upto(n) |-> Visits(t, v, u, g, s)]
  <2>7. ASSUME NEW s \in Upto(n) PROVE h[s] = Visits(t, v, u, h, s)
    <3>1. ASSUME NEW p \in s PROVE g[s \ {p}] = h[s \ {p}]
      <4> DEFINE r == s \ {p}
      <4>1. r \in SUBSET all /\ Cardinality(s) \in Nat \ {0} /\ Cardinality(r) = Cardinality(s) - 1
        BY <2>7, <3>1, OneLess
      <4>2. n # 0 /\ r \in Upto(n - 1) /\ r \in Upto(n)
        BY <2>4, <2>7, <4>1
      <4> HIDE DEF r
      <4>3. g[r] = Visits(t, v, u, g, r)
        <5> HIDE DEF Upto
        <5> QED BY <2>6, <4>2
      <4>4. QED BY <4>2, <4>3 DEF r
    <3>2. Visits(t, v, u, g, s) = Visits(t, v, u, h, s)
      <4> HIDE DEF h
      <4> QED BY <3>1 DEF Visits
    <3>3. QED BY <3>2
  <2>8. h = [s \in Upto(n) |-> Visits(t, v, u, h, s)]
    <3>1. h = [s \in Upto(n) |-> h[s]]
      OBVIOUS
    <3> HIDE DEF h, Upto
    <3>2. QED BY <2>7, <3>1
  <2>9. QED BY <2>4, <2>8
<1>2. Cardinality(all) + 1 \in Nat /\ Upto(Cardinality(all) + 1) = SUBSET all
  <2>1. \A s \in SUBSET all : Cardinality(s) <= Cardinality(all) /\ Cardinality(s) \in Nat
    BY FS_Subset, FS_CardinalityType
  <2>2. Cardinality(all) \in Nat
    BY FS_CardinalityType
  <2> HIDE DEF all
  <2>3. QED BY <2>1, <2>2
<1>3. Has(Cardinality(all) + 1)
  BY <1>1, <1>2
<1>4. QED BY <1>2, <1>3

\* One row.
LEMMA OneCovers ==
  ASSUME NEW t, NEW r \in TreeRows(t),
         r.count \in {0, Cardinality(Family(t, r.pid)) - 1}
  PROVE  Covers(t, <<r>>, Share(t, r))
<1>1. <<r>> \in Seq(TreeRows(t)) /\ Len(<<r>>) = 1 /\ <<r>>[1] = r
  OBVIOUS
<1> DEFINE w == <<r>>
<1> HIDE DEF w
<1>2. w \in Seq(TreeRows(t)) /\ Len(w) = 1 /\ w[1] = r
  BY <1>1 DEF w
<1>3. \A i \in 1..1 : i = 1
  OBVIOUS
<1>4. Covers(t, w, Share(t, r))
  BY <1>2, <1>3 DEF Covers
<1>5. QED BY <1>4 DEF w

\* The families of T, in their order.
LEMMA AllCovered ==
  ASSUME NEW t, Scan(t), NEW by \in SortKeys, NEW f,
         NEW T, T = V!Roots(t) \/ \E p \in Grounded(t) : T = V!Kids(t, p),
         \A c \in T : Covers(t, f[c], Family(t, c))
  PROVE  Covers(t, V!FlattenSeq([i \in DOMAIN V!Sorted(t, by, T) |-> f[V!Sorted(t, by, T)[i]]]),
                UNION {Family(t, c) : c \in T})
<1> DEFINE q == V!Sorted(t, by, T)
           n == Cardinality(T)
           seqs == [i \in DOMAIN q |-> f[q[i]]]
           who == [i \in 1..n |-> Family(t, q[i])]
           X == {f[c] : c \in T}
<1>1. T \subseteq DOMAIN t /\ \A c, d \in T : c # d => Family(t, c) \cap Family(t, d) = {}
  BY SiblingsApart, GroundedIs
<1>2. /\ n \in Nat /\ q \in [1..n -> T]
      /\ \A a \in T : \E i \in 1..n : q[i] = a
      /\ \A i, j \in 1..n : i # j => q[i] # q[j]
  BY <1>1, SortedLists
<1> HIDE DEF q, n
<1>3. /\ seqs \in [1..n -> X]
      /\ CoverApart(t, seqs, who, n)
  BY <1>1, <1>2 DEF CoverApart
<1>4. Together(who, n) = UNION {Family(t, c) : c \in T}
  BY <1>2 DEF Together
<1> HIDE DEF seqs, who, X
<1>5. Covers(t, V!FlattenSeq(seqs), Together(who, n))
  BY <1>2, <1>3, FlattenCovers
<1>6. QED BY <1>4, <1>5 DEF seqs, q

\* A visit covers the family, if those of the children are covered.
LEMMA VisitCovers ==
  ASSUME NEW t, Scan(t), NEW v, v.sort \in SortKeys, NEW left,
         NEW u, NEW f, NEW p \in Grounded(t), u[p] = Family(t, p),
         \A c \in V!Kids(t, p) : Covers(t, f[c], Family(t, c))
  PROVE  Covers(t, Visit(t, v, u, f, left, p), Family(t, p))
<1> DEFINE depth == V!Cardinality(DOMAIN t \ left)
           kids == V!Sorted(t, v.sort, V!Kids(t, p))
           rest == UNION {Family(t, c) : c \in V!Kids(t, p)}
           Line(count, folds) == V!Row(t, p, depth, count, folds)
<1>1. p \in DOMAIN t /\ Family(t, p) = {p} \cup rest /\ Family(t, p) \subseteq DOMAIN t /\ p \in Family(t, p)
  BY GroundedIs, FamilyIs
<1>2. p \notin rest
  BY NoRing
<1>3. depth \in Nat
  <2>1. IsFiniteSet(DOMAIN t \ left)
    BY FS_Subset DEF Scan
  <2>2. QED BY <2>1, FS_CardinalityType, CountsAlike
<1>4. ASSUME NEW count \in Nat, NEW folds \in BOOLEAN
      PROVE  /\ Line(count, folds) \in TreeRows(t)
             /\ Line(count, folds).pid = p /\ Line(count, folds).count = count
  BY <1>1, <1>3 DEF V!Row, TreeRows
<1> HIDE DEF depth, rest, Line, kids
<1>5. CASE V!Collapsed(t, v, p)
  <2> DEFINE n == V!Cardinality(u[p]) - 1
  <2>1. n = Cardinality(Family(t, p)) - 1 /\ n \in Nat \ {0}
    <3>1. PICK c \in V!Kids(t, p) : TRUE
      BY <1>5 DEF V!Collapsed
    <3>2. c # p /\ c \in Family(t, p)
      BY FamilyIs, <1>1 DEF V!Kids
    <3>3. IsFiniteSet(Family(t, p))
      BY <1>1, FS_Subset DEF Scan
    <3>4. IsFiniteSet({c, p}) /\ Cardinality({c, p}) = 2
      <4>1. IsFiniteSet({p}) /\ Cardinality({p}) = 1 /\ c \notin {p}
        BY <3>2, FS_Singleton
      <4>2. IsFiniteSet({p} \cup {c}) /\ Cardinality({p} \cup {c}) = Cardinality({p}) + 1
        BY <4>1, FS_AddElement
      <4>3. {p} \cup {c} = {c, p}
        OBVIOUS
      <4>4. QED BY <4>1, <4>2, <4>3
    <3>5. Cardinality({c, p}) <= Cardinality(Family(t, p)) /\ Cardinality(Family(t, p)) \in Nat
      BY <1>1, <3>2, <3>3, FS_Subset, FS_CardinalityType
    <3>6. Cardinality(u[p]) = Cardinality(Family(t, p)) /\ V!Cardinality(u[p]) = Cardinality(u[p])
      BY CountsAlike
    <3>7. QED BY <3>4, <3>5, <3>6
  <2>2. Visit(t, v, u, f, left, p) = <<Line(n, TRUE)>>
    BY <1>5 DEF Visit, Line, depth
  <2> HIDE DEF n
  <2>3. Line(n, TRUE) \in TreeRows(t) /\ Line(n, TRUE).pid = p /\ Line(n, TRUE).count = n
    BY <1>4, <2>1
  <2>4. Share(t, Line(n, TRUE)) = Family(t, p)
    BY <2>1, <2>3 DEF Share
  <2>5. Covers(t, <<Line(n, TRUE)>>, Share(t, Line(n, TRUE)))
    BY <2>1, <2>3, OneCovers
  <2>6. QED BY <2>2, <2>4, <2>5
<1>6. CASE ~V!Collapsed(t, v, p)
  <2> DEFINE below == V!FlattenSeq([i \in DOMAIN kids |-> f[kids[i]]])
             head == Line(0, kids # << >>)
  <2>1. Visit(t, v, u, f, left, p) = <<head>> \o below
    BY <1>6 DEF Visit, Line, depth, kids
  <2>2. Covers(t, below, rest)
    BY AllCovered DEF kids, rest
  <2>3. head \in TreeRows(t) /\ head.pid = p /\ head.count = 0
    BY <1>4
  <2> HIDE DEF below, head
  <2>4. Covers(t, <<head>>, Share(t, head)) /\ Share(t, head) = {p}
    BY <2>3, OneCovers DEF Share
  <2>5. {p} \cap rest = {}
    BY <1>2
  <2>6. Covers(t, <<head>> \o below, {p} \cup rest)
    BY <2>2, <2>4, <2>5, CoversBoth
  <2>7. QED BY <1>1, <2>1, <2>6
<1>7. QED BY <1>5, <1>6

\* The walk covers the family of a grounded process, whatever else is left.
LEMMA WalkCovers ==
  ASSUME NEW t, Scan(t), NEW v, v.sort \in SortKeys,
         NEW u, \A p \in Grounded(t) : u[p] = Family(t, p),
         NEW g, g = [left \in SUBSET DOMAIN t |-> Visits(t, v, u, g, left)],
         NEW left \in SUBSET DOMAIN t, NEW p \in Grounded(t), Family(t, p) \subseteq left
  PROVE  Covers(t, g[left][p], Family(t, p))
<1> DEFINE all == DOMAIN t
           Wrong(s) == \E q \in Grounded(t) : Family(t, q) \subseteq s /\ ~Covers(t, g[s][q], Family(t, q))
           Bad == {s \in SUBSET all : Wrong(s)}
<1>1. Bad = {}
  <2>1. SUFFICES ASSUME Bad # {} PROVE FALSE
    OBVIOUS
  <2>2. PICK s \in Bad : \A r \in Bad : Cardinality(s) <= Cardinality(r)
    <3>1. Bad \subseteq SUBSET all
      OBVIOUS
    <3> HIDE DEF Bad, all
    <3>2. IsFiniteSet(all)
      BY DEF all, Scan
    <3>3. QED BY <2>1, <3>1, <3>2, Smallest
  <2>3. PICK q \in Grounded(t) : Family(t, q) \subseteq s /\ ~Covers(t, g[s][q], Family(t, q))
    BY <2>2
  <2>4. s \in SUBSET all /\ q \in all /\ q \in s
    BY <2>2, <2>3, GroundedIs, FamilyIs
  <2> DEFINE r == s \ {q}
  <2>5. r \in SUBSET all /\ Cardinality(r) = Cardinality(s) - 1 /\ Cardinality(s) \in Nat
    BY <2>4, OneLess DEF Scan
  <2>6. ~Wrong(r)
    <3>1. ~(Cardinality(s) <= Cardinality(r))
      BY <2>5
    <3>2. r \notin Bad
      <4> HIDE DEF Bad, r
      <4> QED BY <2>2, <3>1
    <3>3. QED BY <2>5, <3>2
  <2>7. ASSUME NEW c \in V!Kids(t, q) PROVE Covers(t, g[r][c], Family(t, c))
    <3>1. c \in Grounded(t) /\ Family(t, c) \subseteq Family(t, q)
      BY <2>3, <2>4, <2>7, GroundedIs, FamilyIs
    <3>2. q \notin Family(t, c)
      BY <2>3, NoRing
    <3>3. Family(t, c) \subseteq r
      BY <2>3, <3>1, <3>2
    <3>4. QED BY <2>6, <3>1, <3>3
  <2>8. g[s][q] = Visit(t, v, u, g[r], s, q)
    <3>1. g[s] = Visits(t, v, u, g, s)
      BY <2>4
    <3>2. QED BY <2>4, <3>1 DEF Visits
  <2> HIDE DEF r, all, Bad
  <2>9. Covers(t, Visit(t, v, u, g[r], s, q), Family(t, q))
    BY <2>3, <2>7, VisitCovers
  <2>10. QED BY <2>3, <2>8, <2>9
<1>2. QED BY <1>1

\* build covers all that is on no ring.
LEMMA BuildCovers ==
  ASSUME NEW t, Scan(t), NEW v, v.sort \in SortKeys
  PROVE  Covers(t, V!Build(t, v), Grounded(t))
<1> DEFINE under == CHOOSE g : g = [left \in SUBSET DOMAIN t |-> Parts(t, g, left)]
           walk == CHOOSE g : g = [left \in SUBSET DOMAIN t |-> Visits(t, v, under[DOMAIN t], g, left)]
           q == V!Sorted(t, v.sort, V!Roots(t))
<1>1. V!Build(t, v) = V!FlattenSeq([i \in DOMAIN q |-> walk[DOMAIN t][q[i]]])
  BY Zenon DEF V!Build, Visits, Visit, Parts, Part
<1>2. under = [left \in SUBSET DOMAIN t |-> Parts(t, under, left)]
  <2>1. \E g : g = [left \in SUBSET DOMAIN t |-> Parts(t, g, left)]
    BY UnderExists DEF Scan
  <2>2. QED BY Zenon, <2>1
<1> HIDE DEF under
<1>3. walk = [left \in SUBSET DOMAIN t |-> Visits(t, v, under[DOMAIN t], walk, left)]
  <2>1. \E g : g = [left \in SUBSET DOMAIN t |-> Visits(t, v, under[DOMAIN t], g, left)]
    BY WalkExists DEF Scan
  <2>2. QED BY Zenon, <2>1
<1> HIDE DEF walk
<1>4. ASSUME NEW p \in Grounded(t)
      PROVE  Family(t, p) \subseteq DOMAIN t /\ under[DOMAIN t][p] = Family(t, p)
  <2>1. Family(t, p) \subseteq DOMAIN t /\ DOMAIN t \in SUBSET DOMAIN t
    BY GroundedIs, FamilyIs
  <2>2. QED BY <1>2, <2>1, UnderIsFamily DEF Scan
<1>5. ASSUME NEW p \in Grounded(t) PROVE Covers(t, walk[DOMAIN t][p], Family(t, p))
  <2> DEFINE u == under[DOMAIN t]
             all == DOMAIN t
  <2>1. /\ \A r \in Grounded(t) : u[r] = Family(t, r)
        /\ walk = [left \in SUBSET DOMAIN t |-> Visits(t, v, u, walk, left)]
        /\ all \in SUBSET DOMAIN t /\ Family(t, p) \subseteq all
    BY <1>3, <1>4
  <2> HIDE DEF u, all
  <2>2. Covers(t, walk[all][p], Family(t, p))
    BY <2>1, WalkCovers
  <2>3. QED BY <2>2 DEF all
<1>6. UNION {Family(t, r) : r \in V!Roots(t)} = Grounded(t) /\ V!Roots(t) \subseteq Grounded(t)
  BY GroundedIs
<1> DEFINE f == walk[DOMAIN t]
           T == V!Roots(t)
<1>7. T = V!Roots(t) /\ \A r \in T : Covers(t, f[r], Family(t, r))
  BY <1>5, <1>6
<1> HIDE DEF f, T
<1>8. Covers(t, V!FlattenSeq([i \in DOMAIN V!Sorted(t, v.sort, T) |-> f[V!Sorted(t, v.sort, T)[i]]]),
             UNION {Family(t, c) : c \in T})
  BY <1>7, AllCovered
<1>9. QED BY <1>1, <1>6, <1>8 DEF f, T

-----------------------------------------------------------------------------
(***************************************************************************)
(* valkyrie: what is shown. The rows are those of the last scan.           *)
(***************************************************************************)
snapshot == v2

USE DEF snapshot

RowsInv ==
  /\ "sort" \in DOMAIN view /\ view.sort \in SortKeys
  /\ Scan(snapshot)
  /\ rows = V!Rows(snapshot, view)

TablesAssumption == ProcessLimit \in Nat /\ \A table \in Tables : Scan(table)

\* A refresh shows what it was given.
LEMMA RefreshShows ==
  ASSUME NEW t, NEW v, V!Refresh(t, v), Scan(t), "sort" \in DOMAIN v, v.sort \in SortKeys
  PROVE  RowsInv'
BY DEF V!Refresh, RowsInv

\* A rescan shows the processes in scope.
LEMMA RescanShows ==
  ASSUME TablesAssumption, NEW v, V!Rescan(v), "sort" \in DOMAIN v, v.sort \in SortKeys
  PROVE  RowsInv'
<1>1. PICK table \in Tables : V!Refresh(V!Restrict(table,
        {p \in DOMAIN table : v.mine => table[p].mine}), v)
  BY DEF V!Rescan
<1> DEFINE scope == {p \in DOMAIN table : v.mine => table[p].mine}
           t == V!Restrict(table, scope)
<1>2. Scan(t)
  <2>1. Scan(table) /\ scope \subseteq DOMAIN table
    BY DEF TablesAssumption
  <2>2. DOMAIN t = scope /\ \A p \in scope : t[p] = table[p]
    BY DEF V!Restrict
  <2>3. IsFiniteSet(scope)
    BY <2>1, FS_Subset DEF Scan
  <2> HIDE DEF t, scope
  <2>4. QED BY <2>1, <2>2, <2>3 DEF Scan
<1>3. V!Refresh(t, v)
  BY <1>1
<1> HIDE DEF t
<1>4. QED BY <1>2, <1>3, RefreshShows

\* A step that leaves the list alone.
LEMMA ListShows ==
  ASSUME RowsInv, view' = view, snapshot' = snapshot, rows' = rows
  PROVE  RowsInv'
BY DEF RowsInv

LEMMA RowsStep ==
  ASSUME RowsInv, TablesAssumption, [V!Next]_(V!vars)
  PROVE  RowsInv'
<1>1. "sort" \in DOMAIN view /\ view.sort \in SortKeys /\ Scan(snapshot)
  BY DEF RowsInv
<1>2. CASE V!Tick \/ V!Act
  BY <1>1, <1>2, RescanShows DEF V!Tick, V!Act
<1>3. ASSUME V!EditQuery PROVE RowsInv'
  <2>1. PICK q \in ProcessQueries : V!Refresh(snapshot, [view EXCEPT !.query = q])
    BY <1>3 DEF V!EditQuery
  <2> DEFINE v == [view EXCEPT !.query = q]
  <2>2. "sort" \in DOMAIN v /\ v.sort = view.sort
    BY <1>1
  <2>3. V!Refresh(snapshot, v)
    BY <2>1
  <2> HIDE DEF v
  <2>4. QED BY <1>1, <2>2, <2>3, RefreshShows
<1>4. ASSUME V!CycleSort PROVE RowsInv'
  <2> DEFINE next == [cpu |-> "mem", mem |-> "pid", pid |-> "cpu"]
             v == [view EXCEPT !.sort = next[@]]
  <2>1. V!Refresh(snapshot, v)
    BY <1>4 DEF V!CycleSort
  <2>2. "sort" \in DOMAIN v /\ v.sort = next[view.sort]
    BY <1>1
  <2>3. next[view.sort] \in SortKeys
    BY <1>1 DEF SortKeys
  <2> HIDE DEF v, next
  <2>4. QED BY <1>1, <2>1, <2>2, <2>3, RefreshShows
<1>5. ASSUME V!ToggleTree PROVE RowsInv'
  <2> DEFINE v == [view EXCEPT !.tree = ~@]
  <2>1. V!Refresh(snapshot, v)
    BY <1>5 DEF V!ToggleTree
  <2>2. "sort" \in DOMAIN v /\ v.sort = view.sort
    BY <1>1
  <2> HIDE DEF v
  <2>3. QED BY <1>1, <2>1, <2>2, RefreshShows
<1>6. ASSUME V!ToggleScope PROVE RowsInv'
  <2> DEFINE v == [view EXCEPT !.mine = ~@]
  <2>1. V!Rescan(v)
    BY <1>6 DEF V!ToggleScope
  <2>2. "sort" \in DOMAIN v /\ v.sort = view.sort
    BY <1>1
  <2> HIDE DEF v
  <2>3. QED BY <1>1, <2>1, <2>2, RescanShows
<1>7. ASSUME NEW add \in {"collapsed", "expanded"}, NEW del \in {"collapsed", "expanded"}, V!Fold(add, del)
      PROVE  RowsInv'
  <2> DEFINE v == [view EXCEPT ![add] = @ \cup {V!Selected}, ![del] = @ \ {V!Selected}]
  <2>1. V!Refresh(snapshot, v)
    BY Zenon, <1>7 DEF V!Fold
  <2>2. "sort" \in DOMAIN v /\ v.sort = view.sort
    <3> DEFINE w == [view EXCEPT ![add] = view[add] \cup {V!Selected}]
    <3>1. "sort" \in DOMAIN w /\ w.sort = view.sort
      BY <1>1
    <3>2. v = [w EXCEPT ![del] = w[del] \ {V!Selected}]
      BY Zenon
    <3> HIDE DEF w, v
    <3>3. QED BY <3>1, <3>2
  <2> HIDE DEF v
  <2>3. QED BY <1>1, <2>1, <2>2, RefreshShows
<1>8. CASE V!Move
  <2>1. view' = view /\ snapshot' = snapshot /\ rows' = rows
    BY <1>8 DEF V!Move
  <2>2. QED BY <2>1, ListShows
<1>9. CASE V!OpenChooser \/ V!UseChooser \/ V!KeyDown \/ V!KeyUp \/ V!Gap
  <2>1. CASE V!OpenChooser \/ V!UseChooser
    <3>1. V!OtherKey /\ sent' = Nothing /\ UNCHANGED <<V!listVars, aim>>
      BY Zenon, <2>1 DEF V!OpenChooser, V!UseChooser, V!Pressed
    <3>2. QED BY <3>1, ListShows DEF V!listVars
  <2>2. CASE V!KeyDown
    <3>1. view' = view /\ snapshot' = snapshot /\ rows' = rows
      BY Zenon, <2>2 DEF V!KeyDown, V!listVars
    <3>2. QED BY <3>1, ListShows
  <2>3. CASE V!KeyUp
    BY <2>3, ListShows DEF V!KeyUp, V!listVars
  <2>4. CASE V!Gap
    BY <2>4, ListShows DEF V!Gap, V!listVars
  <2>5. QED BY <1>9, <2>1, <2>2, <2>3, <2>4
<1>10. CASE V!Choose \/ V!Fire
  <2>1. UNCHANGED V!listVars \/ V!Rescan(view)
    BY <1>10 DEF V!Choose, V!Fire, V!KillSelected
  <2>2. CASE UNCHANGED V!listVars
    BY <2>2, ListShows DEF V!listVars
  <2>3. CASE V!Rescan(view)
    BY <1>1, <2>3, RescanShows
  <2>4. QED BY <2>1, <2>2, <2>3
<1>11. CASE UNCHANGED V!vars
  BY <1>11, ListShows DEF V!vars, V!listVars
<1>12. QED BY <1>2, <1>3, <1>4, <1>5, <1>6, <1>7, <1>8, <1>9, <1>10, <1>11 DEF V!Next

(***************************************************************************)
(* Whatever is scanned, typed, folded or sorted, the rows are those of the *)
(* last scan for the view.                                                 *)
(***************************************************************************)
THEOREM RowsInvariance ==
  ASSUME TablesAssumption
  PROVE  ToolsSpec => [](tool = "valkyrie" => RowsInv)
<1>1. ToolsInit => (tool = "valkyrie" => RowsInv)
  <2>1. SUFFICES ASSUME ToolsInit, tool = "valkyrie" PROVE RowsInv
    OBVIOUS
  <2>2. V!Init
    BY <2>1 DEF ToolsInit
  <2>3. /\ view = [query |-> Everything, sort |-> "cpu", mine |-> FALSE, tree |-> FALSE,
                   expanded |-> {}, collapsed |-> {}]
        /\ rows = V!Rows(snapshot, view)
    BY <2>2 DEF V!Init
  <2>4. snapshot \in Tables
    BY <2>2 DEF V!Init
  <2>5. "sort" \in DOMAIN view /\ view.sort = "cpu"
    BY <2>3
  <2>6. QED BY <2>3, <2>4, <2>5 DEF RowsInv, TablesAssumption, SortKeys
<1>2. (tool = "valkyrie" => RowsInv) /\ [ToolsNext]_run => (tool = "valkyrie" => RowsInv)'
  BY ChosenSteps, RowsStep
<1>3. QED BY <1>1, <1>2, PTL DEF ToolsSpec

\* The tree of a scan is complete.
LEMMA TreeShown ==
  ASSUME RowsInv, TablesAssumption
  PROVE  V!TreeComplete
<1> DEFINE all == DOMAIN snapshot
           grounded == V!Descendants(snapshot,
                         {p \in all : snapshot[p].ppid \notin all \/ snapshot[p].ppid = p})
           family == [p \in all |-> V!Descendants(snapshot, {p})]
           share == [i \in DOMAIN rows |->
                       IF rows[i].count = 0 THEN {rows[i].pid} ELSE family[rows[i].pid]]
           Counted1 == \A i \in DOMAIN rows :
             /\ share[i] \subseteq grounded
             /\ rows[i].count \in {0, V!Cardinality(family[rows[i].pid]) - 1}
           Once == \A p \in grounded : \E i \in DOMAIN rows :
             p \in share[i] /\ \A j \in DOMAIN rows : p \in share[j] => j = i
<1>1. V!TreeComplete <=> ((V!ActiveTree(view) /\ Len(rows) < ProcessLimit) => (Counted1 /\ Once))
  BY Zenon DEF V!TreeComplete
<1>2. SUFFICES ASSUME V!ActiveTree(view), Len(rows) < ProcessLimit PROVE Counted1 /\ Once
  BY <1>1
<1>3. grounded = Grounded(snapshot)
  <2>1. {p \in all : snapshot[p].ppid \notin all \/ snapshot[p].ppid = p} = V!Roots(snapshot)
    BY DEF V!Roots
  <2>2. QED BY <2>1 DEF Grounded
<1>4. \A p \in all : family[p] = Family(snapshot, p)
  BY DEF Family
<1> DEFINE built == V!Build(snapshot, view)
<1>5. Covers(snapshot, built, Grounded(snapshot))
  BY BuildCovers DEF RowsInv
<1>6. rows = built
  <2> DEFINE top == SubSeq(built, 1, IF Len(built) < ProcessLimit THEN Len(built) ELSE ProcessLimit)
  <2>1. rows = top
    BY <1>2 DEF RowsInv, V!Rows
  <2>2. built \in Seq(TreeRows(snapshot)) /\ Len(built) \in Nat
    BY <1>5 DEF Covers
  <2> HIDE DEF built
  <2>3. CASE Len(built) < ProcessLimit
    <3>1. SubSeq(built, 1, Len(built)) = built
      BY <2>2
    <3>2. QED BY <2>1, <2>3, <3>1
  <2>4. CASE ~(Len(built) < ProcessLimit)
    <3>1. Len(SubSeq(built, 1, ProcessLimit)) = ProcessLimit
      BY <2>2, <2>4 DEF TablesAssumption
    <3>2. QED BY <1>2, <2>1, <2>4, <3>1 DEF TablesAssumption
  <2>5. QED BY <2>3, <2>4
<1> HIDE DEF built, grounded, family
<1>7. /\ rows \in Seq(TreeRows(snapshot)) /\ DOMAIN rows = 1..Len(rows)
      /\ \A i \in 1..Len(rows) : rows[i].pid \in all
  <2>1. rows \in Seq(TreeRows(snapshot))
    BY <1>5, <1>6 DEF Covers
  <2>2. \A r \in TreeRows(snapshot) : r.pid \in all
    BY DEF TreeRows
  <2>3. QED BY <2>1, <2>2
<1>8. ASSUME NEW i \in DOMAIN rows
      PROVE  share[i] = Share(snapshot, rows[i]) /\ family[rows[i].pid] = Family(snapshot, rows[i].pid)
  BY <1>4, <1>7 DEF Share
<1> HIDE DEF share
<1>9. Counted1
  BY <1>3, <1>5, <1>6, <1>7, <1>8, CountsAlike DEF Covers
<1>10. Once
  BY <1>3, <1>5, <1>6, <1>7, <1>8 DEF Covers
<1>11. QED BY <1>9, <1>10

(***************************************************************************)
(* The tree hides no process and shows none twice, however it is folded:   *)
(* each is in one row only, as itself or counted in a folded one.          *)
(***************************************************************************)
THEOREM TreeCompleteCorrect ==
  ASSUME TablesAssumption
  PROVE  ToolsSpec => []TreeComplete
<1>1. (tool = "valkyrie" => RowsInv) => TreeComplete
  BY TreeShown DEF TreeComplete
<1>2. QED BY <1>1, RowsInvariance, PTL
=============================================================================
