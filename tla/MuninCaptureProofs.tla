-------------------------- MODULE MuninCaptureProofs --------------------------
(***************************************************************************)
(* Theorems about MuninCapture: any number of shells, nested and shared    *)
(* sessions, any length of the table, every subset of the faults.          *)
(***************************************************************************)
EXTENDS MuninCapture, SequenceTheorems, WellFoundedInduction, TLAPS

Row == [session : Shells, exit_code : Nat \cup {None}]

-----------------------------------------------------------------------------
(* The inductive invariant.                                                *)

\* A session is named after the shell that opened it, and children inherit it.
Opened == \A s \in Shells :
  /\ pc[s] = "new" <=> session[s] = None
  /\ session[s] # None => session[session[s]] = session[s]
  /\ parent[s] # None => session[s] # None /\ session[s] = session[parent[s]]

RowsOfSessions == \A i \in Rows : session[entries[i].session] = entries[i].session

\* add_end updates a row of its own session.
FoundInSession == \A s \in Shells :
  pc[s] = "update" => found[s] \in Rows /\ entries[found[s]].session = session[s]

\* A shell waits for the shell it runs in the foreground.
Waits == \A s \in Shells : Alive(s) /\ HasChild(s) => pc[s] = "running"

\* The shells of a session are a chain, unless two ran side by side: of any
\* two of them one waits.
OneAtWork == \A s, u \in Shells :
  s # u /\ Alive(s) /\ Alive(u) /\ session[s] = session[u] /\ ~Happened(session[s], "parallel")
    => HasChild(s) \/ HasChild(u)

\* The row found open is open still when it is updated.
StillOpen == \A s \in Shells : pc[s] = "update" =>
  entries[found[s]].exit_code = None \/ Happened(session[s], "parallel")

Busy(s) == pc[s] \in {"running", "select", "update"}

NoRow == \A s \in Shells : ~Busy(s) => row[s] = 0

\* The one shell of a session: its command's row is the newest open one, the
\* only one until an add-end is lost, and is there until a command goes
\* unrecorded.
Matching == \A s \in Shells : Alive(s) /\ ~Shared(session[s]) =>
  /\ ~Happened(session[s], "lostEnd") => OpenRows(session[s]) \subseteq {row[s]}
  /\ Busy(s) /\ row[s] # 0 =>
       row[s] \in OpenRows(session[s]) /\ \A j \in OpenRows(session[s]) : j <= row[s]
  /\ Busy(s) /\ row[s] = 0 => Happened(session[s], "unrecorded")
  /\ pc[s] = "update" =>
       \/ found[s] = row[s]
       \/ Happened(session[s], "lostEnd") /\ Happened(session[s], "unrecorded")

IInv == TypeOK /\ Opened /\ RowsOfSessions /\ FoundInSession /\ Waits /\ OneAtWork
        /\ StillOpen /\ NoRow /\ Matching

-----------------------------------------------------------------------------
(* What a step can do.                                                     *)

\* A table with one value changed is a table of the same length.
LEMMA Updated ==
  ASSUME NEW R, NEW q \in Seq(R), NEW i \in 1..Len(q), NEW v \in R
  PROVE  LET r == [q EXCEPT ![i] = v] IN
         r \in Seq(R) /\ Len(r) = Len(q) /\ r[i] = v /\ \A j \in 1..Len(q) : j # i => r[j] = q[j]
<1> DEFINE r == [q EXCEPT ![i] = v]
<1>1. Len(q) \in Nat /\ q \in [1..Len(q) -> R]
  BY LenProperties
<1>2. r \in [1..Len(q) -> R] /\ r[i] = v /\ \A j \in 1..Len(q) : j # i => r[j] = q[j]
  BY <1>1
<1>3. r \in Seq(R)
  BY <1>1, <1>2, SeqDef
<1>4. Len(r) = Len(q)
  BY <1>1, <1>2, <1>3, LenProperties
<1>5. QED BY <1>2, <1>3, <1>4

\* INSERT: the new row goes behind the others.
LEMMA Inserted ==
  ASSUME NEW R, NEW q \in Seq(R), NEW v \in R
  PROVE  /\ Append(q, v) \in Seq(R) /\ Len(q) \in Nat /\ Len(Append(q, v)) = Len(q) + 1
         /\ \A j \in 1..Len(q) : Append(q, v)[j] = q[j]
         /\ Append(q, v)[Len(q) + 1] = v
  BY AppendProperties, LenProperties

\* Every non-empty set of naturals has a least element.
LEMMA Least ==
  ASSUME NEW T, T \subseteq Nat, T # {}
  PROVE  \E m \in T : \A j \in T : m <= j
<1> DEFINE R == {ss \in Nat \X Nat : ss[1] < ss[2]}
<1>1. IsWellFoundedOn(R, Nat)
  BY NatLessThanWellFounded DEF OpToRel
<1>2. PICK x \in T : \A y \in T : ~(<<y, x>> \in R)
  <2> HIDE DEF R
  <2> QED BY <1>1, WFMin
<1>3. ASSUME NEW y \in T PROVE x <= y
  <2>1. x \in Nat /\ y \in Nat /\ <<y, x>> \notin R
    BY <1>2
  <2>2. <<y, x>>[1] = y /\ <<y, x>>[2] = x
    OBVIOUS
  <2>3. ~(y < x)
    BY <2>1, <2>2
  <2> HIDE DEF R
  <2>4. QED BY <2>1, <2>3
<1>4. QED BY <1>3

\* ORDER BY id DESC LIMIT 1: among some rows there is a newest one.
LEMMA Newest ==
  ASSUME NEW n \in Nat, NEW T, T \subseteq 1..n, T # {}
  PROVE  LET m == CHOOSE i \in T : \A j \in T : j <= i IN m \in T /\ \A j \in T : j <= m
<1>1. \A j \in T : j \in Nat /\ n - j \in Nat
  OBVIOUS
<1> DEFINE U == {n - j : j \in T}
<1>2. U \subseteq Nat /\ U # {}
  <2>1. U \subseteq Nat
    BY <1>1
  <2>2. U # {}
    OBVIOUS
  <2>3. QED BY <2>1, <2>2
<1>3. PICK u \in U : \A v \in U : u <= v
  BY <1>2, Least
<1>4. PICK m \in T : u = n - m
  OBVIOUS
<1>5. ASSUME NEW j \in T PROVE j <= m
  <2>1. n - m <= n - j
    BY <1>3, <1>4
  <2>2. QED BY <1>1, <2>1
<1>6. QED BY <1>5

\* Who is alive has a session, which is a shell's name.
LEMMA HasSession ==
  ASSUME IInv, NEW s \in Shells, pc[s] # "new"
  PROVE  session[s] \in Shells
  BY DEF IInv, Opened, TypeOK

\* What happened has happened; sessions and parents are set once.
LEMMA Lasting ==
  ASSUME IInv, [Next]_vars
  PROVE  /\ past \subseteq past'
         /\ \A s \in Shells : session[s] # None => session'[s] = session[s] /\ parent'[s] = parent[s]
<1>1. DOMAIN session = Shells /\ DOMAIN parent = Shells
  BY DEF IInv, TypeOK
<1>2. ASSUME NEW u \in Shells, OpenShell(u) \/ \E t \in Shells : NestShell(u, t)
      PROVE  /\ past \subseteq past'
             /\ \A s \in Shells : session[s] # None => session'[s] = session[s] /\ parent'[s] = parent[s]
  <2>1. session[u] = None
    BY <1>2 DEF OpenShell, NestShell, IInv, Opened
  <2>2. QED BY <1>1, <1>2, <2>1 DEF OpenShell, NestShell, Note
<1>3. QED
  BY <1>2 DEF Next, CaptureStep, UserStep, Preexec, AddStart, NoStart, Precmd, SelectOpen,
    UpdateRow, LoseEnd, ExitShell, KillShell, Leave, Note, vars

\* add_start and add_end write what they should.
LEMMA TableWrites ==
  ASSUME IInv, NEW s \in Shells
  PROVE  /\ AddStart(s) =>
              /\ entries' \in Seq(Row) /\ Len(entries') = Len(entries) + 1
              /\ \A j \in Rows : entries'[j] = entries[j]
              /\ entries'[Len(entries) + 1] = [session |-> session[s], exit_code |-> None]
         /\ UpdateRow(s) =>
              /\ entries' \in Seq(Row) /\ Len(entries') = Len(entries)
              /\ found[s] \in Rows /\ entries[found[s]].session = session[s]
              /\ \A j \in Rows : j # found[s] => entries'[j] = entries[j]
              /\ entries'[found[s]] = [session |-> session[s], exit_code |-> row[s]]
<1>1. entries \in Seq(Row) /\ Len(entries) \in Nat /\ row[s] \in 0..Len(entries)
      /\ \A i \in Rows : entries[i] \in Row
  <2>1. entries \in Seq(Row) /\ row \in [Shells -> 0..Len(entries)]
    BY DEF IInv, TypeOK, Row
  <2>2. QED BY <2>1, LenProperties, ElementOfSeq DEF Rows
<1>2. ASSUME AddStart(s)
      PROVE  /\ entries' \in Seq(Row) /\ Len(entries') = Len(entries) + 1
             /\ \A j \in Rows : entries'[j] = entries[j]
             /\ entries'[Len(entries) + 1] = [session |-> session[s], exit_code |-> None]
  <2> DEFINE new == [session |-> session[s], exit_code |-> None]
  <2>1. new \in Row /\ entries' = Append(entries, new)
    BY <1>2, HasSession DEF AddStart, Row
  <2>2. QED BY <1>1, <2>1, Inserted DEF Rows
<1>3. ASSUME UpdateRow(s)
      PROVE  /\ entries' \in Seq(Row) /\ Len(entries') = Len(entries)
             /\ found[s] \in Rows /\ entries[found[s]].session = session[s]
             /\ \A j \in Rows : j # found[s] => entries'[j] = entries[j]
             /\ entries'[found[s]] = [session |-> session[s], exit_code |-> row[s]]
  <2> DEFINE closed == [session |-> session[s], exit_code |-> row[s]]
  <2>1. found[s] \in Rows /\ entries[found[s]].session = session[s] /\ session[s] \in Shells
    BY <1>3, HasSession DEF UpdateRow, IInv, FoundInSession
  <2>2. closed \in Row
    BY <1>1, <2>1 DEF Row
  <2>3. [entries[found[s]] EXCEPT !.exit_code = row[s]] = closed
    BY <1>1, <2>1 DEF Row
  <2>4. entries' = [entries EXCEPT ![found[s]] = closed]
    BY <1>3, <2>3 DEF UpdateRow
  <2>5. QED BY <1>1, <2>1, <2>2, <2>4, Updated DEF Rows
<1>4. QED BY <1>2, <1>3

\* AddStart adds a row and UpdateRow closes one: no row is removed.
LEMMA TableStep ==
  ASSUME IInv, [Next]_vars
  PROVE  /\ Len(entries) \in Nat /\ Len(entries') \in Nat /\ Len(entries) <= Len(entries')
         /\ entries' \in Seq(Row)
         /\ \A i \in Rows : i \in Rows' /\ entries'[i].session = entries[i].session
         /\ \A i \in Rows : entries'[i] # entries[i] => \E s \in Shells :
              UpdateRow(s) /\ found[s] = i /\ entries'[i] = [session |-> session[s], exit_code |-> row[s]]
         /\ \A i \in Rows' \ Rows : \E s \in Shells :
              /\ AddStart(s) /\ i = Len(entries) + 1 /\ Len(entries') = i
              /\ entries'[i] = [session |-> session[s], exit_code |-> None]
<1>1. entries \in Seq(Row) /\ Len(entries) \in Nat /\ row \in [Shells -> 0..Len(entries)]
      /\ \A i \in Rows : entries[i] \in Row
  BY LenProperties, ElementOfSeq DEF IInv, TypeOK, Row, Rows
<1> DEFINE P == /\ Len(entries) \in Nat /\ Len(entries') \in Nat /\ Len(entries) <= Len(entries')
                /\ entries' \in Seq(Row)
                /\ \A i \in Rows : i \in Rows' /\ entries'[i].session = entries[i].session
                /\ \A i \in Rows : entries'[i] # entries[i] => \E s \in Shells :
                     /\ UpdateRow(s) /\ found[s] = i
                     /\ entries'[i] = [session |-> session[s], exit_code |-> row[s]]
                /\ \A i \in Rows' \ Rows : \E s \in Shells :
                     /\ AddStart(s) /\ i = Len(entries) + 1 /\ Len(entries') = i
                     /\ entries'[i] = [session |-> session[s], exit_code |-> None]
<1>2. ASSUME NEW s \in Shells, AddStart(s) PROVE P
  <2>1. /\ entries' \in Seq(Row) /\ Len(entries') = Len(entries) + 1
        /\ \A j \in Rows : entries'[j] = entries[j]
        /\ entries'[Len(entries) + 1] = [session |-> session[s], exit_code |-> None]
    BY <1>2, TableWrites
  <2>2. Rows \subseteq Rows' /\ \A i \in Rows' \ Rows : i = Len(entries) + 1
    BY <1>1, <2>1 DEF Rows
  <2>3. ASSUME NEW i \in Rows' \ Rows
        PROVE  /\ AddStart(s) /\ i = Len(entries) + 1 /\ Len(entries') = i
               /\ entries'[i] = [session |-> session[s], exit_code |-> None]
    BY <1>2, <2>1, <2>2
  <2>4. QED BY <1>1, <2>1, <2>2, <2>3
<1>3. ASSUME NEW s \in Shells, UpdateRow(s) PROVE P
  <2>1. /\ entries' \in Seq(Row) /\ Len(entries') = Len(entries)
        /\ found[s] \in Rows /\ entries[found[s]].session = session[s]
        /\ \A j \in Rows : j # found[s] => entries'[j] = entries[j]
        /\ entries'[found[s]] = [session |-> session[s], exit_code |-> row[s]]
    BY <1>3, TableWrites
  <2>2. Rows' = Rows
    BY <2>1 DEF Rows
  <2>3. ASSUME NEW i \in Rows, entries'[i] # entries[i]
        PROVE  /\ UpdateRow(s) /\ found[s] = i
               /\ entries'[i] = [session |-> session[s], exit_code |-> row[s]]
    BY <1>3, <2>1, <2>3
  <2>4. \A i \in Rows : entries'[i].session = entries[i].session
    BY <2>1
  <2>5. QED BY <1>1, <2>1, <2>2, <2>3, <2>4
<1>4. ASSUME UNCHANGED entries PROVE P
  BY <1>1, <1>4 DEF Rows
<1>5. QED
  BY <1>2, <1>3, <1>4 DEF Next, CaptureStep, UserStep, OpenShell, NestShell, Preexec, NoStart,
    Precmd, SelectOpen, LoseEnd, ExitShell, KillShell, vars

\* A step is some shell's, and leaves what other shells have in memory alone.
LEMMA Elsewhere ==
  ASSUME IInv, [Next]_vars, NEW s \in Shells, pc'[s] # pc[s] \/ row'[s] # row[s] \/ found'[s] # found[s]
  PROVE  \/ OpenShell(s) \/ CaptureStep(s) \/ UserStep(s) \/ KillShell(s)
         \/ \E t \in Shells : NestShell(s, t)
<1>1. DOMAIN pc = Shells /\ DOMAIN row = Shells /\ DOMAIN found = Shells
  BY DEF IInv, TypeOK
<1>2. ASSUME NEW u \in Shells, u # s,
             \/ OpenShell(u) \/ CaptureStep(u) \/ UserStep(u) \/ KillShell(u)
             \/ \E t \in Shells : NestShell(u, t)
      PROVE  FALSE
  BY <1>1, <1>2 DEF CaptureStep, UserStep, OpenShell, NestShell, Preexec, AddStart, NoStart,
    Precmd, SelectOpen, UpdateRow, LoseEnd, ExitShell, KillShell, Leave, GoTo
<1>3. QED BY <1>2 DEF Next, vars

\* A row found has just been found open, or is remembered.
LEMMA FoundSince ==
  ASSUME IInv, [Next]_vars, NEW s \in Shells, pc'[s] = "update"
  PROVE  \/ SelectOpen(s) /\ OpenRows(session[s]) # {}
         \/ pc[s] = "update" /\ found'[s] = found[s] /\ row'[s] = row[s]
<1>1. DOMAIN pc = Shells
  BY DEF IInv, TypeOK
<1>2. CASE pc[s] = "update" /\ found'[s] = found[s] /\ row'[s] = row[s]
  BY <1>2
<1>3. CASE \/ OpenShell(s) \/ CaptureStep(s) \/ UserStep(s) \/ KillShell(s)
           \/ \E t \in Shells : NestShell(s, t)
  BY <1>1, <1>3 DEF CaptureStep, UserStep, OpenShell, NestShell, Preexec, AddStart, NoStart,
    Precmd, SelectOpen, UpdateRow, LoseEnd, ExitShell, KillShell, Leave, GoTo
<1>4. QED BY <1>2, <1>3, Elsewhere

\* Who lives now was alive before, or is new.
LEMMA Born ==
  ASSUME IInv, [Next]_vars, NEW s \in Shells, Alive(s)'
  PROVE  \/ Alive(s) /\ session[s] \in Shells /\ session'[s] = session[s] /\ parent'[s] = parent[s]
         \/ pc[s] = "new" /\ (OpenShell(s) \/ \E t \in Shells : NestShell(s, t))
<1>1. CASE Alive(s)
  BY <1>1, HasSession, Lasting, ConstantsAssumption DEF Alive
<1>2. CASE ~Alive(s)
  <2>1. pc'[s] # pc[s]
    BY <1>2 DEF Alive
  <2>2. CASE CaptureStep(s) \/ UserStep(s) \/ KillShell(s)
    BY <1>2, <2>2 DEF Alive, CaptureStep, UserStep, Preexec, AddStart, NoStart, Precmd, SelectOpen,
      UpdateRow, LoseEnd, ExitShell, KillShell
  <2>3. QED BY <2>1, <2>2, Elsewhere DEF OpenShell, NestShell
<1>3. QED BY <1>1, <1>2

\* A shell dies by ExitShell or KillShell, and no other dies with it.
LEMMA Dies ==
  ASSUME IInv, [Next]_vars, NEW s \in Shells, Alive(s), ~Alive(s)'
  PROVE  /\ ~HasChild(s) \/ <<session[s], "parallel">> \in past'
         /\ \A u \in Shells \ {s} : Alive(u) => Alive(u)'
<1>1. DOMAIN pc = Shells
  BY DEF IInv, TypeOK
<1>2. ExitShell(s) \/ KillShell(s)
  <2>1. pc'[s] # pc[s]
    BY DEF Alive
  <2>2. QED
    BY <1>1, <2>1, Elsewhere DEF Alive, CaptureStep, UserStep, OpenShell, NestShell, Preexec,
      AddStart, NoStart, Precmd, SelectOpen, UpdateRow, LoseEnd, Leave, GoTo
<1>3. QED
  BY <1>1, <1>2 DEF ExitShell, KillShell, Leave, GoTo, Alive, Note, Happened

\* A session's open rows: AddStart adds to them, UpdateRow takes away.
LEMMA OpenRowsStep ==
  ASSUME IInv, [Next]_vars, NEW t
  PROVE  /\ \A i \in OpenRows(t)' \ OpenRows(t) : \E s \in Shells :
              AddStart(s) /\ session[s] = t /\ i = Len(entries) + 1 /\ Len(entries') = i
         /\ \A i \in OpenRows(t) \ OpenRows(t)' : \E s \in Shells :
              UpdateRow(s) /\ found[s] = i /\ session[s] = t
<1>1. ASSUME NEW i \in OpenRows(t)' \ OpenRows(t)
      PROVE  \E s \in Shells : AddStart(s) /\ session[s] = t /\ i = Len(entries) + 1 /\ Len(entries') = i
  <2>1. i \in Rows' /\ entries'[i].session = t /\ entries'[i].exit_code = None
    BY <1>1 DEF OpenRows
  <2>2. CASE i \in Rows
    <3>1. entries'[i] # entries[i]
      BY <1>1, <2>1, <2>2 DEF OpenRows
    <3>2. PICK s \in Shells : entries'[i] = [session |-> session[s], exit_code |-> row[s]]
      BY <2>2, <3>1, TableStep
    <3>3. row[s] \in Nat
      BY TableStep DEF IInv, TypeOK
    <3>4. QED BY <2>1, <3>2, <3>3, ConstantsAssumption
  <2>3. CASE i \notin Rows
    <3>1. PICK s \in Shells : /\ AddStart(s) /\ i = Len(entries) + 1 /\ Len(entries') = i
                              /\ entries'[i] = [session |-> session[s], exit_code |-> None]
      BY <2>1, <2>3, TableStep
    <3>2. QED BY <2>1, <3>1
  <2>4. QED BY <2>2, <2>3
<1>2. ASSUME NEW i \in OpenRows(t) \ OpenRows(t)'
      PROVE  \E s \in Shells : UpdateRow(s) /\ found[s] = i /\ session[s] = t
  <2>1. i \in Rows /\ i \in Rows' /\ entries[i].session = t /\ entries'[i] # entries[i]
    BY <1>2, TableStep DEF OpenRows
  <2>2. PICK s \in Shells : UpdateRow(s) /\ found[s] = i
    BY <2>1, TableStep
  <2>3. entries[i].session = session[s]
    BY <2>2 DEF UpdateRow, IInv, FoundInSession
  <2>4. QED BY <2>1, <2>2, <2>3
<1>3. QED BY <1>1, <1>2

-----------------------------------------------------------------------------
(* The invariant is inductive, one part at a time.                         *)

\* add_end finds the newest open row of the session.
LEMMA Finds ==
  ASSUME IInv, NEW s \in Shells, SelectOpen(s), OpenRows(session[s]) # {}
  PROVE  LET open == OpenRows(session[s]) IN
         /\ pc' = [pc EXCEPT ![s] = "update"] /\ row' = row
         /\ found' = [found EXCEPT ![s] = found'[s]]
         /\ found'[s] \in open /\ \A j \in open : j <= found'[s]
<1>1. OpenRows(session[s]) \subseteq 1..Len(entries) /\ Len(entries) \in Nat
  BY LenProperties DEF OpenRows, Rows, IInv, TypeOK
<1>2. DOMAIN found = Shells
  BY DEF IInv, TypeOK
<1>3. QED BY <1>1, <1>2, Newest DEF SelectOpen, GoTo

\* A shell that leaves keeps nothing in memory.
LEMMA LeaveTypes ==
  ASSUME TypeOK, NEW s \in Shells, NEW label \in Phases \ {"update"}, Leave(s, label)
  PROVE  /\ pc' \in [Shells -> Phases]
         /\ row' \in [Shells -> 0..Len(entries)] /\ found' \in [Shells -> 0..Len(entries)]
         /\ \A u \in Shells : pc'[u] = "update" => found'[u] > 0
<1>1. Len(entries) \in Nat /\ 0 \in 0..Len(entries)
  BY LenProperties DEF TypeOK
<1>2. pc' = [pc EXCEPT ![s] = label] /\ row' = [row EXCEPT ![s] = 0] /\ found' = [found EXCEPT ![s] = 0]
  BY DEF Leave, GoTo
<1>3. row' \in [Shells -> 0..Len(entries)] /\ found' \in [Shells -> 0..Len(entries)]
  BY <1>1, <1>2 DEF TypeOK
<1>4. pc' \in [Shells -> Phases] /\ \A u \in Shells : pc'[u] = "update" => u # s /\ pc[u] = "update"
  BY <1>2 DEF TypeOK
<1>5. \A u \in Shells : u # s => found'[u] = found[u]
  BY <1>2 DEF TypeOK
<1>6. QED BY <1>3, <1>4, <1>5 DEF TypeOK

\* Every step keeps the types: rows are added at the end and none goes away.
LEMMA TypeStep ==
  ASSUME IInv, [Next]_vars
  PROVE  TypeOK'
<1>1. TypeOK /\ Len(entries) \in Nat /\ Len(entries') \in Nat /\ Len(entries) <= Len(entries')
      /\ entries' \in Seq(Row) /\ entries \in Seq(Row) /\ row \in [Shells -> 0..Len(entries)]
  BY TableStep DEF IInv, TypeOK, Row
<1>2. ASSUME NEW s \in Shells, AddStart(s) PROVE TypeOK'
  <2>2. Len(entries') = Len(entries) + 1 /\ Len(entries) < MaxRows
    BY <1>2, TableWrites DEF AddStart
  <2>3. row' \in [Shells -> 0..Len(entries')] /\ found' \in [Shells -> 0..Len(entries')]
    BY <1>1, <1>2, <2>2 DEF AddStart, TypeOK
  <2>4. Len(entries') <= MaxRows
    BY <1>1, <2>2, ConstantsAssumption
  <2>5. pc' \in [Shells -> Phases] /\ \A u \in Shells : pc'[u] = "update" => pc[u] = "update"
    BY <1>1, <1>2 DEF AddStart, GoTo, TypeOK, Phases
  <2>6. \A u \in Shells : pc'[u] = "update" => found'[u] > 0
    BY <1>1, <1>2, <2>5 DEF AddStart, TypeOK
  <2>7. UNCHANGED <<session, parent, past>>
    BY <1>2 DEF AddStart
  <2>8. QED BY <1>1, <2>3, <2>4, <2>5, <2>6, <2>7 DEF TypeOK, Row
<1>3. ASSUME NEW s \in Shells, UpdateRow(s) PROVE TypeOK'
  <2>2. Len(entries') = Len(entries)
    BY <1>3, TableWrites
  <2>3. row' \in [Shells -> 0..Len(entries')] /\ found' \in [Shells -> 0..Len(entries')]
    BY <1>1, <1>3, <2>2 DEF UpdateRow, Leave, TypeOK
  <2>4. /\ pc' \in [Shells -> Phases]
        /\ \A u \in Shells : pc'[u] = "update" => pc[u] = "update" /\ found'[u] = found[u]
    BY <1>1, <1>3 DEF UpdateRow, Leave, GoTo, TypeOK, Phases
  <2>5. UNCHANGED <<session, parent, past>>
    BY <1>3 DEF UpdateRow
  <2>6. QED BY <1>1, <2>2, <2>3, <2>4, <2>5 DEF TypeOK, Row
<1>4. ASSUME NEW s \in Shells, SelectOpen(s) PROVE TypeOK'
  <2>1. UNCHANGED <<session, parent, entries, past>>
    BY <1>4 DEF SelectOpen
  <2>2. CASE OpenRows(session[s]) = {}
    <3>1. Leave(s, "prompt") /\ "prompt" \in Phases \ {"update"}
      BY <1>4, <2>2 DEF SelectOpen, Phases
    <3>2. QED BY <1>1, <2>1, <3>1, LeaveTypes DEF TypeOK
  <2>3. CASE OpenRows(session[s]) # {}
    <3>1. found'[s] \in 1..Len(entries)
      BY <1>4, <2>3, Finds DEF OpenRows, Rows
    <3>2. found' \in [Shells -> 0..Len(entries)] /\ found'[s] > 0
          /\ \A u \in Shells \ {s} : found'[u] = found[u]
      BY <1>1, <1>4, <2>3, <3>1, Finds DEF TypeOK
    <3>3. /\ pc' \in [Shells -> Phases] /\ row' = row
          /\ \A u \in Shells \ {s} : pc'[u] = pc[u]
      BY <1>1, <1>4, <2>3, Finds DEF TypeOK, Phases
    <3>4. QED BY <1>1, <2>1, <3>2, <3>3 DEF TypeOK
  <2>4. QED BY <2>2, <2>3
<1>5. ASSUME NEW s \in Shells, OpenShell(s) \/ Preexec(s) \/ Precmd(s) PROVE TypeOK'
  BY <1>1, <1>5 DEF OpenShell, Preexec, Precmd, GoTo, TypeOK, Phases
<1>6. ASSUME NEW s \in Shells, NEW t \in Shells, NestShell(s, t) PROVE TypeOK'
  <2>1. session[t] \in Shells
    BY <1>6, HasSession DEF NestShell
  <2>2. QED BY <1>1, <1>6, <2>1 DEF NestShell, GoTo, Note, TypeOK, Phases, Events
<1>7. ASSUME NEW s \in Shells, NoStart(s) PROVE TypeOK'
  <2>1. session[s] \in Shells
    BY <1>7, HasSession DEF NoStart
  <2>2. QED BY <1>1, <1>7, <2>1 DEF NoStart, GoTo, Note, TypeOK, Phases, Events
<1>8. ASSUME NEW s \in Shells, LoseEnd(s) \/ ExitShell(s) \/ KillShell(s) PROVE TypeOK'
  <2>1. session[s] \in Shells
    BY <1>8, HasSession DEF LoseEnd, ExitShell, KillShell, Alive
  <2>2. past' \subseteq Shells \X Events
    BY <1>1, <1>8, <2>1 DEF LoseEnd, ExitShell, KillShell, Note, TypeOK, Events
  <2>3. /\ UNCHANGED <<session, parent, entries>>
        /\ Leave(s, "prompt") \/ Leave(s, "off")
    BY <1>8 DEF LoseEnd, ExitShell, KillShell
  <2>4. {"prompt", "off"} \subseteq Phases \ {"update"}
    BY DEF Phases
  <2>5. QED BY <1>1, <2>2, <2>3, <2>4, LeaveTypes DEF TypeOK
<1>9. ASSUME UNCHANGED vars PROVE TypeOK'
  BY <1>1, <1>9 DEF vars, TypeOK
<1>10. QED
  BY <1>2, <1>3, <1>4, <1>5, <1>6, <1>7, <1>8, <1>9 DEF Next, CaptureStep, UserStep

\* A session name is given once, by the shell itself or its parent.
LEMMA OpenedStep ==
  ASSUME IInv, [Next]_vars
  PROVE  Opened'
<1>1. Opened /\ TypeOK /\ None \notin Shells
  BY ConstantsAssumption DEF IInv
<1>2. ASSUME NEW s \in Shells, OpenShell(s) PROVE Opened'
  <2>1. session[s] = None /\ parent[s] = None
    BY <1>1, <1>2 DEF OpenShell, Opened
  <2>2. \A u \in Shells : session[u] # s
    BY <1>1, <2>1 DEF Opened
  <2>3. \A u \in Shells : parent[u] # s
    BY <1>1, <2>1 DEF Opened, TypeOK
  <2>4. QED BY <1>1, <1>2, <2>1, <2>2, <2>3 DEF OpenShell, GoTo, Opened, TypeOK
<1>3. ASSUME NEW s \in Shells, NEW t \in Shells, NestShell(s, t) PROVE Opened'
  <2>1. session[s] = None /\ parent[s] = None /\ session[t] \in Shells /\ session[session[t]] = session[t]
    BY <1>1, <1>3, HasSession DEF NestShell, Opened
  <2>2. \A u \in Shells : parent[u] # s /\ session[u] # s
    BY <1>1, <2>1 DEF Opened, TypeOK
  <2>3. s # t /\ pc' = [pc EXCEPT ![s] = "prompt"] /\ session' = [session EXCEPT ![s] = session[t]]
        /\ (parent' = parent \/ parent' = [parent EXCEPT ![s] = t])
    BY <1>3 DEF NestShell, GoTo
  <2>4. QED BY <1>1, <2>1, <2>2, <2>3 DEF Opened, TypeOK
<1>4. ASSUME UNCHANGED <<session, parent>>, \A s \in Shells : pc'[s] = "new" <=> pc[s] = "new"
      PROVE  Opened'
  BY <1>1, <1>4 DEF Opened
<1>5. ASSUME NEW s \in Shells, CaptureStep(s) \/ UserStep(s) \/ KillShell(s) PROVE Opened'
  <2>1. UNCHANGED <<session, parent>>
    BY <1>5 DEF CaptureStep, UserStep, Preexec, AddStart, NoStart, Precmd, SelectOpen, UpdateRow,
      LoseEnd, ExitShell, KillShell
  <2>2. pc[s] # "new" /\ \E label \in Phases \ {"new"} : pc' = [pc EXCEPT ![s] = label]
    BY <1>5 DEF CaptureStep, UserStep, Preexec, AddStart, NoStart, Precmd, SelectOpen, UpdateRow,
      LoseEnd, ExitShell, KillShell, Leave, GoTo, Alive, Phases
  <2>3. QED BY <1>1, <1>4, <2>1, <2>2 DEF TypeOK
<1>6. QED BY <1>2, <1>3, <1>4, <1>5 DEF Next, vars

\* Rows carry the name of a session there is.
LEMMA RowsOfSessionsStep ==
  ASSUME IInv, [Next]_vars
  PROVE  RowsOfSessions' /\ FoundInSession'
<1>1. None \notin Shells /\ Opened /\ RowsOfSessions /\ FoundInSession
      /\ \A i \in Rows : entries[i].session \in Shells
  <2>1. entries \in Seq(Row)
    BY DEF IInv, TypeOK, Row
  <2>2. \A i \in Rows : entries[i] \in Row
    BY <2>1, ElementOfSeq DEF Rows
  <2>3. QED BY <2>2, ConstantsAssumption DEF IInv, Row
<1>2. ASSUME NEW i \in Rows' PROVE session'[entries'[i].session] = entries'[i].session
  <2>1. CASE i \in Rows
    <3> DEFINE t == entries[i].session
    <3>1. t \in Shells /\ session[t] = t
      BY <1>1, <2>1 DEF RowsOfSessions
    <3>2. session'[t] = t
      BY <1>1, <3>1, Lasting
    <3>3. QED BY <2>1, <3>2, TableStep
  <2>2. CASE i \notin Rows
    <3>1. PICK s \in Shells :
            AddStart(s) /\ entries'[i] = [session |-> session[s], exit_code |-> None]
      BY <1>2, <2>2, TableStep
    <3>2. session' = session /\ session[session[s]] = session[s]
      BY <1>1, <3>1, HasSession DEF AddStart, Opened
    <3>3. QED BY <3>1, <3>2
  <2>3. QED BY <2>1, <2>2
<1>3. ASSUME NEW s \in Shells, pc'[s] = "update"
      PROVE  found'[s] \in Rows' /\ entries'[found'[s]].session = session'[s]
  <2>1. found'[s] \in Rows /\ entries[found'[s]].session = session[s] /\ pc[s] # "new"
    BY <1>1, <1>3, FoundSince, Finds DEF FoundInSession, OpenRows, SelectOpen
  <2>2. session'[s] = session[s]
    BY <1>1, <2>1, HasSession, Lasting
  <2>3. QED BY <2>1, <2>2, TableStep
<1>4. QED BY <1>2, <1>3 DEF RowsOfSessions, FoundInSession

\* A shell starts no other thing while a child has the terminal.
LEMMA WaitsStep ==
  ASSUME IInv, [Next]_vars
  PROVE  Waits'
<1> SUFFICES ASSUME NEW s \in Shells, Alive(s)', HasChild(s)' PROVE pc'[s] = "running"
  BY DEF Waits
<1>1. None \notin Shells /\ DOMAIN pc = Shells /\ DOMAIN parent = Shells /\ Waits /\ Opened
  BY ConstantsAssumption DEF IInv, TypeOK
<1>2. PICK u \in Shells : Alive(u)' /\ parent'[u] = s
  BY DEF HasChild
<1>3. HasChild(s) \/ \E t \in Shells : NestShell(u, t) /\ parent'[u] = s
  <2>1. CASE Alive(u)
    BY <1>2, <2>1, Born DEF HasChild, Alive
  <2>2. CASE OpenShell(u)
    <3>1. parent[u] = s /\ session[u] = None
      BY <1>1, <1>2, <2>2 DEF OpenShell, Opened
    <3>2. QED BY <1>1, <3>1 DEF Opened
  <2>3. CASE \E t \in Shells : NestShell(u, t)
    BY <1>2, <2>3
  <2>4. QED BY <1>2, <2>1, <2>2, <2>3, Born
<1>4. CASE \E t \in Shells : NestShell(u, t) /\ parent'[u] = s
  <2>1. PICK t \in Shells : NestShell(u, t) /\ parent'[u] = s
    BY <1>4
  <2>2. pc[u] = "new" /\ pc[t] = "running" /\ pc' = [pc EXCEPT ![u] = "prompt"] /\ parent[u] = None
    BY <1>1, <2>1 DEF NestShell, GoTo, Opened
  <2>3. s = t
    BY <1>1, <2>1, <2>2 DEF NestShell
  <2>4. QED BY <1>1, <2>2, <2>3
<1>5. CASE HasChild(s)
  <2>1. PICK v \in Shells : Alive(v) /\ parent[v] = s
    BY <1>5 DEF HasChild
  <2>2. session[s] # None
    BY <1>1, <2>1, HasSession DEF Opened, Alive
  <2>3. Alive(s)
    BY <1>1, <2>2, Born DEF Opened
  <2>4. pc[s] = "running"
    BY <1>1, <1>5, <2>3 DEF Waits
  <2>5. ASSUME pc'[s] # pc[s] PROVE FALSE
    BY <1>1, <1>5, <2>4, <2>5, Elsewhere DEF Alive, CaptureStep, UserStep, OpenShell, NestShell,
      Preexec, AddStart, NoStart, Precmd, SelectOpen, UpdateRow, LoseEnd, ExitShell, KillShell,
      Leave, GoTo
  <2>6. QED BY <2>4, <2>5
<1>6. QED BY <1>3, <1>4, <1>5

\* A shell that waits goes on to wait, or its child was the last at work.
LEMMA ChildLeaves ==
  ASSUME IInv, [Next]_vars, NEW s \in Shells, NEW u \in Shells, s # u,
         Alive(s), Alive(u), Alive(s)', Alive(u)', session[s] = session[u],
         <<session[s], "parallel">> \notin past', HasChild(s)
  PROVE  HasChild(s)' \/ HasChild(u)'
<1>1. None \notin Shells /\ OneAtWork /\ Opened
  BY ConstantsAssumption DEF IInv
<1>2. PICK v \in Shells : Alive(v) /\ parent[v] = s
  BY DEF HasChild
<1>3. session[v] = session[s] /\ \A w \in Shells : Alive(w) => parent'[w] = parent[w]
  BY <1>1, <1>2, HasSession, Lasting DEF Opened, Alive
<1>4. CASE Alive(v)'
  BY <1>2, <1>3, <1>4 DEF HasChild
<1>5. CASE ~Alive(v)'
  <2>1. ~HasChild(v) /\ v # u
    BY <1>2, <1>3, <1>5, Dies DEF Happened
  <2>2. ~Happened(session[v], "parallel")
    BY <1>3, Lasting DEF Happened
  <2>3. HasChild(u)
    BY <1>1, <1>2, <1>3, <2>1, <2>2 DEF OneAtWork
  <2>4. PICK w \in Shells : Alive(w) /\ parent[w] = u
    BY <2>3 DEF HasChild
  <2>5. w # v
    BY <1>2, <2>4
  <2>6. Alive(w)' /\ parent'[w] = u
    BY <1>2, <1>3, <1>5, <2>4, <2>5, Dies
  <2>7. QED BY <2>6 DEF HasChild
<1>6. QED BY <1>4, <1>5

\* A new shell is the foreground command of the shell that was at work.
LEMMA ChildComes ==
  ASSUME IInv, [Next]_vars, NEW s \in Shells, NEW u \in Shells, s # u,
         pc[s] = "new", Alive(s)', Alive(u)', session'[s] = session'[u],
         <<session'[s], "parallel">> \notin past'
  PROVE  HasChild(u)'
<1>1. None \notin Shells /\ OneAtWork /\ Opened /\ DOMAIN session = Shells /\ DOMAIN parent = Shells
      /\ DOMAIN pc = Shells
  BY ConstantsAssumption DEF IInv, TypeOK
<1>2. session[s] = None /\ \A t \in Shells : session[t] # s
  BY <1>1 DEF Opened
<1>3. OpenShell(s) \/ \E t \in Shells : NestShell(s, t)
  BY Born DEF Alive
<1>4. Alive(u) /\ session'[u] = session[u] /\ pc' = [pc EXCEPT ![s] = "prompt"]
  BY <1>1, <1>3 DEF OpenShell, NestShell, GoTo, Alive
<1>5. CASE OpenShell(s)
  BY <1>1, <1>2, <1>4, <1>5 DEF OpenShell
<1>6. CASE \E t \in Shells : NestShell(s, t)
  <2>1. PICK t \in Shells : NestShell(s, t)
    BY <1>6
  <2>2. s # t /\ session'[s] = session[t] /\ Alive(t) /\ ~HasChild(t)
    BY <1>1, <2>1 DEF NestShell, Alive
  <2>3. parent' = [parent EXCEPT ![s] = t] /\ past' = past
    BY <2>1, <2>2 DEF NestShell, Note, Happened
  <2>4. CASE u = t
    BY <1>1, <2>3, <2>4 DEF HasChild
  <2>5. CASE u # t
    <3>1. session[u] = session[t] /\ ~Happened(session[t], "parallel")
      BY <1>4, <2>2, <2>3 DEF Happened
    <3>2. PICK w \in Shells : Alive(w) /\ parent[w] = u
      BY <1>1, <1>4, <2>2, <2>5, <3>1 DEF OneAtWork, HasChild
    <3>3. w # s /\ Alive(w)' /\ parent'[w] = u
      BY <1>1, <1>4, <2>3, <3>2 DEF Alive
    <3>4. QED BY <3>3 DEF HasChild
  <2>6. QED BY <2>4, <2>5
<1>7. QED BY <1>3, <1>5, <1>6

\* Of two shells of a session one still waits after the step.
LEMMA OneAtWorkStep ==
  ASSUME IInv, [Next]_vars
  PROVE  OneAtWork'
<1> SUFFICES ASSUME NEW s \in Shells, NEW u \in Shells, s # u, Alive(s)', Alive(u)',
                    session'[s] = session'[u], <<session'[s], "parallel">> \notin past'
             PROVE  HasChild(s)' \/ HasChild(u)'
  BY DEF OneAtWork, Happened
<1>1. CASE pc[s] = "new" \/ pc[u] = "new"
  BY <1>1, ChildComes
<1>2. CASE pc[s] # "new" /\ pc[u] # "new"
  <2>1. Alive(s) /\ Alive(u) /\ session'[s] = session[s] /\ session'[u] = session[u]
    BY <1>2, Born
  <2>2. ~Happened(session[s], "parallel") /\ <<session[s], "parallel">> \notin past'
    BY <2>1, Lasting DEF Happened
  <2>3. HasChild(s) \/ HasChild(u)
    BY <2>1, <2>2 DEF IInv, OneAtWork
  <2>4. QED BY <2>1, <2>2, <2>3, ChildLeaves
<1>3. QED BY <1>1, <1>2

\* Between SELECT and UPDATE no other shell of the chain closes the row.
LEMMA StillOpenStep ==
  ASSUME IInv, [Next]_vars
  PROVE  StillOpen'
<1>1. OneAtWork /\ StillOpen /\ FoundInSession /\ Waits
  BY DEF IInv
<1> SUFFICES ASSUME NEW s \in Shells, pc'[s] = "update"
             PROVE  entries'[found'[s]].exit_code = None \/ <<session'[s], "parallel">> \in past'
  BY DEF StillOpen, Happened
<1>2. CASE SelectOpen(s) /\ OpenRows(session[s]) # {}
  BY <1>2, Finds DEF OpenRows, SelectOpen
<1>3. CASE pc[s] = "update" /\ found'[s] = found[s]
  <2>1. found[s] \in Rows /\ entries[found[s]].session = session[s] /\ session'[s] = session[s]
    BY <1>1, <1>3, HasSession, Lasting, ConstantsAssumption DEF FoundInSession
  <2>2. CASE entries'[found[s]] = entries[found[s]]
    BY <1>1, <1>3, <2>1, <2>2, Lasting DEF StillOpen, Happened
  <2>3. CASE entries'[found[s]] # entries[found[s]]
    <3>1. PICK u \in Shells : UpdateRow(u) /\ found[u] = found[s]
      BY <2>1, <2>3, TableStep
    <3>2. pc[u] = "update" /\ pc' = [pc EXCEPT ![u] = "prompt"]
      BY <3>1 DEF UpdateRow, Leave, GoTo
    <3>3. u # s
      BY <3>2 DEF IInv, TypeOK
    <3>4. session[u] = session[s]
      BY <1>1, <2>1, <3>1, <3>2 DEF FoundInSession
    <3>5. Happened(session[s], "parallel")
      BY <1>1, <1>3, <3>2, <3>3, <3>4 DEF OneAtWork, Waits, Alive
    <3>6. QED BY <2>1, <3>5, Lasting DEF Happened
  <2>4. QED BY <2>2, <2>3
<1>4. QED BY <1>2, <1>3, FoundSince

\* At the prompt no command is remembered.
LEMMA NoRowStep ==
  ASSUME IInv, [Next]_vars
  PROVE  NoRow'
<1> SUFFICES ASSUME NEW s \in Shells, pc'[s] \notin {"running", "select", "update"} PROVE row'[s] = 0
  BY DEF NoRow, Busy
<1>1. DOMAIN pc = Shells /\ DOMAIN row = Shells /\ NoRow
  BY DEF IInv, TypeOK
<1>2. CASE pc'[s] = pc[s] /\ row'[s] = row[s]
  BY <1>1, <1>2 DEF NoRow, Busy
<1>3. CASE \/ OpenShell(s) \/ UserStep(s) \/ \E t \in Shells : NestShell(s, t)
  BY <1>1, <1>3 DEF OpenShell, UserStep, NestShell, Preexec, Precmd, ExitShell, Leave, GoTo,
    NoRow, Busy
<1>4. CASE AddStart(s) \/ NoStart(s) \/ UpdateRow(s) \/ LoseEnd(s) \/ KillShell(s)
  BY <1>1, <1>4 DEF AddStart, NoStart, UpdateRow, LoseEnd, KillShell, Leave, GoTo, NoRow, Busy
<1>5. CASE SelectOpen(s)
  BY <1>1, <1>5, Finds DEF SelectOpen, Leave, GoTo, NoRow, Busy
<1>6. QED BY <1>2, <1>3, <1>4, <1>5, Elsewhere DEF CaptureStep

\* A session that is one shell's had one shell all along.
LEMMA Alone ==
  ASSUME IInv, [Next]_vars, NEW t \in Shells, ~Shared(t)'
  PROVE  ~Shared(t)
  BY Lasting, ConstantsAssumption DEF Shared

\* A lone shell's open row stays that of its command through every step.
LEMMA MatchingStep ==
  ASSUME IInv, [Next]_vars
  PROVE  Matching'
<1> DEFINE M(s, t) ==
      /\ <<t, "lostEnd">> \notin past' => OpenRows(t)' \subseteq {row'[s]}
      /\ Busy(s)' /\ row'[s] # 0 => row'[s] \in OpenRows(t)' /\ \A j \in OpenRows(t)' : j <= row'[s]
      /\ Busy(s)' /\ row'[s] = 0 => <<t, "unrecorded">> \in past'
      /\ pc'[s] = "update" =>
           found'[s] = row'[s] \/ (<<t, "lostEnd">> \in past' /\ <<t, "unrecorded">> \in past')
<1>1. ASSUME NEW s \in Shells, NEW t \in Shells, session'[s] = t, Alive(s)', ~Shared(t)' PROVE M(s, t)
  <2>1. None \notin Shells /\ None \notin Nat /\ Opened /\ RowsOfSessions /\ NoRow
        /\ DOMAIN pc = Shells /\ DOMAIN row = Shells /\ DOMAIN found = Shells /\ DOMAIN session = Shells
        /\ row \in [Shells -> 0..Len(entries)] /\ Len(entries) \in Nat
    BY TableStep, ConstantsAssumption DEF IInv, TypeOK
  <2>2. CASE OpenShell(s)
    <3>1. t = s /\ session[s] = None
      BY <1>1, <2>1, <2>2 DEF OpenShell, Opened
    <3>2. OpenRows(t) = {}
      BY <2>1, <3>1 DEF OpenRows, RowsOfSessions
    <3>3. OpenRows(t)' = {}
      <4>1. entries' = entries
        BY <2>2 DEF OpenShell
      <4>2. QED BY <3>2, <4>1 DEF OpenRows, Rows
    <3>4. pc'[s] = "prompt"
      BY <2>1, <2>2 DEF OpenShell, GoTo
    <3>5. QED BY <3>3, <3>4 DEF Busy
  <2>3. CASE \E u \in Shells : NestShell(s, u)
    <3>1. PICK u \in Shells : NestShell(s, u)
      BY <2>3
    <3>2. u # s /\ session'[s] = session[u] /\ session'[u] = session[u]
      BY <2>1, <3>1 DEF NestShell
    <3>3. QED BY <1>1, <3>2 DEF Shared
  <2>4. CASE Alive(s) /\ session[s] = t
    <3> DEFINE open == OpenRows(t)
    <3>1. /\ <<t, "lostEnd">> \notin past => open \subseteq {row[s]}
          /\ Busy(s) /\ row[s] # 0 => row[s] \in open /\ \A j \in open : j <= row[s]
          /\ Busy(s) /\ row[s] = 0 => <<t, "unrecorded">> \in past
          /\ pc[s] = "update" =>
               found[s] = row[s] \/ (<<t, "lostEnd">> \in past /\ <<t, "unrecorded">> \in past)
      BY <1>1, <2>4, Alone DEF IInv, Matching, Happened
    <3>2. \A u \in Shells : session[u] = t => u = s
      BY <1>1, <2>4, Alone DEF Shared
    <3>3. open \subseteq 1..Len(entries) /\ past \subseteq past'
      BY Lasting DEF OpenRows, Rows
    <3>4. (~AddStart(s) => open' \subseteq open) /\ (~UpdateRow(s) => open \subseteq open')
      BY <3>2, OpenRowsStep
    <3>5. CASE AddStart(s)
      <4>1. row[s] = 0 /\ pc'[s] = "running" /\ past' = past /\ row'[s] = Len(entries')
            /\ pc[s] = "start"
        BY <2>1, <3>5 DEF AddStart, GoTo, NoRow, Busy
      <4>2. ~UpdateRow(s)
        BY <4>1 DEF UpdateRow
      <4>3. Len(entries') = Len(entries) + 1 /\ Len(entries') \in open'
            /\ open' \subseteq open \cup {Len(entries')}
        <5>1. /\ Len(entries') = Len(entries) + 1
              /\ entries'[Len(entries')] = [session |-> t, exit_code |-> None]
          BY <2>4, <3>5, TableWrites
        <5>2. Len(entries') \in open'
          BY <2>1, <5>1 DEF OpenRows, Rows
        <5>3. \A i \in open' \ open : i = Len(entries')
          BY OpenRowsStep
        <5>4. QED BY <5>1, <5>2, <5>3
      <4>4. QED BY <2>1, <3>1, <3>3, <4>1, <4>2, <4>3 DEF Busy
    <3>6. CASE UpdateRow(s)
      <4>1. pc'[s] = "prompt" /\ row'[s] = 0 /\ past' = past /\ pc[s] = "update"
        BY <2>1, <3>6 DEF UpdateRow, Leave, GoTo
      <4>2. found[s] \notin open'
        <5>1. entries'[found[s]].exit_code = row[s] /\ row[s] \in Nat
          <6>1. entries'[found[s]] = [session |-> session[s], exit_code |-> row[s]]
            BY <3>6, TableWrites
          <6>2. row[s] \in 0..Len(entries) /\ Len(entries) \in Nat
            BY TableStep DEF IInv, TypeOK
          <6>3. QED BY <6>1, <6>2
        <5>2. QED BY <2>1, <5>1 DEF OpenRows
      <4>3. ~AddStart(s)
        BY <4>1 DEF AddStart
      <4>4. QED BY <3>1, <3>4, <4>1, <4>2, <4>3 DEF Busy
    <3>7. CASE SelectOpen(s)
      <4>1. pc[s] = "select" /\ past' = past /\ open' = open
        <5>1. pc[s] = "select" /\ past' = past
          BY <3>7 DEF SelectOpen
        <5>2. ~AddStart(s) /\ ~UpdateRow(s)
          BY <5>1 DEF AddStart, UpdateRow
        <5>3. QED BY <3>4, <5>1, <5>2
      <4>2. CASE open = {}
        <5>1. pc'[s] = "prompt" /\ row'[s] = 0
          BY <2>1, <2>4, <3>7, <4>2 DEF SelectOpen, Leave, GoTo
        <5>2. QED BY <4>1, <4>2, <5>1 DEF Busy
      <4>3. CASE open # {}
        <5>1. pc'[s] = "update" /\ row'[s] = row[s]
              /\ found'[s] \in open /\ \A j \in open : j <= found'[s]
          BY <2>1, <2>4, <3>7, <4>3, Finds
        <5>2. CASE row[s] # 0
          <6>1. row[s] <= found'[s] /\ found'[s] <= row[s] /\ found'[s] \in 1..Len(entries)
            BY <3>1, <3>3, <4>1, <5>1, <5>2 DEF Busy
          <6>2. found'[s] = row[s]
            BY <2>1, <6>1
          <6>3. QED BY <3>1, <4>1, <5>1, <5>2, <6>2 DEF Busy
        <5>3. CASE row[s] = 0
          <6>1. <<t, "unrecorded">> \in past /\ <<t, "lostEnd">> \in past
            BY <2>1, <3>1, <3>3, <4>1, <4>3, <5>3 DEF Busy
          <6>2. QED BY <4>1, <5>1, <5>3, <6>1 DEF Busy
        <5>4. QED BY <5>2, <5>3
      <4>4. QED BY <4>2, <4>3
    <3>8. CASE LoseEnd(s) \/ ExitShell(s) \/ KillShell(s)
      <4>1. pc'[s] \in {"prompt", "off"} /\ row'[s] = 0 /\ (pc'[s] = "prompt" => LoseEnd(s))
        BY <2>1, <3>8 DEF LoseEnd, ExitShell, KillShell, Leave, GoTo
      <4>2. pc'[s] = "prompt"
        BY <1>1, <4>1 DEF Alive
      <4>3. <<t, "lostEnd">> \in past'
        BY <2>4, <4>1, <4>2 DEF LoseEnd, Note
      <4>4. QED BY <4>1, <4>2, <4>3 DEF Busy
    <3>9. CASE NoStart(s)
      <4>1. row[s] = 0 /\ row'[s] = 0 /\ pc'[s] = "running" /\ pc[s] = "start"
            /\ <<t, "unrecorded">> \in past' /\ past \subseteq past'
        BY <2>1, <2>4, <3>9 DEF NoStart, GoTo, Note, NoRow, Busy
      <4>2. open' = open
        BY <3>9 DEF NoStart, OpenRows, Rows
      <4>3. QED BY <3>1, <4>1, <4>2 DEF Busy
    <3>10. CASE Preexec(s) \/ Precmd(s)
      <4>1. row'[s] = row[s] /\ pc'[s] \in {"start", "select"} /\ past' = past
            /\ (pc'[s] = "select" => pc[s] = "running") /\ pc[s] \in {"prompt", "running"}
        BY <2>1, <3>10 DEF Preexec, Precmd, GoTo
      <4>2. open' = open
        <5>1. ~AddStart(s) /\ ~UpdateRow(s)
          BY <4>1 DEF AddStart, UpdateRow
        <5>2. QED BY <3>4, <5>1
      <4>3. QED BY <3>1, <4>1, <4>2 DEF Busy
    <3>11. CASE pc'[s] = pc[s] /\ row'[s] = row[s] /\ found'[s] = found[s]
      <4>1. ~AddStart(s) /\ ~UpdateRow(s)
        BY <2>1, <3>11 DEF AddStart, UpdateRow, Leave, GoTo
      <4>2. open' = open
        BY <3>4, <4>1
      <4>3. QED BY <3>1, <3>3, <3>11, <4>2 DEF Busy
    <3>12. QED
      BY <2>2, <2>3, <3>5, <3>6, <3>7, <3>8, <3>9, <3>10, <3>11, Elsewhere DEF CaptureStep, UserStep
  <2>5. QED BY <1>1, <2>2, <2>3, <2>4, Born
<1>2. ASSUME NEW s \in Shells, Alive(s)' PROVE session'[s] \in Shells
  BY <1>2, TypeStep, OpenedStep DEF Alive, TypeOK, Opened
<1>3. QED BY <1>1, <1>2 DEF Matching, Happened

(***************************************************************************)
(* Sessions, the chain of shells in each, and what add_end has found hang  *)
(* together in every reachable state.                                      *)
(***************************************************************************)
THEOREM Invariance == Spec => []IInv
<1>1. Init => IInv
  <2> SUFFICES ASSUME Init PROVE IInv
    OBVIOUS
  <2>1. entries = <<>> /\ Len(entries) = 0 /\ Rows = {} /\ entries \in Seq(Row)
    BY EmptySeq DEF Init, Rows
  <2>2. TypeOK
    BY <2>1, ConstantsAssumption DEF Init, TypeOK, Phases, Events, Row
  <2>3. Opened /\ RowsOfSessions /\ FoundInSession /\ Waits /\ OneAtWork /\ StillOpen /\ NoRow /\ Matching
    BY <2>1, ConstantsAssumption DEF Init, Opened, RowsOfSessions, FoundInSession, Waits,
      OneAtWork, StillOpen, NoRow, Matching, Alive
  <2>4. QED BY <2>2, <2>3 DEF IInv
<1>2. IInv /\ [Next]_vars => IInv'
  BY TypeStep, OpenedStep, RowsOfSessionsStep, WaitsStep, OneAtWorkStep, StillOpenStep,
    NoRowStep, MatchingStep DEF IInv
<1>3. QED BY <1>1, <1>2, PTL DEF Spec

(***************************************************************************)
(* Shells, hooks and rows have their types: what add_end has found, and    *)
(* the row of the current command, are rows of the table.                  *)
(***************************************************************************)
THEOREM TypeCorrect == Spec => []TypeOK
<1>1. IInv => TypeOK
  BY DEF IInv
<1>2. QED BY <1>1, Invariance, PTL

(***************************************************************************)
(* add_end: a row never holds another command's exit code, however many    *)
(* shells and sessions there are, unless two mishaps of different kinds    *)
(* happened in its session or shells share it.                             *)
(***************************************************************************)
THEOREM ExitCodeIsOwnCorrect == Spec => []ExitCodeIsOwn
<1>1. Init => ExitCodeIsOwn
  BY EmptySeq DEF Init, ExitCodeIsOwn, Rows
<1>2. IInv /\ ExitCodeIsOwn /\ [Next]_vars => ExitCodeIsOwn'
  <2> SUFFICES ASSUME IInv, ExitCodeIsOwn, [Next]_vars, NEW i \in Rows'
               PROVE  \/ entries'[i].exit_code \in {None, i}
                      \/ Shared(entries[i].session)' /\ entries'[i].session = entries[i].session
                      \/ /\ <<entries'[i].session, "lostEnd">> \in past'
                         /\ <<entries'[i].session, "unrecorded">> \in past'
    BY DEF ExitCodeIsOwn, Shared, Happened
  <2>1. CASE i \notin Rows
    <3>1. PICK s \in Shells : entries'[i] = [session |-> session[s], exit_code |-> None]
      BY <2>1, TableStep
    <3>2. QED BY <3>1
  <2>2. CASE i \in Rows
    <3> DEFINE t == entries[i].session
    <3>1. entries'[i].session = t /\ t \in Shells /\ past \subseteq past'
      <4>1. entries \in Seq(Row)
        BY DEF IInv, TypeOK, Row
      <4>2. entries[i] \in Row
        BY <2>2, <4>1, ElementOfSeq DEF Rows
      <4>3. QED BY <2>2, <4>2, TableStep, Lasting DEF Row
    <3>2. CASE Shared(t)'
      BY <3>1, <3>2
    <3>3. CASE ~Shared(t)'
      <4>1. ~Shared(t)
        BY <3>1, <3>3, Alone
      <4>2. CASE entries'[i] = entries[i]
        BY <2>2, <3>1, <4>1, <4>2 DEF ExitCodeIsOwn, Happened
      <4>3. CASE entries'[i] # entries[i]
        <5>1. PICK s \in Shells : /\ UpdateRow(s) /\ found[s] = i
                                  /\ entries'[i] = [session |-> session[s], exit_code |-> row[s]]
          BY <2>2, <4>3, TableStep
        <5>2. session[s] = t /\ pc[s] = "update"
          BY <5>1, TableWrites DEF UpdateRow
        <5>3. \/ found[s] = row[s]
              \/ Happened(t, "lostEnd") /\ Happened(t, "unrecorded")
          BY <4>1, <5>2 DEF IInv, Matching, Alive
        <5>4. QED BY <3>1, <5>1, <5>3 DEF Happened
      <4>4. QED BY <4>2, <4>3
    <3>4. QED BY <3>2, <3>3
  <2>3. QED BY <2>1, <2>2
<1>3. QED BY <1>1, <1>2, Invariance, PTL DEF Spec

(***************************************************************************)
(* add_end: an exit code that is there is overwritten only in a session    *)
(* two shells of which ran side by side: of nested shells one at a time is *)
(* between its SELECT and its UPDATE.                                      *)
(***************************************************************************)
THEOREM ClosedOnceCorrect == Spec => ClosedOnce
<1>1. ASSUME IInv, [Next]_vars
      PROVE  [\A i \in Rows : entries[i].exit_code # None /\ entries'[i] # entries[i]
                => Happened(entries[i].session, "parallel")]_vars
  <2> SUFFICES ASSUME NEW i \in Rows, entries[i].exit_code # None, entries'[i] # entries[i]
               PROVE  Happened(entries[i].session, "parallel")
    OBVIOUS
  <2>1. PICK s \in Shells : UpdateRow(s) /\ found[s] = i
    BY <1>1, TableStep
  <2>2. entries[i].session = session[s]
    BY <1>1, <2>1, TableWrites
  <2>3. pc[s] = "update"
    BY <2>1 DEF UpdateRow
  <2>4. QED BY <1>1, <2>1, <2>2, <2>3 DEF IInv, StillOpen
<1>2. QED BY <1>1, Invariance, PTL DEF Spec, ClosedOnce
=============================================================================
