--------------------------- MODULE MuninImportProofs ---------------------------
(***************************************************************************)
(* Theorems about MuninImport: any number of CLI processes and munind      *)
(* processes, sources of any size, every subset of the faults.             *)
(***************************************************************************)
EXTENDS MuninImport, SequenceTheorems, TLAPS

\* rx.recv: taking the head of a channel shifts what is behind it.
LEMMA Received ==
  ASSUME NEW S, NEW s \in Seq(S), s # <<>>
  PROVE  /\ Len(s) \in Nat \ {0} /\ Head(s) = s[1] /\ s[1] \in S
         /\ Tail(s) \in Seq(S) /\ Len(Tail(s)) = Len(s) - 1
         /\ \A i \in 1..Len(Tail(s)) : Tail(s)[i] = s[i + 1]
  BY HeadTailProperties, EmptySeq, LenProperties, ElementOfSeq

\* tx.send: what is sent goes behind what a channel holds.
LEMMA Sent ==
  ASSUME NEW S, NEW s \in Seq(S), NEW e \in S
  PROVE  /\ Len(s) \in Nat
         /\ Append(s, e) \in Seq(S) /\ Len(Append(s, e)) = Len(s) + 1
         /\ \A i \in 1..Len(s) : Append(s, e)[i] = s[i]
         /\ Append(s, e)[Len(s) + 1] = e
  BY AppendProperties, LenProperties

-----------------------------------------------------------------------------
(* The inductive invariant: where a client's request is.                   *)

\* A client is known to the daemon it connected to only, and what it asked
\* for has not shrunk since.
Addressed == \A c \in Clients :
  /\ cli[c] = "new" <=> conn[c] = None
  /\ conn[c] # None => asked[c].source \in Sources /\ asked[c].size <= size[asked[c].source]
  /\ \A d \in Daemons : Accepted(c, d) => conn[c] = d

\* A request is in the socket, accepted, or answered: never two of these.
OnePlace == \A c \in Clients :
  /\ c \in unread => c \notin done /\ reply[c] = None /\ \A d \in Daemons : ~Accepted(c, d)
  /\ \A d \in Daemons : Accepted(c, d) => reply[c] = None
  /\ conn[c] = None => c \notin done /\ reply[c] = None

\* A channel holds no request twice, and none that is worked on or done.
QueuedOnce == \A d \in Daemons : \A i \in 1..Len(queue[d]) :
  /\ queue[d][i] \notin done \cup {job[d].client}
  /\ \A j \in 1..Len(queue[d]) : queue[d][i] = queue[d][j] => i = j

\* An import covers at least what its source held when the client asked.
JobWhole == \A d \in Daemons : job[d].client # None =>
  1 <= job[d].next /\ asked[job[d].client].size <= job[d].rows

\* A transaction that has written holds the lock; its rows are its import's.
Writing == \A d \in Daemons :
  /\ job[d].tx # {} => writer = d
  /\ \A r \in job[d].tx :
        r.by = job[d].client /\ r.source = asked[job[d].client].source

\* No two rows have one uuid, those of an open transaction included.
Distinct ==
  /\ \A r, s \in db : Uuid(r) = Uuid(s) => r = s
  /\ \A d \in Daemons : \A r, s \in db \cup job[d].tx : Uuid(r) = Uuid(s) => r = s

\* Of each command that an import is past there is a row, its own or another's.
Covered == \A d \in Daemons : Importing(d) => \A i \in 1..(job[d].next - 1) :
  \E r \in db \cup job[d].tx : r.source = asked[job[d].client].source /\ r.cmd = i

\* The answer on the oneshot channel is what became of the import.
Settled == \A c \in Clients :
  /\ reply[c] = "imported" => c \in done
  /\ reply[c] = "error" => c \notin done
  /\ cli[c] \in Results => cli[c] = reply[c]

\* A committed import is in the table, and what is there was committed.
Committed == (\A c \in done : Stored(c)) /\ \A r \in db : r.by \in done

IInv == TypeOK /\ Addressed /\ OnePlace /\ QueuedOnce /\ JobWhole /\ Writing /\ Distinct
        /\ Covered /\ Settled /\ Committed

-----------------------------------------------------------------------------
(* What a step can do.                                                     *)

\* The import that writes or commits a row stays the one at work.
LEMMA JobGoesOn ==
  ASSUME IInv, NEW e \in Daemons, InsertRow(e) \/ Commit(e), NEW d \in Daemons
  PROVE  /\ queue' = queue /\ asked' = asked
         /\ job'[d].client = job[d].client /\ job'[d].rows = job[d].rows
         /\ job'[d].next = IF InsertRow(e) /\ d = e THEN job[d].next + 1 ELSE job[d].next
         /\ d # e => job'[d] = job[d]
         /\ InsertRow(e) <=> ~Commit(e)
<1>1. job \in [Daemons -> Jobs] /\ MaxSize \in Nat
  BY ConstantsAssumption DEF IInv, TypeOK
<1>2. job[e].next \in Nat /\ job[e].rows \in Nat
  BY <1>1 DEF Jobs
<1>3. InsertRow(e) => job[e].next <= job[e].rows
  BY DEF InsertRow
<1>4. Commit(e) => job[e].next > job[e].rows
  BY DEF Commit
<1>5. InsertRow(e) <=> ~Commit(e)
  BY <1>2, <1>3, <1>4
<1>6. CASE InsertRow(e)
  <2>1. queue' = queue /\ asked' = asked
        /\ job' = [job EXCEPT ![e].next = @ + 1,
                              ![e].tx = @ \cup (IF Known(e) THEN {} ELSE {NextRow(e)})]
    BY <1>6 DEF InsertRow
  <2>2. QED BY <1>1, <1>5, <1>6, <2>1 DEF Jobs
<1>7. CASE Commit(e)
  <2>1. queue' = queue /\ asked' = asked /\ job' = [job EXCEPT ![e].tx = {}]
    BY <1>7 DEF Commit
  <2>2. QED BY <1>1, <1>5, <1>7, <2>1 DEF Jobs
<1>8. QED BY <1>6, <1>7

\* A request is accepted by Dispatch alone.
LEMMA AcceptedBefore ==
  ASSUME IInv, [Next]_vars, NEW c \in Clients, NEW d \in Daemons, Accepted(c, d)'
  PROVE  Accepted(c, d) \/ (Dispatch(c) /\ conn[c] = d)
<1> USE DEF Accepted, NoJob
<1> DEFINE Same == job[d]' = job[d] /\ queue[d]' = queue[d]
<1>1. ASSUME Same PROVE Accepted(c, d)
  BY <1>1
<1>2. ASSUME NEW e \in Clients, Dispatch(e) PROVE Accepted(c, d) \/ (Dispatch(c) /\ conn[c] = d)
  <2>1. queue \in [Daemons -> Seq(Clients)] /\ queue[d] \in Seq(Clients)
    BY DEF IInv, TypeOK
  <2>2. CASE conn[e] # d
    BY <1>1, <1>2, <2>1, <2>2 DEF Dispatch
  <2>3. CASE conn[e] = d
    <3>1. queue'[d] = Append(queue[d], e) /\ job' = job
      BY <1>2, <2>1, <2>3 DEF Dispatch
    <3>2. ASSUME NEW i \in 1..Len(queue'[d]), queue'[d][i] = c PROVE Accepted(c, d) \/ e = c
      BY <2>1, <3>1, <3>2, Sent
    <3>3. Accepted(c, d) \/ e = c
      BY <3>1, <3>2
    <3>4. QED BY <1>2, <2>3, <3>3
  <2>4. QED BY <2>2, <2>3
<1>3. ASSUME NEW e \in Daemons, TakeCommand(e) PROVE Accepted(c, d)
  <2>1. queue \in [Daemons -> Seq(Clients)] /\ DOMAIN job = Daemons
    BY DEF IInv, TypeOK
  <2>2. CASE e # d
    BY <1>1, <1>3, <2>1, <2>2 DEF TakeCommand
  <2>3. CASE e = d
    <3>1. /\ job[d]' = [client |-> Head(queue[d]), rows |-> size[asked[Head(queue[d])].source],
                       next |-> 1, tx |-> {}]
          /\ queue[d]' = Tail(queue[d]) /\ queue[d] # <<>>
      BY <1>3, <2>1, <2>3 DEF TakeCommand
    <3>2. c = Head(queue[d]) \/ \E i \in 1..Len(Tail(queue[d])) : Tail(queue[d])[i] = c
      BY <3>1
    <3>3. QED BY <2>1, <3>1, <3>2, Received
  <2>4. QED BY <2>2, <2>3
<1>4. ASSUME NEW e \in Daemons, InsertRow(e) \/ Commit(e) PROVE Accepted(c, d)
  BY <1>4, JobGoesOn
<1>5. ASSUME NEW e \in Daemons, FailImport(e) \/ SendReply(e) \/ Die(e) PROVE Accepted(c, d)
  <2>1. DOMAIN job = Daemons /\ DOMAIN queue = Daemons /\ c # None /\ Len(<<>>) = 0
    BY ConstantsAssumption DEF IInv, TypeOK
  <2>2. job' = [job EXCEPT ![e] = NoJob] /\ (queue' = queue \/ queue' = [queue EXCEPT ![e] = <<>>])
    BY <1>5 DEF FailImport, SendReply, Die, Answer
  <2>3. QED BY <2>1, <2>2
<1>6. ASSUME UNCHANGED <<job, queue>> PROVE Accepted(c, d)
  BY <1>1, <1>6
<1>7. QED
  BY <1>2, <1>3, <1>4, <1>5, <1>6 DEF Next, StorageStep, SendImport, Deliver, EndOfFile,
    Disconnect, StartDaemon, DropRuntime, JoinStorage, Grow, vars

\* The source a client named, and what it held then, are not forgotten.
LEMMA AskedOnce ==
  ASSUME IInv, [Next]_vars, NEW c \in Clients, conn[c] # None
  PROVE  conn'[c] = conn[c] /\ asked'[c] = asked[c]
<1>1. ASSUME NEW e \in Clients, SendImport(e) PROVE e # c
  BY <1>1 DEF SendImport, IInv, Addressed
<1>2. DOMAIN conn = Clients /\ DOMAIN asked = Clients
  BY DEF IInv, TypeOK
<1>3. ASSUME NEW e \in Clients, SendImport(e) PROVE conn'[c] = conn[c] /\ asked'[c] = asked[c]
  BY <1>1, <1>2, <1>3 DEF SendImport
<1>4. QED
  BY <1>3 DEF Next, StorageStep, Deliver, EndOfFile, Disconnect, Dispatch, StartDaemon,
    DropRuntime, JoinStorage, Die, TakeCommand, InsertRow, FailImport, Commit, SendReply, Answer,
    Grow, vars

\* A source only grows.
LEMMA SizeGrows ==
  ASSUME IInv, [Next]_vars, NEW x \in Sources
  PROVE  size[x] \in 0..MaxSize /\ size'[x] \in Nat /\ size[x] <= size'[x]
<1>1. size \in [Sources -> 0..MaxSize] /\ MaxSize \in Nat
  BY ConstantsAssumption DEF IInv, TypeOK
<1>2. ASSUME NEW y \in Sources, Grow(y) PROVE size'[x] \in Nat /\ size[x] <= size'[x]
  <2>1. size' = [size EXCEPT ![y] = @ + 1]
    BY <1>2 DEF Grow
  <2>2. QED BY <1>1, <2>1
<1>3. ASSUME UNCHANGED size PROVE size'[x] \in Nat /\ size[x] <= size'[x]
  BY <1>1, <1>3
<1>4. QED
  BY <1>1, <1>2, <1>3 DEF Next, StorageStep, SendImport, Deliver, EndOfFile, Disconnect, Dispatch,
    StartDaemon, DropRuntime, JoinStorage, Die, TakeCommand, InsertRow, FailImport, Commit,
    SendReply, Grow, vars

\* Who asked, has asked for a source that is there.
LEMMA Named ==
  ASSUME IInv, NEW c \in Clients, NEW d \in Daemons, Accepted(c, d)
  PROVE  /\ conn[c] = d /\ asked[c].source \in Sources
         /\ asked[c].size \in 0..MaxSize /\ asked[c].size <= size[asked[c].source]
<1>1. conn[c] = d /\ d # None
  BY ConstantsAssumption DEF IInv, Addressed
<1>2. asked[c].size \in 0..MaxSize
  BY DEF IInv, TypeOK
<1>3. QED BY <1>1, <1>2 DEF IInv, Addressed

\* The head of the channel, and the import on the storage thread, are accepted.
LEMMA AtWork ==
  ASSUME IInv, NEW d \in Daemons
  PROVE  /\ queue[d] # <<>> => Head(queue[d]) \in Clients /\ Accepted(Head(queue[d]), d)
         /\ job[d].client # None => job[d].client \in Clients /\ Accepted(job[d].client, d)
<1>1. queue[d] \in Seq(Clients) /\ job[d].client \in Clients \cup {None}
  BY DEF IInv, TypeOK, Jobs
<1>2. job[d].client # None => job[d].client \in Clients /\ Accepted(job[d].client, d)
  BY <1>1 DEF Accepted
<1>3. ASSUME queue[d] # <<>> PROVE Head(queue[d]) \in Clients /\ Accepted(Head(queue[d]), d)
  <2>1. 1 \in 1..Len(queue[d]) /\ Head(queue[d]) = queue[d][1] /\ queue[d][1] \in Clients
    BY <1>1, <1>3, Received
  <2>2. QED BY <2>1 DEF Accepted
<1>4. QED BY <1>2, <1>3

\* What InsertRow inserts is a row of the import's source.
LEMMA RowIsOne ==
  ASSUME IInv, NEW d \in Daemons, InsertRow(d)
  PROVE  /\ job[d].client \in Clients \ done /\ daemon[d] # "off"
         /\ job[d].next \in 1..MaxSize /\ job[d].next + 1 \in 0..MaxSize + 1
         /\ NextRow(d) \in Rows
         /\ NextRow(d) = [source |-> asked[job[d].client].source, cmd |-> job[d].next,
                          by |-> job[d].client]
<1>1. job[d] \in Jobs /\ MaxSize \in Nat
  BY ConstantsAssumption DEF IInv, TypeOK
<1>2. job[d].client # None /\ job[d].client \notin done /\ job[d].next <= job[d].rows
  BY DEF InsertRow, Importing
<1>3. job[d].client \in Clients /\ asked[job[d].client].source \in Sources
  BY <1>2, AtWork, Named
<1>4. job[d].next \in 1..MaxSize
  BY <1>1, <1>2 DEF IInv, JobWhole, Jobs
<1>5. daemon[d] # "off"
  BY <1>2 DEF IInv, TypeOK, NoJob
<1>6. QED BY <1>1, <1>2, <1>3, <1>4, <1>5 DEF NextRow, Rows

-----------------------------------------------------------------------------
(* The invariant is inductive, one part at a time.                         *)

\* Every step keeps the types.
LEMMA TypeStep ==
  ASSUME IInv, [Next]_vars
  PROVE  TypeOK'
<1> USE ConstantsAssumption
<1> TypeOK
  BY DEF IInv
<1>1. ASSUME NEW c \in Clients, SendImport(c) PROVE TypeOK'
  BY <1>1 DEF SendImport, TypeOK, Sources
<1>2. ASSUME NEW c \in Clients, Deliver(c) \/ EndOfFile(c) \/ Disconnect(c) PROVE TypeOK'
  BY <1>2 DEF Deliver, EndOfFile, Disconnect, TypeOK, Results
<1>3. ASSUME NEW c \in Clients, Dispatch(c) PROVE TypeOK'
  <2>1. conn[c] \in Daemons /\ daemon[conn[c]] # "off"
    BY <1>3 DEF Dispatch, TypeOK
  <2>2. queue' \in [Daemons -> Seq(Clients)]
    BY <1>3, <2>1, Sent DEF Dispatch, TypeOK
  <2>3. QED BY <1>3, <2>1, <2>2 DEF Dispatch, TypeOK
<1>4. ASSUME NEW d \in Daemons, StartDaemon(d) \/ DropRuntime(d) \/ JoinStorage(d) PROVE TypeOK'
  BY <1>4 DEF StartDaemon, DropRuntime, JoinStorage, TypeOK
<1>5. ASSUME NEW d \in Daemons, Die(d) PROVE TypeOK'
  <2>1. queue' \in [Daemons -> Seq(Clients)]
    BY <1>5, EmptySeq DEF Die, TypeOK
  <2>2. NoJob \in Jobs
    BY DEF NoJob, Jobs
  <2>3. QED BY <1>5, <2>1, <2>2 DEF Die, TypeOK
<1>6. ASSUME NEW d \in Daemons, TakeCommand(d) PROVE TypeOK'
  <2>1. /\ UNCHANGED <<cli, asked, conn, unread, reply, daemon, writer, size, db, done, spoiled>>
        /\ daemon[d] # "off"
    BY <1>6 DEF TakeCommand, TypeOK
  <2>2. queue' \in [Daemons -> Seq(Clients)] /\ \A e \in Daemons \ {d} : queue'[e] = queue[e]
    BY <1>6, Received DEF TakeCommand, TypeOK
  <2>3. DEFINE c == Head(queue[d])
  <2>4. c \in Clients /\ asked[c].source \in Sources
    BY <1>6, AtWork, Named DEF TakeCommand
  <2>5. size[asked[c].source] \in 0..MaxSize
    BY <2>4, SizeGrows
  <2>6. job' = [job EXCEPT ![d] =
          [client |-> c, rows |-> size[asked[c].source], next |-> 1, tx |-> {}]]
    BY <1>6 DEF TakeCommand
  <2>7. job' \in [Daemons -> Jobs]
    BY <2>4, <2>5, <2>6 DEF TypeOK, Jobs
  <2>8. \A e \in Daemons \ {d} : job'[e] = job[e]
    BY <2>6 DEF TypeOK
  <2>9. QED BY <2>1, <2>2, <2>7, <2>8 DEF TypeOK
<1>7. ASSUME NEW d \in Daemons, InsertRow(d) PROVE TypeOK'
  <2>1. UNCHANGED <<cli, asked, conn, unread, reply, daemon, queue, size, db, done, spoiled>>
        /\ writer' = d
    BY <1>7 DEF InsertRow
  <2>2. job[d] \in Jobs /\ NextRow(d) \in Rows /\ daemon[d] # "off" /\ job[d].next + 1 \in 0..MaxSize + 1
    BY <1>7, RowIsOne DEF TypeOK
  <2>3. job' = [job EXCEPT ![d].next = @ + 1,
                           ![d].tx = @ \cup (IF Known(d) THEN {} ELSE {NextRow(d)})]
    BY <1>7 DEF InsertRow
  <2>4. job'[d] \in Jobs /\ \A e \in Daemons \ {d} : job'[e] = job[e]
    BY <2>2, <2>3 DEF Jobs, TypeOK
  <2>5. job' \in [Daemons -> Jobs]
    BY <2>3, <2>4 DEF TypeOK
  <2>6. QED BY <2>1, <2>2, <2>4, <2>5 DEF TypeOK
<1>8. ASSUME NEW d \in Daemons, FailImport(d) \/ SendReply(d) PROVE TypeOK'
  <2>1. job[d].client \in Clients
    BY <1>8 DEF FailImport, Importing, SendReply, TypeOK, Jobs
  <2>2. /\ UNCHANGED <<cli, asked, conn, unread, daemon, queue, size, db, done>>
        /\ spoiled' \subseteq Clients /\ writer' \in Daemons \cup {None}
    BY <1>8, <2>1 DEF FailImport, SendReply, TypeOK
  <2>3. reply' \in [Clients -> Results \cup {None}] /\ job' = [job EXCEPT ![d] = NoJob]
    BY <1>8, <2>1 DEF FailImport, SendReply, Answer, TypeOK, Results
  <2>4. NoJob \in Jobs
    BY DEF NoJob, Jobs
  <2>5. QED BY <2>2, <2>3, <2>4 DEF TypeOK
<1>9. ASSUME NEW d \in Daemons, Commit(d) PROVE TypeOK'
  <2>1. /\ UNCHANGED <<cli, asked, conn, unread, reply, daemon, queue, size, spoiled>>
        /\ job[d] \in Jobs /\ job[d].client # None
    BY <1>9 DEF Commit, Importing, TypeOK
  <2>2. daemon[d] # "off" /\ writer' \in Daemons \cup {None}
    BY <1>9, <2>1 DEF Commit, TypeOK, NoJob
  <2>3. done' \subseteq Clients /\ db' \subseteq Rows
    BY <1>9, <2>1 DEF Commit, TypeOK, Jobs
  <2>4. job' = [job EXCEPT ![d].tx = {}]
    BY <1>9 DEF Commit
  <2>5. job'[d] \in Jobs /\ \A e \in Daemons \ {d} : job'[e] = job[e]
    BY <2>1, <2>4 DEF Jobs, TypeOK
  <2>6. job' \in [Daemons -> Jobs]
    BY <2>4, <2>5 DEF TypeOK
  <2>7. QED BY <2>1, <2>2, <2>3, <2>5, <2>6 DEF TypeOK
<1>10. ASSUME NEW x \in Sources, Grow(x) PROVE TypeOK'
  <2>1. size[x] + 1 \in 0..MaxSize /\ size' = [size EXCEPT ![x] = @ + 1]
    BY <1>10 DEF Grow, TypeOK
  <2>2. size' \in [Sources -> 0..MaxSize]
    BY <2>1 DEF TypeOK
  <2>3. UNCHANGED <<cli, asked, conn, unread, reply, daemon, queue, job, writer, db, done, spoiled>>
    BY <1>10 DEF Grow
  <2>4. QED BY <2>2, <2>3 DEF TypeOK
<1>11. ASSUME UNCHANGED vars PROVE TypeOK'
  BY <1>11 DEF vars, TypeOK
<1>12. QED
  BY <1>1, <1>2, <1>3, <1>4, <1>5, <1>6, <1>7, <1>8, <1>9, <1>10, <1>11 DEF Next, StorageStep

\* Requests and replies stay on a connection to a daemon.
LEMMA AddressedStep ==
  ASSUME IInv, [Next]_vars
  PROVE  Addressed'
<1>1. None \notin Daemons /\ reply \in [Clients -> {"imported", "error", None}]
      /\ DOMAIN cli = Clients /\ DOMAIN conn = Clients
  BY ConstantsAssumption DEF IInv, TypeOK, Results
<1>2. ASSUME NEW c \in Clients PROVE cli'[c] = "new" <=> conn'[c] = None
  <2>1. cli[c] = "new" <=> conn[c] = None
    BY DEF IInv, Addressed
  <2>2. ASSUME NEW e \in Clients, SendImport(e) PROVE cli'[c] = "new" <=> conn'[c] = None
    BY <1>1, <2>1, <2>2 DEF SendImport
  <2>3. ASSUME NEW e \in Clients, Deliver(e) \/ EndOfFile(e) \/ Disconnect(e)
        PROVE  cli'[c] = "new" <=> conn'[c] = None
    BY <1>1, <2>1, <2>3 DEF Deliver, EndOfFile, Disconnect
  <2>4. QED
    BY <2>1, <2>2, <2>3 DEF Next, StorageStep, Dispatch, StartDaemon, DropRuntime, JoinStorage,
      Die, TakeCommand, InsertRow, FailImport, Commit, SendReply, Answer, Grow, vars
<1>3. ASSUME NEW c \in Clients, conn'[c] # None
      PROVE  asked'[c].source \in Sources /\ asked'[c].size <= size'[asked'[c].source]
  <2>1. CASE conn[c] # None
    <3>1. /\ conn[c] # None => asked[c].source \in Sources /\ asked[c].size <= size[asked[c].source]
          /\ asked[c].size \in Nat
      BY ConstantsAssumption DEF IInv, Addressed, TypeOK
    <3>2. QED BY <2>1, <3>1, AskedOnce, SizeGrows
  <2>2. CASE conn[c] = None
    <3>1. ASSUME NEW e \in Clients, SendImport(e)
          PROVE  asked'[c].source \in Sources /\ asked'[c].size <= size'[asked'[c].source]
      <4>1. e = c
        BY <1>1, <1>3, <2>2, <3>1 DEF SendImport
      <4>2. PICK d \in Daemons, x \in Sources :
              asked' = [asked EXCEPT ![c] = [source |-> x, size |-> size[x]]]
        BY <3>1, <4>1 DEF SendImport
      <4>3. size' = size /\ size[x] \in Nat
        BY <3>1, SizeGrows, ConstantsAssumption DEF SendImport
      <4>4. asked'[c] = [source |-> x, size |-> size[x]]
        BY <4>2 DEF IInv, TypeOK
      <4>5. QED BY <4>3, <4>4
    <3>2. QED
      BY <1>3, <2>2, <3>1 DEF Next, StorageStep, Deliver, EndOfFile, Disconnect, Dispatch,
        StartDaemon, DropRuntime, JoinStorage, Die, TakeCommand, InsertRow, FailImport, Commit,
        SendReply, Answer, Grow, vars
  <2>3. QED BY <2>1, <2>2
<1>4. ASSUME NEW c \in Clients, NEW d \in Daemons, Accepted(c, d)' PROVE conn'[c] = d
  <2>1. conn[c] = d
    BY <1>4, AcceptedBefore DEF IInv, Addressed
  <2>2. QED BY <1>1, <2>1, AskedOnce
<1>5. QED BY <1>2, <1>3, <1>4 DEF Addressed

\* The storage thread alone commits and answers, for the import it works on.
LEMMA StorageAnswers ==
  ASSUME IInv, [Next]_vars, NEW c \in Clients
  PROVE  /\ c \in done' <=> c \in done \/ \E d \in Daemons : Commit(d) /\ job[d].client = c
         /\ reply'[c] # reply[c] => \E d \in Daemons :
              /\ job[d].client = c
              /\ \/ FailImport(d) /\ c \notin done /\ reply'[c] = "error"
                 \/ SendReply(d) /\ reply'[c] = "imported"
<1>1. DOMAIN reply = Clients
  BY DEF IInv, TypeOK
<1>2. ASSUME NEW d \in Daemons, FailImport(d)
      PROVE  done' = done /\ (reply'[c] # reply[c] => job[d].client = c /\ c \notin done /\ reply'[c] = "error")
  BY <1>1, <1>2 DEF FailImport, Importing, Answer
<1>3. ASSUME NEW d \in Daemons, SendReply(d)
      PROVE  done' = done /\ (reply'[c] # reply[c] => job[d].client = c /\ reply'[c] = "imported")
  BY <1>1, <1>3 DEF SendReply, Answer
<1>4. ASSUME NEW d \in Daemons, Commit(d)
      PROVE  reply' = reply /\ done' = done \cup {job[d].client}
  BY <1>4 DEF Commit
<1>5. CASE \E d \in Daemons : FailImport(d) \/ SendReply(d)
  <2>1. \A d \in Daemons : Commit(d) => done' = done
    BY <1>2, <1>3, <1>5
  <2>2. \A d \in Daemons : Commit(d) /\ job[d].client = c => c \in done
    BY <1>4, <2>1
  <2>3. c \in done' <=> c \in done \/ \E d \in Daemons : Commit(d) /\ job[d].client = c
    BY <1>2, <1>3, <1>5, <2>2
  <2>4. PICK d \in Daemons : FailImport(d) \/ SendReply(d)
    BY <1>5
  <2>5. CASE FailImport(d)
    BY <1>2, <2>3, <2>5
  <2>6. CASE SendReply(d)
    BY <1>3, <2>3, <2>6
  <2>7. QED BY <2>4, <2>5, <2>6
<1>6. CASE \E d \in Daemons : Commit(d)
  BY <1>4, <1>6
<1>7. CASE UNCHANGED <<reply, done>>
  BY <1>4, <1>7
<1>8. QED
  BY <1>5, <1>6, <1>7 DEF Next, StorageStep, SendImport, Deliver, EndOfFile, Disconnect, Dispatch,
    StartDaemon, DropRuntime, JoinStorage, Die, TakeCommand, InsertRow, Grow, vars

\* A request is unread, queued or at work, never two of these.
LEMMA OnePlaceStep ==
  ASSUME IInv, [Next]_vars
  PROVE  OnePlace'
<1>1. None \notin Daemons /\ DOMAIN conn = Clients /\ DOMAIN job = Daemons /\ unread \subseteq Clients
      /\ \A d \in Daemons : job[d].client \in Clients \cup {None}
  BY ConstantsAssumption DEF IInv, TypeOK, Jobs
<1>2. OnePlace /\ QueuedOnce /\ Addressed
  BY DEF IInv
<1>3. ASSUME NEW c \in Clients, c \in unread'
      PROVE  c \notin done /\ reply[c] = None /\ (\A d \in Daemons : ~Accepted(c, d)) /\ ~Dispatch(c)
  <2>1. CASE c \in unread
    BY <1>2, <1>3, <2>1 DEF OnePlace, Dispatch
  <2>2. CASE c \notin unread
    <3>1. conn[c] = None
      <4>1. SendImport(c)
        BY <1>3, <2>2 DEF Next, StorageStep, SendImport, Deliver, EndOfFile, Disconnect, Dispatch,
          StartDaemon, DropRuntime, JoinStorage, Die, TakeCommand, InsertRow, FailImport, Commit,
          SendReply, Answer, Grow, vars
      <4>2. QED BY <1>2, <4>1 DEF SendImport, Addressed
    <3>2. QED BY <1>1, <1>2, <2>2, <3>1 DEF OnePlace, Addressed, Dispatch
  <2>3. QED BY <2>1, <2>2
<1>4. ASSUME NEW c \in Clients, \A d \in Daemons : ~Accepted(c, d)
      PROVE  (c \in done' <=> c \in done) /\ reply'[c] = reply[c]
  <2>1. \A d \in Daemons : job[d].client # c
    BY <1>4 DEF Accepted
  <2>2. QED BY <2>1, StorageAnswers
<1>5. ASSUME NEW c \in Clients, c \in unread'
      PROVE  c \notin done' /\ reply'[c] = None /\ \A d \in Daemons : ~Accepted(c, d)'
  BY <1>3, <1>4, <1>5, AcceptedBefore
<1>6. ASSUME NEW c \in Clients, NEW d \in Daemons, Accepted(c, d)' PROVE reply'[c] = None
  <2>1. reply[c] = None
    BY <1>2, <1>6, AcceptedBefore DEF OnePlace, Dispatch
  <2>2. ASSUME reply'[c] # None PROVE FALSE
    <3>1. PICK e \in Daemons : job[e].client = c /\ (FailImport(e) \/ SendReply(e))
      BY <2>1, <2>2, StorageAnswers
    <3>2. Accepted(c, e) /\ conn[c] = e
      BY <1>2, <3>1 DEF Accepted, Addressed
    <3>3. e = d
      BY <1>2, <1>6, <3>2, AcceptedBefore DEF Addressed
    <3>4. job'[d] = NoJob /\ queue' = queue
      BY <1>1, <3>1, <3>3 DEF FailImport, SendReply, Answer
    <3>5. PICK i \in 1..Len(queue[d]) : queue[d][i] = c
      BY <1>6, <3>4, ConstantsAssumption DEF Accepted, NoJob
    <3>6. QED BY <1>2, <3>1, <3>3, <3>5 DEF QueuedOnce
  <2>3. QED BY <2>2
<1>7. ASSUME NEW c \in Clients, conn'[c] = None PROVE c \notin done' /\ reply'[c] = None
  <2>1. conn[c] = None
    BY <1>7, AskedOnce
  <2>2. \A d \in Daemons : ~Accepted(c, d)
    BY <1>1, <1>2, <2>1 DEF Addressed
  <2>3. QED BY <1>2, <1>4, <2>1, <2>2 DEF OnePlace
<1>8. QED BY <1>5, <1>6, <1>7 DEF OnePlace

\* No handler queues a request twice.
LEMMA QueuedOnceStep ==
  ASSUME IInv, [Next]_vars
  PROVE  QueuedOnce'
<1>1. DOMAIN queue = Daemons /\ DOMAIN job = Daemons /\ None \notin Clients /\ done \subseteq Clients
      /\ \A d \in Daemons : queue[d] \in Seq(Clients) /\ job[d].client \in Clients \cup {None}
  BY ConstantsAssumption DEF IInv, TypeOK, Jobs
<1>2. QueuedOnce /\ OnePlace /\ Addressed
  BY DEF IInv
<1> DEFINE Once(d) == \A i \in 1..Len(queue'[d]) :
             /\ queue'[d][i] \notin done' \cup {job'[d].client}
             /\ \A j \in 1..Len(queue'[d]) : queue'[d][i] = queue'[d][j] => i = j
<1>3. ASSUME NEW d \in Daemons, queue'[d] = queue[d], job'[d].client \in {job[d].client, None}
      PROVE  Once(d)
  <2>1. ASSUME NEW i \in 1..Len(queue[d]), queue[d][i] \in done' PROVE FALSE
    <3>1. queue[d][i] \in Clients /\ queue[d][i] \notin done \cup {job[d].client}
      BY <1>1, <1>2, ElementOfSeq DEF QueuedOnce
    <3>2. PICK e \in Daemons : job[e].client = queue[d][i]
      BY <2>1, <3>1, StorageAnswers
    <3>3. Accepted(queue[d][i], e) /\ Accepted(queue[d][i], d)
      BY <3>2 DEF Accepted
    <3>4. QED BY <1>2, <3>1, <3>2, <3>3 DEF Addressed
  <2>2. \A i \in 1..Len(queue[d]) : queue[d][i] # None
    BY <1>1, ElementOfSeq
  <2>3. QED BY <1>2, <1>3, <2>1, <2>2 DEF QueuedOnce
<1>4. ASSUME NEW c \in Clients, Dispatch(c), NEW d \in Daemons PROVE Once(d)
  <2>1. job' = job /\ done' = done
    BY <1>4 DEF Dispatch
  <2>2. CASE conn[c] # d
    <3>1. queue'[d] = queue[d]
      BY <1>1, <1>4, <2>2 DEF Dispatch
    <3>2. QED BY <1>3, <2>1, <3>1
  <2>3. CASE conn[c] = d
    <3>1. queue'[d] = Append(queue[d], c)
      BY <1>1, <1>4, <2>3 DEF Dispatch
    <3>2. c \notin done /\ c # job[d].client /\ \A i \in 1..Len(queue[d]) : queue[d][i] # c
      BY <1>2, <1>4 DEF Dispatch, OnePlace, Accepted
    <3>3. /\ Len(queue[d]) \in Nat /\ Len(queue'[d]) = Len(queue[d]) + 1
          /\ \A i \in 1..Len(queue[d]) : queue'[d][i] = queue[d][i]
          /\ queue'[d][Len(queue[d]) + 1] = c
      BY <1>1, <3>1, Sent
    <3>4. \A i \in 1..Len(queue'[d]) : i \in 1..Len(queue[d]) \/ i = Len(queue[d]) + 1
      BY <3>3
    <3>5. QED BY <1>2, <2>1, <3>2, <3>3, <3>4 DEF QueuedOnce
  <2>4. QED BY <2>2, <2>3
<1>5. ASSUME NEW e \in Daemons, TakeCommand(e), NEW d \in Daemons PROVE Once(d)
  <2>1. CASE d # e
    <3>1. queue'[d] = queue[d] /\ job'[d] = job[d]
      BY <1>1, <1>5, <2>1 DEF TakeCommand
    <3>2. QED BY <1>3, <3>1
  <2>2. CASE d = e
    <3>1. /\ queue'[d] = Tail(queue[d]) /\ queue[d] # <<>> /\ done' = done
          /\ job'[d].client = Head(queue[d])
      BY <1>1, <1>5, <2>2 DEF TakeCommand
    <3>2. /\ Len(queue[d]) \in Nat \ {0} /\ Len(queue'[d]) = Len(queue[d]) - 1
          /\ \A i \in 1..Len(queue'[d]) : queue'[d][i] = queue[d][i + 1]
          /\ job'[d].client = queue[d][1]
      BY <1>1, <3>1, Received
    <3>3. \A i \in 1..Len(queue'[d]) : i + 1 \in 1..Len(queue[d]) /\ i + 1 # 1
      BY <3>2
    <3>4. 1 \in 1..Len(queue[d])
      BY <3>2
    <3>5. ASSUME NEW i \in 1..Len(queue'[d])
          PROVE  queue'[d][i] \notin done' \cup {job'[d].client}
      BY <1>2, <3>1, <3>2, <3>3, <3>4 DEF QueuedOnce
    <3>6. ASSUME NEW i \in 1..Len(queue'[d]), NEW j \in 1..Len(queue'[d]),
                 queue'[d][i] = queue'[d][j]
          PROVE  i = j
      <4>1. i + 1 = j + 1
        BY <1>2, <3>2, <3>3, <3>6 DEF QueuedOnce
      <4>2. QED BY <4>1
    <3>7. QED BY <3>5, <3>6
  <2>3. QED BY <2>1, <2>2
<1>6. ASSUME NEW e \in Daemons,
             Die(e) \/ FailImport(e) \/ SendReply(e) \/ InsertRow(e) \/ Commit(e),
             NEW d \in Daemons
      PROVE  Once(d)
  <2>1. CASE Die(e)
    <3>1. queue'[d] = (IF d = e THEN <<>> ELSE queue[d]) /\ job'[d].client \in {job[d].client, None}
      BY <1>1, <2>1 DEF Die, NoJob
    <3>2. queue'[d] = <<>> => Once(d)
      OBVIOUS
    <3>3. QED BY <1>3, <3>1, <3>2
  <2>2. CASE FailImport(e) \/ SendReply(e)
    <3>1. queue' = queue /\ job' = [job EXCEPT ![e] = NoJob] /\ NoJob.client = None
      BY <2>2 DEF FailImport, SendReply, Answer, NoJob
    <3>2. queue'[d] = queue[d] /\ job'[d].client \in {job[d].client, None}
      BY <1>1, <3>1
    <3>3. QED BY <1>3, <3>2
  <2>3. CASE InsertRow(e) \/ Commit(e)
    BY <1>3, <2>3, JobGoesOn
  <2>4. QED BY <1>6, <2>1, <2>2, <2>3
<1>7. ASSUME UNCHANGED <<job, queue>>, NEW d \in Daemons PROVE Once(d)
  BY <1>3, <1>7
<1>8. ASSUME NEW d \in Daemons PROVE Once(d)
  BY <1>4, <1>5, <1>6, <1>7 DEF Next, StorageStep, SendImport, Deliver, EndOfFile, Disconnect,
    StartDaemon, DropRuntime, JoinStorage, Grow, vars
<1>9. QED BY <1>8 DEF QueuedOnce

\* A job that goes on keeps its rows and counts them one by one.
LEMMA JobWholeStep ==
  ASSUME IInv, [Next]_vars
  PROVE  JobWhole'
<1>1. DOMAIN job = Daemons /\ None \notin Clients /\ job \in [Daemons -> Jobs]
  BY ConstantsAssumption DEF IInv, TypeOK
<1> DEFINE Whole(d) == 1 <= job'[d].next /\ asked'[job'[d].client].size <= job'[d].rows
<1>2. ASSUME NEW d \in Daemons, job[d].client # None, job'[d].client = job[d].client,
             job'[d].rows = job[d].rows, job'[d].next \in {job[d].next, job[d].next + 1}
      PROVE  Whole(d)
  <2>1. job[d].client \in Clients /\ conn[job[d].client] # None
    BY <1>2, AtWork, ConstantsAssumption DEF IInv, Addressed
  <2>2. job[d].next \in Nat /\ 1 <= job[d].next
    BY <1>1, <1>2, ConstantsAssumption DEF IInv, JobWhole, Jobs
  <2>3. asked[job[d].client].size <= job[d].rows
    BY <1>2 DEF IInv, JobWhole
  <2>4. asked'[job'[d].client].size <= job'[d].rows
    BY <1>2, <2>1, <2>3, AskedOnce
  <2>5. 1 <= job'[d].next
    BY <1>2, <2>2
  <2>6. QED BY <2>4, <2>5
<1>3. ASSUME NEW e \in Daemons, TakeCommand(e), NEW d \in Daemons, job'[d].client # None
      PROVE  Whole(d)
  <2>1. CASE d # e
    BY <1>1, <1>2, <1>3, <2>1 DEF TakeCommand
  <2>2. CASE d = e
    <3>1. /\ Head(queue[d]) \in Clients /\ Accepted(Head(queue[d]), d)
      BY <1>3, <2>2, AtWork DEF TakeCommand
    <3>2. /\ job'[d].client = Head(queue[d]) /\ job'[d].rows = size[asked[Head(queue[d])].source]
          /\ job'[d].next = 1 /\ asked' = asked
      BY <1>1, <1>3, <2>2 DEF TakeCommand
    <3>3. QED BY <3>1, <3>2, Named
  <2>3. QED BY <2>1, <2>2
<1>4. ASSUME NEW e \in Daemons, InsertRow(e) \/ Commit(e), NEW d \in Daemons
      PROVE  job'[d].client = job[d].client /\ job'[d].rows = job[d].rows
             /\ job'[d].next \in {job[d].next, job[d].next + 1}
  BY <1>4, JobGoesOn
<1>5. ASSUME NEW e \in Daemons, Die(e) \/ FailImport(e) \/ SendReply(e), NEW d \in Daemons
      PROVE  job'[d] = job[d] \/ job'[d].client = None
  BY <1>1, <1>5 DEF Die, FailImport, SendReply, Answer, NoJob
<1>6. ASSUME NEW d \in Daemons, job'[d].client # None PROVE Whole(d)
  <2>1. CASE \E e \in Daemons : InsertRow(e) \/ Commit(e)
    BY <1>2, <1>4, <1>6, <2>1
  <2>2. CASE job'[d] = job[d]
    BY <1>2, <1>6, <2>2
  <2>3. QED
    BY <1>3, <1>5, <1>6, <2>1, <2>2 DEF Next, StorageStep, SendImport, Deliver, EndOfFile,
      Disconnect, Dispatch, StartDaemon, DropRuntime, JoinStorage, Grow, vars
<1>7. QED BY <1>6 DEF JobWhole

\* One storage thread inserts or commits at a time.
LEMMA OneInserts ==
  ASSUME IInv, NEW d \in Daemons, InsertRow(d), NEW e \in Daemons, InsertRow(e) \/ Commit(e)
  PROVE  d = e
<1>1. d # e => job'[d] = job[d]
  BY JobGoesOn
<1>2. job'[d].next = job[d].next + 1
  BY JobGoesOn
<1>3. job[d].next \in Nat
  BY ConstantsAssumption DEF IInv, TypeOK, Jobs
<1>4. QED BY <1>1, <1>2, <1>3

\* Who commits leaves no transaction open; nobody else has one with rows.
LEMMA OneWriter ==
  ASSUME IInv, NEW d \in Daemons, InsertRow(d) \/ Commit(d), NEW e \in Daemons, e # d
  PROVE  (InsertRow(d) \/ job[d].tx # {}) => job[e].tx = {}
<1>1. \A f \in Daemons : job[f].tx # {} => writer = f
  BY DEF IInv, Writing
<1>2. None \notin Daemons
  BY ConstantsAssumption
<1>3. InsertRow(d) => writer \in {None, d}
  BY DEF InsertRow
<1>4. QED BY <1>1, <1>2, <1>3

\* A uuid names the source and the command.
LEMMA SameUuid ==
  ASSUME NEW r, NEW s, Uuid(r) = Uuid(s)
  PROVE  r.source = s.source /\ r.cmd = s.cmd
<1>1. Uuid(r)[1] = r.source /\ Uuid(r)[2] = r.cmd
  BY DEF Uuid
<1>2. Uuid(s)[1] = s.source /\ Uuid(s)[2] = s.cmd
  BY DEF Uuid
<1>3. QED BY <1>1, <1>2

\* Only d's own thread, and d's death, change d's job.
LEMMA JobOf ==
  ASSUME IInv, [Next]_vars, NEW d \in Daemons, job'[d] # job[d]
  PROVE  TakeCommand(d) \/ InsertRow(d) \/ Commit(d) \/ FailImport(d) \/ SendReply(d) \/ Die(d)
<1>1. job \in [Daemons -> Jobs]
  BY DEF IInv, TypeOK
<1>2. ASSUME NEW e \in Daemons, InsertRow(e) \/ Commit(e), d # e PROVE job'[d] = job[d]
  BY <1>2, JobGoesOn
<1>3. ASSUME NEW e \in Daemons, TakeCommand(e) \/ FailImport(e) \/ SendReply(e) \/ Die(e), d # e
      PROVE  job'[d] = job[d]
  BY <1>1, <1>3 DEF TakeCommand, FailImport, SendReply, Die, Answer
<1>4. QED
  BY <1>2, <1>3 DEF Next, StorageStep, SendImport, Deliver, EndOfFile, Disconnect, Dispatch,
    StartDaemon, DropRuntime, JoinStorage, Grow, vars

\* What happens to the rows of a transaction, and to the table.
LEMMA RowsMove ==
  ASSUME IInv, [Next]_vars, NEW d \in Daemons
  PROVE  /\ job'[d].tx \in {{}, job[d].tx} \/ InsertRow(d)
         /\ InsertRow(d) => job'[d].tx = job[d].tx \cup (IF Known(d) THEN {} ELSE {NextRow(d)})
         /\ db' = db \/ \E e \in Daemons : Commit(e) /\ db' = db \cup job[e].tx
         /\ \A e \in Daemons : InsertRow(e) => UNCHANGED <<db, done>>
<1>1. job \in [Daemons -> Jobs]
  BY DEF IInv, TypeOK
<1>2. InsertRow(d) => job'[d].tx = job[d].tx \cup (IF Known(d) THEN {} ELSE {NextRow(d)})
  <2> SUFFICES ASSUME InsertRow(d)
               PROVE  job'[d].tx = job[d].tx \cup (IF Known(d) THEN {} ELSE {NextRow(d)})
    OBVIOUS
  <2>1. job' = [job EXCEPT ![d].next = @ + 1,
                           ![d].tx = @ \cup (IF Known(d) THEN {} ELSE {NextRow(d)})]
    BY DEF InsertRow
  <2>2. QED BY <1>1, <2>1 DEF Jobs
<1>3. ASSUME NEW e \in Daemons, InsertRow(e)
      PROVE  (d # e => job'[d] = job[d]) /\ UNCHANGED <<db, done>>
  BY <1>3, JobGoesOn DEF InsertRow
<1>4. ASSUME NEW e \in Daemons, Commit(e)
      PROVE  job'[d].tx \in {{}, job[d].tx} /\ db' = db \cup job[e].tx
  <2>1. job' = [job EXCEPT ![e].tx = {}] /\ db' = db \cup job[e].tx
    BY <1>4 DEF Commit
  <2>2. QED BY <1>1, <2>1 DEF Jobs
<1>5. ASSUME NEW e \in Daemons, TakeCommand(e) PROVE job'[d].tx \in {{}, job[d].tx} /\ db' = db
  BY <1>1, <1>5 DEF TakeCommand
<1>6. ASSUME NEW e \in Daemons, Die(e) \/ FailImport(e) \/ SendReply(e)
      PROVE  job'[d].tx \in {{}, job[d].tx} /\ db' = db
  BY <1>1, <1>6 DEF Die, FailImport, SendReply, Answer, NoJob
<1>7. ASSUME UNCHANGED <<job, db>> PROVE job'[d].tx \in {{}, job[d].tx} /\ db' = db
  BY <1>7
<1>8. CASE \E e \in Daemons : InsertRow(e)
  BY <1>2, <1>3, <1>8
<1>9. CASE \E e \in Daemons : Commit(e)
  BY <1>2, <1>3, <1>4, <1>9
<1>10. CASE job'[d].tx \in {{}, job[d].tx} /\ db' = db /\ ~\E e \in Daemons : InsertRow(e)
  BY <1>10
<1>11. QED
  BY <1>5, <1>6, <1>7, <1>8, <1>9, <1>10 DEF Next, StorageStep, SendImport, Deliver, EndOfFile,
    Disconnect, Dispatch, StartDaemon, DropRuntime, JoinStorage, Grow, vars

\* A storage thread drops its job, takes the next one, or goes on with it.
LEMMA SameJob ==
  ASSUME IInv, [Next]_vars, NEW d \in Daemons
  PROVE  \/ job'[d] = NoJob
         \/ job'[d].tx = {} /\ job'[d].next = 1
         \/ /\ job'[d].client = job[d].client
            /\ job'[d].client # None => asked'[job'[d].client] = asked[job[d].client]
            /\ job'[d].next = IF InsertRow(d) THEN job[d].next + 1 ELSE job[d].next
<1>1. job \in [Daemons -> Jobs] /\ None \notin Clients
  BY ConstantsAssumption DEF IInv, TypeOK
<1> DEFINE GoesOn == /\ job'[d].client = job[d].client
                     /\ job'[d].next = IF InsertRow(d) THEN job[d].next + 1 ELSE job[d].next
<1>2. ASSUME job'[d].client = job[d].client, job'[d].client # None
      PROVE  asked'[job'[d].client] = asked[job[d].client]
  <2>1. job[d].client \in Clients /\ conn[job[d].client] # None
    BY <1>2, AtWork, ConstantsAssumption DEF IInv, Addressed
  <2>2. QED BY <1>2, <2>1, AskedOnce
<1>3. ASSUME NEW e \in Daemons, InsertRow(e) \/ Commit(e) PROVE GoesOn
  <2>1. InsertRow(d) => d = e
    BY <1>3, OneInserts
  <2>2. QED BY <1>3, <2>1, JobGoesOn
<1>4. ASSUME NEW e \in Daemons, TakeCommand(e)
      PROVE  job'[d] = job[d] \/ (job'[d].tx = {} /\ job'[d].next = 1)
  BY <1>1, <1>4 DEF TakeCommand
<1>5. ASSUME NEW e \in Daemons, Die(e) \/ FailImport(e) \/ SendReply(e)
      PROVE  job'[d] = job[d] \/ job'[d] = NoJob
  BY <1>1, <1>5 DEF Die, FailImport, SendReply, Answer
<1>6. ASSUME job'[d] = job[d] PROVE GoesOn
  <2>1. job[d].next \in Nat
    BY <1>1, ConstantsAssumption DEF Jobs
  <2>2. ~InsertRow(d)
    <3>1. InsertRow(d) => job'[d].next = job[d].next + 1
      BY JobGoesOn
    <3>2. QED BY <1>6, <2>1, <3>1
  <2>3. QED BY <1>6, <2>2
<1>7. GoesOn \/ job'[d] = NoJob \/ (job'[d].tx = {} /\ job'[d].next = 1)
  <2>1. CASE job'[d] = job[d]
    BY <1>6, <2>1
  <2>2. CASE job'[d] # job[d]
    <3>1. TakeCommand(d) \/ InsertRow(d) \/ Commit(d) \/ FailImport(d) \/ SendReply(d) \/ Die(d)
      BY <2>2, JobOf
    <3>2. QED BY <1>3, <1>4, <1>5, <2>2, <3>1
  <2>3. QED BY <2>1, <2>2
<1>8. QED BY <1>2, <1>7

\* Only the job that holds the write lock has rows in its transaction.
LEMMA WritingStep ==
  ASSUME IInv, [Next]_vars
  PROVE  Writing'
<1>1. /\ None \notin Daemons /\ None \notin Clients
      /\ job \in [Daemons -> Jobs] /\ job' \in [Daemons -> Jobs]
  BY TypeStep, ConstantsAssumption DEF IInv, TypeOK
<1>2. ASSUME NEW d \in Daemons, job'[d].tx # {} PROVE writer' = d
  <2>1. InsertRow(d) => writer' = d
    BY DEF InsertRow
  <2>2. ASSUME job[d].tx # {}, job'[d].tx = job[d].tx PROVE writer' = d
    <3>1. \A e \in Daemons : job[e].tx # {} => writer = e
      BY DEF IInv, Writing
    <3>2. writer = d
      BY <2>2, <3>1
    <3>3. ASSUME NEW e \in Daemons, InsertRow(e) PROVE writer' = d
      BY <1>1, <3>2, <3>3 DEF InsertRow
    <3>4. ASSUME NEW e \in Daemons, Commit(e) \/ Die(e) \/ FailImport(e) PROVE writer' = d
      <4>1. e # d
        BY <1>1, <2>2, <3>4 DEF Commit, Die, FailImport, Answer, NoJob, Jobs
      <4>2. QED BY <3>2, <3>4, <4>1 DEF Commit, Die, FailImport
    <3>5. QED
      BY <3>2, <3>3, <3>4 DEF Next, StorageStep, SendImport, Deliver, EndOfFile, Disconnect,
        Dispatch, StartDaemon, DropRuntime, JoinStorage, TakeCommand, SendReply, Grow, vars
  <2>3. QED BY <1>2, <2>1, <2>2, RowsMove
<1>3. ASSUME NEW d \in Daemons, NEW r \in job'[d].tx
      PROVE  r.by = job'[d].client /\ r.source = asked'[job'[d].client].source
  <2>1. CASE InsertRow(d)
    <3>1. job'[d].client = job[d].client /\ asked' = asked
      BY <2>1, JobGoesOn
    <3>2. r \in job[d].tx \/ r = NextRow(d)
      BY <1>3, <2>1, RowsMove
    <3>3. QED BY <2>1, <3>1, <3>2, RowIsOne DEF IInv, Writing
  <2>2. CASE ~InsertRow(d)
    <3>1. job'[d].tx = job[d].tx /\ r \in job[d].tx
      BY <1>3, <2>2, RowsMove
    <3>2. r.by \in Clients /\ r.by = job[d].client /\ r.source = asked[job[d].client].source
      BY <1>1, <3>1 DEF IInv, Writing, Jobs, Rows
    <3>3. QED BY <1>1, <1>3, <2>2, <3>1, <3>2, SameJob DEF NoJob
  <2>3. QED BY <2>1, <2>2
<1>4. QED BY <1>2, <1>3 DEF Writing

\* Commit alone writes the table and the history of commits.
LEMMA OnlyCommit ==
  ASSUME [Next]_vars
  PROVE  (\E d \in Daemons : Commit(d)) \/ UNCHANGED <<db, done>>
  BY DEF Next, StorageStep, SendImport, Deliver, EndOfFile, Disconnect, Dispatch, StartDaemon,
    DropRuntime, JoinStorage, Die, TakeCommand, InsertRow, FailImport, SendReply, Grow, vars

\* A uuid that is there is not inserted again; a commit only publishes.
LEMMA DistinctStep ==
  ASSUME IInv, [Next]_vars
  PROVE  Distinct'
<1>1. job \in [Daemons -> Jobs]
  BY DEF IInv, TypeOK
<1>2. Distinct
  BY DEF IInv
<1>3. \A r, s : Uuid(r)' = Uuid(r)
  BY DEF Uuid
<1>4. ASSUME NEW d \in Daemons, NEW r \in db' \cup job'[d].tx, NEW s \in db' \cup job'[d].tx,
             Uuid(r) = Uuid(s)
      PROVE  r = s
  <2>1. CASE \E e \in Daemons : InsertRow(e)
    <3>1. PICK e \in Daemons : InsertRow(e)
      BY <2>1
    <3>2. db' = db /\ (d # e => job'[d] = job[d])
      BY <3>1, RowsMove, JobGoesOn
    <3>3. CASE d # e
      BY <1>2, <1>4, <3>2, <3>3 DEF Distinct
    <3>4. CASE d = e
      <4>1. job'[d].tx = job[d].tx \cup (IF Known(d) THEN {} ELSE {NextRow(d)})
        BY <3>1, <3>4, RowsMove
      <4>2. ~Known(d) => \A t \in db \cup job[d].tx : Uuid(t) # Uuid(NextRow(d))
        BY DEF Known
      <4>3. CASE Known(d)
        BY <1>2, <1>4, <3>2, <4>1, <4>3 DEF Distinct
      <4>4. CASE ~Known(d)
        <5>1. /\ r \in db \cup job[d].tx \/ r = NextRow(d)
              /\ s \in db \cup job[d].tx \/ s = NextRow(d)
          BY <1>4, <3>2, <4>1, <4>4
        <5>2. CASE r \in db \cup job[d].tx /\ s \in db \cup job[d].tx
          BY <1>2, <1>4, <5>2 DEF Distinct
        <5>3. QED BY <1>4, <4>2, <4>4, <5>1, <5>2
      <4>5. QED BY <4>3, <4>4
    <3>5. QED BY <3>3, <3>4
  <2>2. CASE ~\E e \in Daemons : InsertRow(e)
    <3>1. job'[d].tx \subseteq job[d].tx
      BY <2>2, RowsMove
    <3>2. CASE db' = db
      BY <1>2, <1>4, <3>1, <3>2 DEF Distinct
    <3>3. CASE db' # db
      <4>1. PICK e \in Daemons : Commit(e) /\ db' = db \cup job[e].tx
        BY <3>3, RowsMove
      <4>2. job[e].tx # {}
        BY <3>3, <4>1
      <4>3. d # e => job[d].tx = {}
        BY <4>1, <4>2, OneWriter
      <4>4. r \in db \cup job[e].tx /\ s \in db \cup job[e].tx
        BY <1>4, <3>1, <4>1, <4>3
      <4>5. QED BY <1>2, <1>4, <4>4 DEF Distinct
    <3>4. QED BY <3>2, <3>3
  <2>3. QED BY <2>1, <2>2
<1>5. ASSUME NEW r \in db', NEW s \in db', Uuid(r) = Uuid(s)
      PROVE  r = s
  <2>1. CASE db' = db
    BY <1>2, <1>5, <2>1 DEF Distinct
  <2>2. CASE db' # db
    <3>1. PICK e \in Daemons : Commit(e)
      BY <2>2, OnlyCommit
    <3>2. db' = db \cup job[e].tx
      BY <3>1 DEF Commit
    <3>3. QED BY <1>2, <1>5, <3>2 DEF Distinct
  <2>3. QED BY <2>1, <2>2
<1>6. QED BY <1>3, <1>4, <1>5 DEF Distinct

\* An import goes past a command only once there is a row of it.
LEMMA CoveredStep ==
  ASSUME IInv, [Next]_vars
  PROVE  Covered'
<1>1. job \in [Daemons -> Jobs] /\ job' \in [Daemons -> Jobs] /\ None \notin Clients
      /\ db \subseteq db'
  <2>1. db \subseteq db'
    BY OnlyCommit DEF Commit
  <2>2. QED BY <2>1, TypeStep, ConstantsAssumption DEF IInv, TypeOK
<1>2. ASSUME NEW d \in Daemons, Importing(d)', NEW i \in 1..(job'[d].next - 1)
      PROVE  \E r \in db' \cup job'[d].tx :
                r.source = asked'[job'[d].client].source /\ r.cmd = i
  <2>1. job'[d].client \in Clients /\ job'[d].client \notin done' /\ job'[d].client # None
    BY <1>1, <1>2 DEF Importing, Jobs
  <2>2. job'[d] # NoJob /\ job'[d].next # 1
    BY <1>2, <2>1 DEF NoJob
  <2>3. /\ job'[d].client = job[d].client
        /\ asked'[job'[d].client] = asked[job[d].client]
        /\ job'[d].next = IF InsertRow(d) THEN job[d].next + 1 ELSE job[d].next
    BY <2>1, <2>2, SameJob
  <2>4. job[d].client \notin done
    BY <2>1, <2>3, StorageAnswers
  <2>5. Importing(d)
    BY <2>1, <2>3, <2>4 DEF Importing
  <2> DEFINE Past(j) == \E r \in db \cup job[d].tx : r.source = asked[job[d].client].source /\ r.cmd = j
  <2>6. \A j \in 1..(job[d].next - 1) : Past(j)
    BY <2>5 DEF IInv, Covered
  <2>7. CASE InsertRow(d)
    <3>1. job'[d].tx = job[d].tx \cup (IF Known(d) THEN {} ELSE {NextRow(d)})
      BY <2>7, RowsMove
    <3>2. job[d].next \in Nat /\ job'[d].next = job[d].next + 1
      BY <1>1, <2>3, <2>7, ConstantsAssumption DEF Jobs
    <3>3. i \in 1..(job[d].next - 1) \/ i = job[d].next
      BY <1>2, <3>2
    <3>4. CASE i \in 1..(job[d].next - 1)
      BY <1>1, <2>3, <2>6, <3>1, <3>4
    <3>5. CASE i = job[d].next
      <4>1. NextRow(d).source = asked[job[d].client].source /\ NextRow(d).cmd = i
        BY <2>7, <3>5, RowIsOne
      <4>2. CASE Known(d)
        <5>1. PICK r \in db \cup job[d].tx : Uuid(r) = Uuid(NextRow(d))
          BY <4>2 DEF Known
        <5>2. r.source = NextRow(d).source /\ r.cmd = NextRow(d).cmd
          BY <5>1, SameUuid
        <5>3. QED BY <1>1, <2>3, <3>1, <4>1, <5>1, <5>2
      <4>3. CASE ~Known(d)
        BY <2>3, <3>1, <4>1, <4>3
      <4>4. QED BY <4>2, <4>3
    <3>6. QED BY <3>3, <3>4, <3>5
  <2>8. CASE ~InsertRow(d)
    <3>1. job'[d].tx = job[d].tx \/ job'[d].tx = {}
      BY <2>8, RowsMove
    <3>2. Past(i)
      BY <1>2, <2>3, <2>6, <2>8
    <3>3. CASE job'[d].tx = job[d].tx
      BY <1>1, <2>3, <3>2, <3>3
    <3>4. CASE job'[d].tx # job[d].tx
      <4>1. Commit(d) \/ TakeCommand(d) \/ Die(d) \/ FailImport(d) \/ SendReply(d)
        BY <1>1, <2>8, <3>4, JobOf
      <4>2. ~Commit(d)
        BY <2>1, <2>3 DEF Commit
      <4>3. ~(TakeCommand(d) \/ Die(d) \/ FailImport(d) \/ SendReply(d))
        BY <1>1, <2>2 DEF TakeCommand, Die, FailImport, SendReply, Answer
      <4>4. QED BY <4>1, <4>2, <4>3
    <3>5. QED BY <3>3, <3>4
  <2>9. QED BY <2>7, <2>8
<1>3. QED BY <1>2 DEF Covered

\* A reply is sent for a finished import only, and stays true.
LEMMA SettledStep ==
  ASSUME IInv, [Next]_vars
  PROVE  Settled'
<1>1. None \notin Results /\ DOMAIN cli = Clients /\ reply \in [Clients -> Results \cup {None}]
  BY ConstantsAssumption DEF IInv, TypeOK
<1>2. Settled /\ OnePlace
  BY DEF IInv
<1>3. ASSUME NEW c \in Clients, reply'[c] # reply[c] PROVE reply[c] = None
  BY <1>2, <1>3, StorageAnswers DEF OnePlace, Accepted
<1>4. ASSUME NEW c \in Clients, c \in done', c \notin done PROVE reply[c] = None /\ reply' = reply
  <2>1. PICK d \in Daemons : Commit(d) /\ job[d].client = c
    BY <1>4, StorageAnswers
  <2>2. QED BY <1>2, <2>1 DEF OnePlace, Accepted, Commit
<1>5. ASSUME NEW c \in Clients, reply'[c] = "imported" PROVE c \in done'
  <2>1. CASE reply[c] = "imported"
    BY <1>2, <2>1, StorageAnswers DEF Settled
  <2>2. CASE reply[c] # "imported"
    <3>1. c \in done
      BY <1>5, <2>2, StorageAnswers DEF SendReply
    <3>2. QED BY <3>1, StorageAnswers
  <2>3. QED BY <2>1, <2>2
<1>6. ASSUME NEW c \in Clients, reply'[c] = "error", c \in done' PROVE FALSE
  <2>1. CASE c \in done
    BY <1>2, <1>6, <2>1, StorageAnswers DEF Settled
  <2>2. CASE c \notin done
    BY <1>1, <1>4, <1>6, <2>2 DEF Results
  <2>3. QED BY <2>1, <2>2
<1>7. ASSUME NEW c \in Clients, cli'[c] \in Results PROVE cli'[c] = reply'[c]
  <2>1. ASSUME NEW e \in Clients, Deliver(e) PROVE cli'[c] = reply'[c]
    BY <1>1, <1>2, <1>7, <2>1 DEF Deliver, Settled
  <2>2. ASSUME NEW e \in Clients, SendImport(e) \/ EndOfFile(e) \/ Disconnect(e)
        PROVE  cli'[c] = reply'[c]
    <3>1. cli'[c] = cli[c] /\ reply' = reply
      BY <1>1, <1>7, <2>2 DEF SendImport, EndOfFile, Disconnect, Results
    <3>2. QED BY <1>2, <1>7, <3>1 DEF Settled
  <2>3. ASSUME UNCHANGED cli PROVE cli'[c] = reply'[c]
    <3>1. cli[c] = reply[c]
      BY <1>2, <1>7, <2>3 DEF Settled
    <3>2. QED BY <1>1, <1>3, <1>7, <2>3, <3>1
  <2>4. QED
    BY <2>1, <2>2, <2>3 DEF Next, StorageStep, Dispatch, StartDaemon, DropRuntime, JoinStorage,
      Die, TakeCommand, InsertRow, FailImport, Commit, SendReply, Grow, vars
<1>8. QED BY <1>5, <1>6, <1>7 DEF Settled

\* Committed imports stay in the table; a commit adds one that is whole.
LEMMA CommittedStep ==
  ASSUME IInv, [Next]_vars
  PROVE  Committed'
<1>1. /\ done \subseteq Clients /\ db \subseteq db' /\ MaxSize \in Nat
      /\ asked \in [Clients -> [source : Sources \cup {None}, size : 0..MaxSize]]
      /\ job \in [Daemons -> Jobs]
  <2>1. db \subseteq db'
    BY OnlyCommit DEF Commit
  <2>2. QED BY <2>1, ConstantsAssumption DEF IInv, TypeOK
<1>2. ASSUME NEW c \in done PROVE asked'[c] = asked[c]
  BY <1>1, <1>2, AskedOnce DEF IInv, OnePlace
<1>3. (\A c \in done : Stored(c)) /\ \A r \in db : r.by \in done
  BY DEF IInv, Committed
<1>4. ASSUME NEW c \in done PROVE Stored(c)'
  BY <1>1, <1>2, <1>3, <1>4 DEF Stored
<1>5. ASSUME NEW d \in Daemons, Commit(d) PROVE Committed'
  <2> DEFINE w == job[d].client
  <2>1. /\ w # None /\ w \notin done /\ job[d].next > job[d].rows /\ asked' = asked
        /\ db' = db \cup job[d].tx /\ done' = done \cup {w}
    BY <1>5 DEF Commit, Importing
  <2>2. w \in Clients /\ asked[w].size \in Nat /\ asked[w].size <= job[d].rows
        /\ job[d].rows \in Nat /\ job[d].next \in Nat
    BY <1>1, <2>1 DEF IInv, JobWhole, Jobs
  <2>3. \A i \in 1..asked[w].size : i \in 1..(job[d].next - 1)
    BY <2>1, <2>2
  <2>4. \A i \in 1..(job[d].next - 1) : \E r \in db' : r.source = asked[w].source /\ r.cmd = i
    BY <1>5, <2>1 DEF IInv, Covered, Commit
  <2>5. ASSUME NEW c \in done' PROVE Stored(c)'
    <3>1. c \in done \/ c = w
      BY <2>1
    <3>2. c = w => Stored(c)'
      BY <2>1, <2>3, <2>4 DEF Stored
    <3>3. QED BY <1>4, <3>1, <3>2
  <2>6. \A r \in job[d].tx : r.by = w
    BY DEF IInv, Writing
  <2>7. QED BY <1>3, <2>1, <2>5, <2>6 DEF Committed
<1>6. ASSUME UNCHANGED <<db, done>> PROVE Committed'
  BY <1>3, <1>4, <1>6 DEF Committed
<1>7. QED BY <1>5, <1>6, OnlyCommit

(***************************************************************************)
(* Requests, channels, jobs, transactions and the answers hang together in *)
(* every reachable state.                                                  *)
(***************************************************************************)
THEOREM Invariance == Spec => []IInv
<1>1. Init => IInv
  <2> SUFFICES ASSUME Init PROVE IInv
    OBVIOUS
  <2>1. NoJob \in Jobs
    BY ConstantsAssumption DEF Jobs, NoJob
  <2>2. TypeOK
    BY <2>1, EmptySeq, ConstantsAssumption DEF Init, TypeOK, Sources
  <2>3. \A c \in Clients, d \in Daemons : ~Accepted(c, d)
    BY ConstantsAssumption, EmptySeq DEF Init, Accepted, NoJob
  <2>4. Addressed /\ OnePlace /\ Settled /\ Committed
    BY <2>3, ConstantsAssumption DEF Init, Addressed, OnePlace, Settled, Committed, Results
  <2>5. QueuedOnce /\ JobWhole /\ Writing
    BY EmptySeq DEF Init, QueuedOnce, JobWhole, Writing, NoJob
  <2>6. Distinct /\ Covered
    BY DEF Init, Distinct, Covered, Importing, NoJob
  <2>7. QED BY <2>2, <2>4, <2>5, <2>6 DEF IInv
<1>2. IInv /\ [Next]_vars => IInv'
  BY TypeStep, AddressedStep, OnePlaceStep, QueuedOnceStep, JobWholeStep, WritingStep,
    DistinctStep, CoveredStep, SettledStep, CommittedStep DEF IInv
<1>3. QED BY <1>1, <1>2, PTL DEF Spec

(***************************************************************************)
(* The channel, the job and its transaction have their types: a munind     *)
(* that is gone has neither, and a job never counts past the rows its      *)
(* source can hold.                                                        *)
(***************************************************************************)
THEOREM TypeCorrect == Spec => []TypeOK
<1>1. IInv => TypeOK
  BY DEF IInv
<1>2. QED BY <1>1, Invariance, PTL

(***************************************************************************)
(* A client that is told "imported" finds every command its source held    *)
(* when it asked, one that is told "error" can ask again: no matter how    *)
(* many daemons overlap, and which of them die or stop at what point.      *)
(***************************************************************************)
THEOREM ReplyTruthfulCorrect == Spec => []ReplyTruthful
<1>1. IInv => ReplyTruthful
  BY DEF IInv, Settled, Committed, ReplyTruthful, Results
<1>2. QED BY <1>1, Invariance, PTL

(***************************************************************************)
(* import_atuin_db: no command of an atuin database is there twice.  The   *)
(* uuid is looked for and the row committed under one hold of the write    *)
(* lock (Writing), so no other import can have added it in between.        *)
(***************************************************************************)
THEOREM AtuinOnceCorrect == Spec => []AtuinOnce
<1>1. IInv => AtuinOnce
  <2> SUFFICES ASSUME IInv, NEW r \in db, NEW s \in db,
                      r.source \in Atuin, r.source = s.source, r.cmd = s.cmd
               PROVE  r = s
    BY DEF AtuinOnce
  <2>1. Uuid(r) = Uuid(s)
    BY DEF Uuid
  <2>2. QED BY <2>1 DEF IInv, Distinct
<1>2. QED BY <1>1, Invariance, PTL

(***************************************************************************)
(* import_file, import_atuin_db: what an interrupted or failed import had  *)
(* inserted is never in the table, what a committed one read always is.    *)
(***************************************************************************)
THEOREM WholeImportsCorrect == Spec => []WholeImports
<1>1. IInv => WholeImports
  BY DEF IInv, Committed, WholeImports
<1>2. QED BY <1>1, Invariance, PTL
=============================================================================
