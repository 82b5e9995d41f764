--------------------------- MODULE MuninStoreProofs ---------------------------
(***************************************************************************)
(* Theorems about MuninStore, for any number of processes, with and        *)
(* without slow writers.                                                   *)
(***************************************************************************)
EXTENDS MuninStore, TLAPS

(***************************************************************************)
(* What a process may do next: look at the file, lay the schema in its     *)
(* transaction, see to the client id, or write, wait and end.              *)
(***************************************************************************)
Looks(p) == Begin(p) \/ ReadVersion(p) \/ ReadSentinel(p)
Founds(p) == Create(p) \/ Verify(p) \/ Stamp(p) \/ StampBusy(p) \/ Commit(p)
Identifies(p) == Claim(p) \/ Fetch(p)
Leaves(p) == BeginWrite(p) \/ EndWrite(p) \/ BusyTimeout(p) \/ Exit(p) \/ Crash(p)

LEMMA StepsAre ==
  ASSUME [Next]_vars
  PROVE  \/ \E p \in Procs : Looks(p) \/ Founds(p) \/ Identifies(p) \/ Leaves(p)
         \/ vars' = vars
BY DEF Next, WaitStep, OpenStep, Looks, Founds, Identifies, Leaves

(***************************************************************************)
(* Store::open: every process is at a known point, and only a snapshot     *)
(* that is still held counts as overtaken.                                 *)
(***************************************************************************)
THEOREM TypeCorrect == Spec => []TypeOK
<1> USE ConstantsAssumption
<1>1. Init => TypeOK
  BY DEF Init, TypeOK, PC, Outcome
<1>2. ASSUME TypeOK, NEW p \in Procs, Looks(p) \/ Founds(p) \/ Identifies(p) \/ Leaves(p)
      PROVE  TypeOK'
  <2> USE DEF TypeOK, PC, Outcome, GoTo, EndTx, db, DB_VERSION
  <2>1. CASE Looks(p)
    BY <1>2, <2>1 DEF Looks, Begin, ReadVersion, ReadSentinel
  <2>2. CASE Founds(p)
    <3>1. CASE Create(p) \/ Verify(p)
      BY <1>2, <3>1 DEF Create, Verify
    <3>2. CASE Stamp(p) \/ StampBusy(p)
      BY <1>2, <3>2 DEF Stamp, StampBusy
    <3>3. CASE Commit(p)
      <4>1. tables' \in BOOLEAN
        BY <3>3, Zenon DEF Commit
      <4>2. UNCHANGED <<clientId, id, late>> /\ version' \in {0, DB_VERSION} /\ EndTx(p, TRUE)
            /\ pc' = [pc EXCEPT ![p] = "claim"]
        BY <1>2, <3>3 DEF Commit
      <4>3. QED BY <1>2, <4>1, <4>2
    <3>4. QED BY <2>2, <3>1, <3>2, <3>3 DEF Founds
  <2>3. CASE Identifies(p)
    <3>1. CASE Claim(p)
      BY <1>2, <3>1 DEF Claim
    <3>2. CASE Fetch(p)
      BY <1>2, <3>2 DEF Fetch
    <3>3. QED BY <2>3, <3>1, <3>2 DEF Identifies
  <2>4. CASE Leaves(p)
    BY <1>2, <2>4 DEF Leaves, BeginWrite, EndWrite, BusyTimeout, Exit, Crash
  <2>5. QED BY <1>2, <2>1, <2>2, <2>3, <2>4
<1>3. TypeOK /\ vars' = vars => TypeOK'
  BY DEF TypeOK, vars
<1>4. TypeOK /\ [Next]_vars => TypeOK'
  BY <1>2, <1>3, StepsAre
<1>5. QED BY <1>1, <1>4, PTL DEF Spec

(***************************************************************************)
(* Where a process is in its schema transaction tells what the file or the *)
(* transaction holds, and that the transaction is the one that writes.     *)
(***************************************************************************)
InTransaction == \A p \in Procs :
  /\ pc[p] = "verify" => tables
  /\ pc[p] = "stamp" => tables \/ (writer = p /\ "tables" \in wrote)
  /\ pc[p] = "commit" => writer = p /\ "stamp" \in wrote /\ (tables \/ "tables" \in wrote)

(***************************************************************************)
(* storage.rs, open(): no crash leaves a file with the tables and without  *)
(* the stamp.  Commit publishes whatever its transaction wrote, so the     *)
(* invariant needs InTransaction: both statements are in it, or the tables *)
(* were there before, and no other process ends or takes over the writer.  *)
(***************************************************************************)
THEOREM SchemaAtomicCorrect == Spec => []SchemaAtomic
<1> DEFINE IInv == SchemaAtomic /\ InTransaction
<1> USE ConstantsAssumption
<1>1. Init => IInv
  BY DEF Init, SchemaAtomic, InTransaction, DB_VERSION
<1>2. ASSUME TypeOK, IInv, NEW p \in Procs, Looks(p) \/ Founds(p) \/ Identifies(p) \/ Leaves(p)
      PROVE  IInv'
  <2> USE DEF SchemaAtomic, InTransaction, TypeOK, GoTo, db
  <2>1. CASE Looks(p)
    BY <1>2, <2>1 DEF Looks, Begin, ReadVersion, ReadSentinel
  <2>2. CASE Create(p)
    BY <1>2, <2>2 DEF Create
  <2>3. CASE Verify(p)
    BY <1>2, <2>3 DEF Verify
  <2>4. CASE Stamp(p)
    BY <1>2, <2>4 DEF Stamp
  <2>5. CASE StampBusy(p)
    BY <1>2, <2>5 DEF StampBusy, EndTx
  <2>6. CASE Commit(p)
    <3>1. tables' /\ version' = DB_VERSION
      BY <1>2, <2>6 DEF Commit
    <3>2. writer = p /\ \A q \in Procs \ {p} : pc[q] # "commit" /\ pc'[q] = pc[q]
      BY <1>2, <2>6 DEF Commit
    <3>3. pc'[p] = "claim"
      BY <1>2, <2>6 DEF Commit
    <3>4. QED BY <3>1, <3>2, <3>3
  <2>7. CASE Identifies(p)
    BY <1>2, <2>7 DEF Identifies, Claim, Fetch
  <2>8. CASE BeginWrite(p) \/ BusyTimeout(p) \/ Exit(p)
    BY <1>2, <2>8 DEF BeginWrite, BusyTimeout, Exit, Outcome
  <2>9. CASE EndWrite(p) \/ Crash(p)
    BY <1>2, <2>9 DEF EndWrite, Crash, EndTx
  <2>10. QED
    BY <1>2, <2>1, <2>2, <2>3, <2>4, <2>5, <2>6, <2>7, <2>8, <2>9 DEF Founds, Leaves
<1>3. IInv /\ vars' = vars => IInv'
  BY DEF SchemaAtomic, InTransaction, vars
<1>4. TypeOK /\ IInv /\ [Next]_vars => IInv'
  <2> HIDE DEF IInv
  <2> QED BY <1>2, <1>3, StepsAre
<1>5. QED BY <1>1, <1>4, TypeCorrect, PTL DEF Spec

(***************************************************************************)
(* Every step either leaves the stored client id alone or is the Claim     *)
(* that creates it: INSERT OR IGNORE never changes it.                     *)
(***************************************************************************)
LEMMA ClientIdStable ==
  ASSUME [Next]_vars, clientId # None
  PROVE  clientId' = clientId
  BY DEF Next, WaitStep, OpenStep, Begin, ReadVersion, ReadSentinel, Create, Verify, Stamp,
    StampBusy, Commit, Claim, Fetch, BeginWrite, EndWrite, BusyTimeout, Exit, Crash, db, vars

\* A process that got past ensure_client_id's INSERT finds a row.
ClaimedBeforeFetch == \A p \in Procs : pc[p] = "fetch" => clientId # None

(***************************************************************************)
(* ensure_client_id: all open stores carry the one stored id.  Inductive   *)
(* together with ClaimedBeforeFetch and the type invariant.                *)
(***************************************************************************)
THEOREM OneClientIdCorrect == Spec => []OneClientId
<1> DEFINE IInv == OneClientId /\ ClaimedBeforeFetch
<1> USE ConstantsAssumption
<1>1. Init => IInv
  BY DEF Init, OneClientId, ClaimedBeforeFetch
<1>2. ASSUME TypeOK, IInv, NEW p \in Procs, [Next]_vars,
             Looks(p) \/ Founds(p) \/ Identifies(p) \/ Leaves(p)
      PROVE  IInv'
  <2> USE DEF OneClientId, ClaimedBeforeFetch, TypeOK, GoTo, db, Outcome
  <2>1. CASE Claim(p)
    <3>1. clientId' # None
      BY <2>1 DEF Claim
    <3>2. clientId # None => clientId' = clientId
      BY <1>2, ClientIdStable
    <3>3. QED BY <1>2, <2>1, <3>1, <3>2 DEF Claim
  <2>2. CASE Fetch(p)
    BY <1>2, <2>2 DEF Fetch
  <2>3. CASE Leaves(p)
    <3>1. CASE Exit(p) \/ Crash(p)
      BY <1>2, <3>1 DEF Exit, Crash
    <3>2. CASE BeginWrite(p) \/ EndWrite(p) \/ BusyTimeout(p)
      BY <1>2, <3>2 DEF BeginWrite, EndWrite, BusyTimeout
    <3>3. QED BY <2>3, <3>1, <3>2 DEF Leaves
  <2>4. CASE Looks(p) \/ Founds(p)
    BY <1>2, <2>4 DEF Looks, Founds, Begin, ReadVersion, ReadSentinel, Create, Verify, Stamp,
      StampBusy, Commit
  <2>5. QED BY <1>2, <2>1, <2>2, <2>3, <2>4 DEF Identifies
<1>3. IInv /\ vars' = vars => IInv'
  BY DEF OneClientId, ClaimedBeforeFetch, vars
<1>4. TypeOK /\ IInv /\ [Next]_vars => IInv'
  <2> HIDE DEF IInv
  <2> QED BY <1>2, <1>3, StepsAre
<1>5. QED BY <1>1, <1>4, TypeCorrect, PTL DEF Spec

(***************************************************************************)
(* What makes the gate safe for latecomers: they find the stamp, so they   *)
(* are never sent to look for the sentinel table.                          *)
(***************************************************************************)
LateSeesStamp == \A p \in late : tables /\ pc[p] # "sentinel"

(***************************************************************************)
(* ensure_compatible_schema: a process that starts after the schema's      *)
(* commit is never refused.                                                *)
(***************************************************************************)
THEOREM OwnFileAcceptedCorrect == Spec => []OwnFileAccepted
<1> DEFINE IInv == OwnFileAccepted /\ LateSeesStamp
<1>1. Init => IInv
  BY DEF Init, OwnFileAccepted, LateSeesStamp
<1>2. ASSUME TypeOK, SchemaAtomic, IInv, NEW p \in Procs,
             Looks(p) \/ Founds(p) \/ Identifies(p) \/ Leaves(p)
      PROVE  IInv'
  <2> USE DEF OwnFileAccepted, LateSeesStamp, SchemaAtomic, TypeOK, GoTo, db
  <2>1. CASE Looks(p)
    BY <1>2, <2>1 DEF Looks, Begin, ReadVersion, ReadSentinel
  <2>2. CASE Founds(p)
    BY <1>2, <2>2 DEF Founds, Create, Verify, Stamp, StampBusy, Commit
  <2>3. CASE Identifies(p) \/ Leaves(p)
    BY <1>2, <2>3 DEF Identifies, Leaves, Claim, Fetch, BeginWrite, EndWrite, BusyTimeout, Exit,
      Crash
  <2>4. QED BY <1>2, <2>1, <2>2, <2>3
<1>3. IInv /\ vars' = vars => IInv'
  BY DEF OwnFileAccepted, LateSeesStamp, vars
<1>4. TypeOK /\ SchemaAtomic /\ IInv /\ [Next]_vars => IInv'
  <2> HIDE DEF IInv
  <2> QED BY <1>2, <1>3, StepsAre
<1>5. QED BY <1>1, <1>4, TypeCorrect, SchemaAtomicCorrect, PTL DEF Spec
=============================================================================
