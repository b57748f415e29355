--------------------------- MODULE SmsIngestProofs ---------------------------
(***************************************************************************)
(* Proofs about SmsIngest, for any messages, texts, deliveries, failed     *)
(* statements, restarts and changes of the line.                           *)
(***************************************************************************)
EXTENDS SmsIngest, TLAPS

\* A transport has a message as long as it does something.
HandlingInv ==
  \A t \in Transports : worker[t].pc # "idle" => worker[t].msg \in Messages

\* As long as deduplication was never off, it is on for every transport.
DedupeOn == ~wasOff => dedupe /\ sessionDedupe

\* The transport goes on to store the message.
Storing(t, m) == worker[t].pc = "insert" /\ worker[t].msg = m

\* A message that is being stored was claimed, and by this transport alone.
ClaimInv ==
  ~wasOff =>
    \A m \in Messages, t \in Transports :
      Storing(t, m) => /\ m \in claimed
                       /\ \A u \in Transports : Storing(u, m) => u = t
                       /\ \A u \in Transports : ~StoredBy(m, u)

\* A message that is stored was claimed, and is stored once.
RowInv ==
  ~wasOff =>
    \A m \in Messages, t \in Transports :
      StoredBy(m, t) => /\ m \in claimed
                        /\ rows[m][t] = 1
                        /\ \A u \in Transports : StoredBy(m, u) => u = t

IInv == TypeOK /\ HandlingInv /\ DedupeOn /\ ClaimInv /\ RowInv

-----------------------------------------------------------------------------
(* Types.                                                                  *)

\* The initial state is typed.
LEMMA TypeInit == Init => TypeOK
BY IngestAssumption DEF Init, TypeOK, Idle

WorkerType == [Transports -> [pc : {"idle", "check", "claim", "insert"},
                              msg : Messages \cup {NoMessage},
                              mode : {"Live", "Reconcile"}]]

\* A transport that is done is idle, and the others are where they were.
LEMMA FinishType ==
  ASSUME worker \in WorkerType, NEW t \in Transports, Finish(t)
  PROVE  /\ worker' \in WorkerType
         /\ worker'[t] = Idle
         /\ \A u \in Transports \ {t} : worker'[u] = worker[u]
<1>1. Idle \in [pc : {"idle", "check", "claim", "insert"},
                msg : Messages \cup {NoMessage}, mode : {"Live", "Reconcile"}]
  BY DEF Idle
<1> QED
  BY <1>1 DEF WorkerType, Finish

\* A transport that goes on keeps its message.
LEMMA ContinueType ==
  ASSUME worker \in WorkerType, NEW t \in Transports,
         NEW pc \in {"claim", "insert"}, Continue(t, pc)
  PROVE  /\ worker' \in WorkerType
         /\ worker'[t].pc = pc /\ worker'[t].msg = worker[t].msg
         /\ \A u \in Transports \ {t} : worker'[u] = worker[u]
<1> DEFINE w == [worker[t] EXCEPT !.pc = pc]
<1>1. /\ w \in [pc : {"idle", "check", "claim", "insert"},
                 msg : Messages \cup {NoMessage}, mode : {"Live", "Reconcile"}]
      /\ w.pc = pc /\ w.msg = worker[t].msg
  BY DEF WorkerType
<1>2. worker' = [worker EXCEPT ![t] = w]
  BY DEF Continue
<1> HIDE DEF w
<1> QED
  BY <1>1, <1>2 DEF WorkerType

\* Every step of a transport, of the modem, of the operator and of the process
\* keeps the variables typed, and a transport at work has a message.
LEMMA TypeStep ==
  TypeOK /\ HandlingInv /\ [Next]_vars => TypeOK' /\ HandlingInv'
<1> SUFFICES ASSUME TypeOK, HandlingInv, [Next]_vars
             PROVE  TypeOK' /\ HandlingInv'
  OBVIOUS
<1> USE IngestAssumption DEF TypeOK, HandlingInv, lineVars, Idle, Fault
<1>1. ASSUME NEW m \in Messages, DeliverModem(m) PROVE TypeOK' /\ HandlingInv'
  BY <1>1 DEF DeliverModem, Submit
<1>2. ASSUME NEW m \in Messages, DeleteCopy(m) PROVE TypeOK' /\ HandlingInv'
  BY <1>2 DEF DeleteCopy
<1>3. ASSUME NEW m \in Messages, NEW t \in Ims, DeliverIms(t, m)
      PROVE  TypeOK' /\ HandlingInv'
  BY <1>3 DEF DeliverIms, Submit, Transports, Ims
<1>4. ASSUME NEW m \in Messages, NEW mode \in {"Live", "Reconcile"},
             ReadCopy(m, mode)
      PROVE  TypeOK' /\ HandlingInv'
  BY <1>4 DEF ReadCopy, Transports
<1>5. ASSUME NEW t \in Transports, Work(t) PROVE TypeOK' /\ HandlingInv'
  <2>1. worker \in WorkerType /\ worker[t].msg \in Messages
    BY <1>5 DEF WorkerType, Work, Check, Claim, Insert
  <2>2. Finish(t) \/ Continue(t, "claim") \/ Continue(t, "insert")
    BY <1>5 DEF Work, Check, Claim, Insert, Known, Discard
  <2>3. worker' \in WorkerType /\ HandlingInv'
    <3>1. CASE Finish(t)
      BY <2>1, <3>1, FinishType DEF WorkerType
    <3>2. ASSUME NEW pc \in {"claim", "insert"}, Continue(t, pc)
          PROVE  worker' \in WorkerType /\ HandlingInv'
      BY <2>1, <3>2, ContinueType DEF WorkerType
    <3> QED
      BY <2>2, <3>1, <3>2
  <2>4. CASE Check(t)
    BY <2>1, <2>3, <2>4 DEF Check, Known, Discard, WorkerType
  <2>5. CASE Claim(t)
    BY <2>1, <2>3, <2>5 DEF Claim, Discard, WorkerType
  <2>6. CASE Insert(t)
    <3> DEFINE m == worker[t].msg
               r == [rows[m] EXCEPT ![t] = rows[m][t] + 1]
    <3>1. r \in [Transports -> Nat]
      BY <2>1
    <3>2. rows' = rows \/ rows' = [rows EXCEPT ![m] = r]
      BY <2>6 DEF Insert
    <3>3. rows' \in [Messages -> [Transports -> Nat]]
      <4> HIDE DEF r
      <4> QED
        BY <2>1, <3>1, <3>2
    <3> QED
      BY <2>1, <2>3, <2>6, <3>3 DEF Insert, Discard, WorkerType
  <2> QED
    BY <1>5, <2>4, <2>5, <2>6 DEF Work
<1>6. CASE ToggleLine
  BY <1>6 DEF ToggleLine, Switch
<1>7. CASE ToggleIms
  BY <1>7 DEF ToggleIms, Switch
<1>8. CASE ToggleDedupe
  BY <1>8 DEF ToggleDedupe, Switch
<1>9. CASE Restart
  BY <1>9 DEF Restart
<1>10. CASE UNCHANGED vars
  BY <1>10 DEF vars
<1> QED
  BY <1>1, <1>2, <1>3, <1>4, <1>5, <1>6, <1>7, <1>8, <1>9, <1>10
     DEF Next

-----------------------------------------------------------------------------
(* One claim and one row for each message.                                 *)

\* Nothing is claimed, stored or being stored at first.
LEMMA IngestInit == Init => IInv
<1> SUFFICES ASSUME Init PROVE IInv
  OBVIOUS
<1>1. \A t \in Transports : worker[t].pc = "idle"
  BY DEF Init, Idle
<1>2. \A m \in Messages, t \in Transports : ~StoredBy(m, t)
  BY DEF Init, StoredBy
<1>3. DedupeOn
  BY DEF Init, DedupeOn
<1> QED
  BY <1>1, <1>2, <1>3, TypeInit
     DEF IInv, HandlingInv, ClaimInv, RowInv, Storing

\* Deduplication counts as having been off from the moment it is switched off.
LEMMA DedupeStep == DedupeOn /\ [Next]_vars => DedupeOn'
<1> SUFFICES ASSUME DedupeOn, [Next]_vars PROVE DedupeOn'
  OBVIOUS
<1>1. CASE UNCHANGED lineVars
  BY <1>1 DEF DedupeOn, lineVars
<1>2. CASE ToggleLine \/ ToggleIms \/ ToggleDedupe \/ Restart
  BY <1>2 DEF DedupeOn, ToggleLine, ToggleIms, ToggleDedupe, Restart
<1> QED
  BY <1>1, <1>2 DEF Next, Work, DeliverModem, DeleteCopy, DeliverIms, ReadCopy,
                    Check, Claim, Insert, vars

\* A step that claims nothing and stores nothing, after which no transport
\* stores a message it was not storing before.
LEMMA NothingStored ==
  ASSUME ClaimInv, RowInv, UNCHANGED <<claimed, rows>>, wasOff => wasOff',
         \A t \in Transports, m \in Messages : Storing(t, m)' => Storing(t, m)
  PROVE  ClaimInv' /\ RowInv'
BY DEF ClaimInv, RowInv, StoredBy

\* Every step keeps the claims and the rows in order.
LEMMA RowStep == IInv /\ [Next]_vars => ClaimInv' /\ RowInv'
<1> SUFFICES ASSUME IInv, [Next]_vars PROVE ClaimInv' /\ RowInv'
  OBVIOUS
<1> USE DEF IInv, TypeOK, HandlingInv
<1>0. worker \in WorkerType
  BY DEF WorkerType
<1>1. ASSUME NEW m \in Messages, DeliverModem(m) \/ DeleteCopy(m)
      PROVE  ClaimInv' /\ RowInv'
  BY <1>1, NothingStored DEF DeliverModem, DeleteCopy, lineVars, Storing
<1>2. ASSUME NEW m \in Messages, NEW t \in Ims, DeliverIms(t, m)
      PROVE  ClaimInv' /\ RowInv'
  BY <1>2, NothingStored DEF DeliverIms, Transports, Ims, lineVars, Storing, Idle
<1>3. ASSUME NEW m \in Messages, NEW mode \in {"Live", "Reconcile"},
             ReadCopy(m, mode)
      PROVE  ClaimInv' /\ RowInv'
  BY <1>3, NothingStored DEF ReadCopy, Transports, lineVars, Storing, Idle
<1>4. ASSUME NEW t \in Transports, Check(t) PROVE ClaimInv' /\ RowInv'
  <2>1. CASE wasOff
    BY <1>4, <2>1 DEF Check, lineVars, ClaimInv, RowInv
  <2>2. CASE ~wasOff
    <3>1. Dedupes(t)
      BY <2>2 DEF DedupeOn, Dedupes
    <3>2. Finish(t) \/ Continue(t, "claim")
      BY <1>4, <3>1 DEF Check, Known, Discard
    <3>3. \A u \in Transports, m \in Messages : Storing(u, m)' => Storing(u, m)
      <4>1. CASE Finish(t)
        BY <1>0, <4>1, FinishType DEF Storing, Idle
      <4>2. CASE Continue(t, "claim")
        BY <1>0, <4>2, ContinueType DEF Storing
      <4> QED
        BY <3>2, <4>1, <4>2
    <3> QED
      BY <1>4, <3>3, NothingStored DEF Check, lineVars
  <2> QED
    BY <2>1, <2>2
<1>5. ASSUME NEW t \in Transports, Claim(t) PROVE ClaimInv' /\ RowInv'
  <2> DEFINE n == worker[t].msg
  <2>1. n \in Messages /\ wasOff' = wasOff /\ rows' = rows
    BY <1>5 DEF Claim, lineVars
  <2>2. CASE wasOff
    BY <2>1, <2>2 DEF ClaimInv, RowInv
  <2>3. CASE ~wasOff /\ UNCHANGED claimed
    <3>1. Dedupes(t)
      BY <2>3 DEF DedupeOn, Dedupes
    <3>2. \A u \in Transports, m \in Messages : Storing(u, m)' => Storing(u, m)
      BY <1>5, <2>1, <2>3, <3>1
         DEF Claim, Unclaimed, Discard, Finish, Continue, Storing, Idle
    <3> QED
      BY <2>1, <2>3, <3>2, NothingStored
  <2>4. CASE ~wasOff /\ n \notin claimed /\ claimed' = claimed \cup {n}
    <3>1. \A u \in Transports : ~Storing(u, n) /\ ~StoredBy(n, u)
      BY <2>1, <2>4 DEF ClaimInv, RowInv
    <3>2. \A u \in Transports, m \in Messages :
            Storing(u, m)' => Storing(u, m) \/ (u = t /\ m = n)
      BY <1>5 DEF Claim, Discard, Finish, Continue, Storing, Idle
    <3>3. RowInv'
      BY <2>1, <2>4 DEF RowInv, StoredBy
    <3>4. ClaimInv'
      BY <2>1, <2>4, <3>1, <3>2 DEF ClaimInv, StoredBy
    <3> QED
      BY <3>3, <3>4
  <2> QED
    BY <1>5, <2>2, <2>3, <2>4 DEF Claim, Unclaimed
<1>6. ASSUME NEW t \in Transports, Insert(t) PROVE ClaimInv' /\ RowInv'
  <2> DEFINE n == worker[t].msg
  <2>1. n \in Messages /\ Storing(t, n) /\ wasOff' = wasOff /\ claimed' = claimed
    BY <1>6 DEF Insert, lineVars, Storing
  <2>2. \A u \in Transports, m \in Messages :
          Storing(u, m)' => Storing(u, m) /\ u # t
    BY <1>6 DEF Insert, Discard, Finish, Storing, Idle
  <2>3. CASE wasOff
    BY <2>1, <2>3 DEF ClaimInv, RowInv
  <2>4. CASE ~wasOff /\ UNCHANGED rows
    BY <2>1, <2>2, <2>4, NothingStored
  <2>5. CASE ~wasOff /\ rows' = [rows EXCEPT ![n][t] = @ + 1]
    <3>1. /\ n \in claimed
          /\ \A u \in Transports : Storing(u, n) => u = t
          /\ \A u \in Transports : rows[n][u] = 0
      BY <2>1, <2>5 DEF ClaimInv, StoredBy
    <3>2. \A m \in Messages, u \in Transports :
            rows'[m][u] = IF m = n /\ u = t THEN 1 ELSE rows[m][u]
      BY <2>1, <2>5, <3>1
    <3>3. RowInv'
      BY <2>1, <2>5, <3>1, <3>2 DEF RowInv, StoredBy
    <3>4. ClaimInv'
      BY <2>1, <2>2, <2>5, <3>1, <3>2 DEF ClaimInv, StoredBy
    <3> QED
      BY <3>3, <3>4
  <2> QED
    BY <1>6, <2>3, <2>4, <2>5 DEF Insert
<1>7. CASE ToggleLine \/ ToggleIms \/ ToggleDedupe
  BY <1>7, NothingStored DEF ToggleLine, ToggleIms, ToggleDedupe, Switch, Storing
<1>8. CASE Restart
  BY <1>8, NothingStored DEF Restart, Storing, Idle
<1>9. CASE UNCHANGED vars
  BY <1>9, NothingStored DEF vars, lineVars, Storing
<1> QED
  BY <1>1, <1>2, <1>3, <1>4, <1>5, <1>6, <1>7, <1>8, <1>9 DEF Next, Work

\* The invariant holds in every state.
LEMMA IngestInvariant == Spec => []IInv
<1>1. IInv /\ [Next]_vars => IInv'
  BY TypeStep, DedupeStep, RowStep DEF IInv
<1> QED
  BY IngestInit, <1>1, PTL DEF Spec

-----------------------------------------------------------------------------
\* The variables of SmsIngest keep their types: in particular a transport that
\* is at work always has the message it works on.
THEOREM IngestTypeCorrect == Spec => [](TypeOK /\ HandlingInv)
<1>1. IInv => TypeOK /\ HandlingInv
  BY DEF IInv
<1> QED
  BY <1>1, IngestInvariant, PTL

\* A message is stored by one transport, once, as long as deduplication was
\* never off: the statement that records a fingerprint (db.rs:4897) lets one
\* transport through, and no failed statement, retransmission, change of the
\* line or restart lets a second one through.
THEOREM IngestStoredOnce == Spec => []StoredOnce
<1>1. IInv => StoredOnce
  BY DEF IInv, RowInv, StoredOnce
<1> QED
  BY <1>1, IngestInvariant, PTL
=============================================================================
