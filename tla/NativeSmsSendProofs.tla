------------------------- MODULE NativeSmsSendProofs -------------------------
(***************************************************************************)
(* Proofs about NativeSmsSend, for any messages, parts and references, any *)
(* lost answers, failed statements, restarts of the modem and of the       *)
(* process.                                                                *)
(***************************************************************************)
EXTENDS NativeSmsSend, FiniteSetTheorems, TLAPS

PartType == [ref : Nat, started : Nat, finished : Nat,
             report : {"none", "ok", "failed"}]
TaskType == [pc : {"idle", "submit", "wait", "remember", "finish"},
             msg : Sends \cup {NoSend}, started : Nat, ref : Nat]
SendType == [state : {"none", "sending", "sent", "unconfirmed", "delivered"},
             started : Nat]

\* The parts of a message are recorded in order, from the first one on.
LedgerType ==
  /\ now \in Nat
  /\ send \in [Sends -> SendType]
  /\ status \in [Sends -> {"none", "pending", "sent", "delivered"}]
  /\ DOMAIN parts = Sends
  /\ \A m \in Sends :
       /\ Recorded(m) \in 0 .. Total[m]
       /\ parts[m] \in [1 .. Recorded(m) -> PartType]
  /\ task \in TaskType
  /\ nextRef \in Nat
  /\ accepted \subseteq [msg : Sends, part : Nat, ref : Nat, scts : Nat]
  /\ reports \subseteq [ref : Nat, scts : Nat, ok : BOOLEAN]

Busy == {"submit", "wait", "remember"}

\* The task works on a message that is being sent and has parts left.
TaskInv ==
  /\ \A m \in Sends : send[m].started <= now
  /\ task.pc # "idle" => task.msg \in Sends /\ send[task.msg].state = "sending"
  /\ task.pc \in {"wait", "remember"} =>
       /\ Recorded(task.msg) < Total[task.msg]
       /\ send[task.msg].started <= task.started
       /\ task.started <= now

\* The time at which the service centre took a part makes the message one
\* that a report of it finds in doubt, as long as it is not settled.
InDoubt(m, scts) ==
  /\ send[m].state \in {"sending", "unconfirmed"}
  /\ AtLeast(scts, send[m].started)
  /\ scts <= send[m].started + Doubt

\* A recorded part that a report with this reference and time may be about.
Fits(p, ref, scts) ==
  /\ p.ref = ref
  /\ AtLeast(scts, p.started)
  /\ scts <= p.finished + Late

\* What is known of an accepted part: it was recorded, or is about to be, or
\* never will be, and then its message is never settled.
Traced(m, k, ref, scts) ==
  \/ k \in DOMAIN parts[m] /\ Fits(parts[m][k], ref, scts)
  \/ /\ task.pc = "remember" /\ task.msg = m /\ k = Recorded(m) + 1
     /\ task.ref = ref /\ AtLeast(scts, task.started) /\ scts <= now + Early
     /\ InDoubt(m, scts)
  \/ /\ ~(task.pc \in Busy /\ task.msg = m)
     /\ Recorded(m) < Total[m]
     /\ InDoubt(m, scts)

AcceptedInv == \A a \in accepted : Traced(a.msg, a.part, a.ref, a.scts)

\* A report comes from an accepted part, and a success from a delivered one.
ReportInv ==
  \A r \in reports : \E m \in Sends, k \in Nat :
    /\ r.ok => <<m, k>> \in delivered
    /\ Traced(m, k, r.ref, r.scts)

\* The success recorded for a part is its own.
OwnReports ==
  \A m \in Sends : \A k \in DOMAIN parts[m] :
    parts[m][k].report = "ok" => <<m, k>> \in delivered

IInv ==
  LedgerType /\ TaskInv /\ AcceptedInv /\ ReportInv /\ OwnReports
    /\ DeliveredIsTrue

\* The service centre takes each part within the time in which the message
\* counts as doubtful.
AcceptedInTime ==
  \A a \in accepted : a.scts <= send[a.msg].started + Doubt

-----------------------------------------------------------------------------
\* A ledger with parts 1 .. n has n recorded parts.
LEMMA IntervalSize ==
  ASSUME NEW n \in Nat
  PROVE  IsFiniteSet(1 .. n) /\ Cardinality(1 .. n) = n
BY FS_Interval

\* The parts of a message are numbered from 1.
LEMMA RecordedParts ==
  ASSUME LedgerType, NEW m \in Sends
  PROVE  /\ Recorded(m) \in Nat /\ Total[m] \in Nat \ {0}
         /\ Recorded(m) <= Total[m]
         /\ DOMAIN parts[m] = 1 .. Recorded(m)
         /\ \A k \in DOMAIN parts[m] : parts[m][k] \in PartType
<1>1. Total[m] \in Nat \ {0}
  BY SendAssumption
<1>2. Recorded(m) \in 0 .. Total[m] /\ parts[m] \in [1 .. Recorded(m) -> PartType]
  BY DEF LedgerType
<1> QED BY <1>1, <1>2

\* Nothing is sent yet.
LEMMA InitInv == Init => IInv
<1> SUFFICES ASSUME Init PROVE IInv
  OBVIOUS
<1>1. \A m \in Sends : parts[m] = NoParts /\ Recorded(m) = 0
  <2>1. DOMAIN NoParts = {}
    BY DEF NoParts
  <2> QED BY <2>1, FS_EmptySet DEF Init, Recorded
<1>2. LedgerType
  <2>1. \A m \in Sends : parts[m] \in [1 .. Recorded(m) -> PartType]
    <3>1. 1 .. 0 = {}
      OBVIOUS
    <3>2. NoParts \in [{} -> PartType]
      BY DEF NoParts
    <3> QED BY <1>1, <3>1, <3>2
  <2>2. task \in TaskType /\ nextRef \in Nat
    BY DEF Init, Idle, TaskType
  <2>3. \A m \in Sends : Recorded(m) \in 0 .. Total[m]
    BY <1>1, SendAssumption
  <2> QED BY <2>1, <2>2, <2>3 DEF LedgerType, Init, SendType
<1>3. TaskInv /\ AcceptedInv /\ ReportInv /\ DeliveredIsTrue
  BY DEF TaskInv, AcceptedInv, ReportInv, DeliveredIsTrue, Init, Idle
<1>4. OwnReports
  BY <1>1 DEF OwnReports, NoParts
<1> QED BY <1>2, <1>3, <1>4 DEF IInv

\* A part that was traced still is when the ledger and the task stay and the
\* clock does not go back.
LEMMA TracedStays ==
  ASSUME LedgerType, TaskInv, NEW m \in Sends, NEW k \in Nat, NEW ref, NEW scts \in Nat,
         Traced(m, k, ref, scts), parts' = parts, send' = send, task' = task,
         now' \in Nat, now <= now'
  PROVE  Traced(m, k, ref, scts)'
<1>1. now \in Nat /\ Early \in Nat
  BY SendAssumption DEF LedgerType
<1> QED BY <1>1 DEF Traced, InDoubt, Fits, AtLeast, Recorded, Busy

\* The invariant moves on with what is traced, when nothing new is
\* accepted, reported or delivered.
LEMMA TraceStep ==
  ASSUME IInv, LedgerType', TaskInv',
         accepted' = accepted, reports' \subseteq reports, delivered' = delivered,
         OwnReports', DeliveredIsTrue',
         \A m \in Sends, k \in Nat, ref \in Nat, scts \in Nat :
           Traced(m, k, ref, scts) => Traced(m, k, ref, scts)'
  PROVE  IInv'
<1>1. AcceptedInv'
  <2> SUFFICES ASSUME NEW a \in accepted PROVE Traced(a.msg, a.part, a.ref, a.scts)'
    BY DEF AcceptedInv
  <2>1. a.msg \in Sends /\ a.part \in Nat /\ a.ref \in Nat /\ a.scts \in Nat
    BY DEF IInv, LedgerType
  <2>2. Traced(a.msg, a.part, a.ref, a.scts)
    BY DEF IInv, AcceptedInv
  <2> QED BY <2>1, <2>2
<1>2. ReportInv'
  <2> SUFFICES ASSUME NEW r \in reports'
               PROVE  \E m \in Sends, k \in Nat : (r.ok => <<m, k>> \in delivered)
                        /\ Traced(m, k, r.ref, r.scts)'
    BY DEF ReportInv
  <2>0. r \in reports
    OBVIOUS
  <2>1. PICK m \in Sends, k \in Nat : /\ r.ok => <<m, k>> \in delivered
                                     /\ Traced(m, k, r.ref, r.scts)
    BY <2>0 DEF IInv, ReportInv
  <2>2. r.scts \in Nat /\ r.ref \in Nat
    BY <2>0 DEF IInv, LedgerType
  <2> QED BY <2>1, <2>2
<1> QED BY <1>1, <1>2 DEF IInv

\* Steps that leave the ledger and the task alone.
LEMMA QuietStep ==
  ASSUME IInv, parts' = parts, send' = send, status' = status, task' = task,
         accepted' = accepted, reports' = reports, delivered' = delivered,
         nextRef' \in Nat, now' \in Nat, now <= now'
  PROVE  IInv'
<1>1. LedgerType'
  BY DEF IInv, LedgerType, Recorded
<1>2. TaskInv'
  <2>1. now \in Nat /\ task \in TaskType /\ \A m \in Sends : send[m] \in SendType
    BY DEF IInv, LedgerType
  <2>2. \A m \in Sends : send'[m].started <= now'
    BY <2>1 DEF IInv, TaskInv, SendType
  <2>3. task.started <= now => task.started <= now'
    BY <2>1 DEF TaskType
  <2> QED BY <2>2, <2>3 DEF IInv, TaskInv, Recorded
<1>3. \A m \in Sends, k \in Nat, ref \in Nat, scts \in Nat :
        Traced(m, k, ref, scts) => Traced(m, k, ref, scts)'
  BY TracedStays DEF IInv
<1>4. OwnReports' /\ DeliveredIsTrue'
  BY DEF IInv, OwnReports, DeliveredIsTrue
<1> QED BY <1>1, <1>2, <1>3, <1>4, TraceStep

-----------------------------------------------------------------------------
(* One lemma per action.                                                   *)

\* The sizes of unchanged records are unchanged.
LEMMA SameParts ==
  ASSUME parts' = parts
  PROVE  /\ \A m \in Sends : Recorded(m)' = Recorded(m)
         /\ OwnReports /\ delivered \subseteq delivered' => OwnReports'
BY DEF Recorded, OwnReports

\* begin_native_sms_send: the message was unknown, so nothing is traced to it
\* but what was recorded.
LEMMA BeginStep == ASSUME IInv, NEW m \in Sends, Begin(m) PROVE IInv'
<1> USE DEF Begin
<1>0. LedgerType /\ TaskInv
  BY DEF IInv
<1>1. /\ task = Idle /\ task' = [Idle EXCEPT !.pc = "submit", !.msg = m]
      /\ task'.pc = "submit" /\ task'.msg = m /\ task.pc = "idle"
  BY DEF Idle
<1>2. /\ send'[m] = [state |-> "sending", started |-> now]
      /\ \A n \in Sends \ {m} : send'[n] = send[n]
      /\ \A n \in Sends : send[n] \in SendType
  BY <1>0 DEF LedgerType
<1>3. LedgerType'
  <2>1. task' \in TaskType
    BY DEF TaskType, Idle
  <2>2. send' \in [Sends -> SendType]
    BY <1>0 DEF LedgerType, SendType
  <2> QED BY <1>0, <2>1, <2>2, SameParts DEF LedgerType
<1>4. TaskInv'
  BY <1>0, <1>1, <1>2, SameParts DEF TaskInv, LedgerType
<1>5. ASSUME NEW n \in Sends, NEW k \in Nat, NEW ref \in Nat, NEW scts \in Nat,
             Traced(n, k, ref, scts)
      PROVE  Traced(n, k, ref, scts)'
  <2>1. CASE n = m
    BY <1>1, <1>5, <2>1 DEF Traced, InDoubt
  <2>2. CASE n # m
    BY <1>1, <1>2, <1>5, <2>2, SameParts DEF Traced, InDoubt, Busy
  <2> QED BY <2>1, <2>2
<1>6. OwnReports' /\ DeliveredIsTrue'
  BY <1>0, SameParts DEF IInv, DeliveredIsTrue, LedgerType
<1> QED BY <1>3, <1>4, <1>5, <1>6, TraceStep

\* A step of the task that only moves it on, from no recorded acceptance.
LEMMA MoveStep ==
  ASSUME IInv, task' \in TaskType, task'.msg = task.msg,
         task.pc \in {"submit", "wait"}, task'.pc \in {"wait", "finish"},
         task'.pc = "wait" =>
           task'.started = now /\ Recorded(task.msg) < Total[task.msg],
         parts' = parts, send' = send, status' = status, nextRef' = nextRef,
         accepted' = accepted, reports' = reports, delivered' = delivered,
         now' = now
  PROVE  IInv'
<1>0. LedgerType /\ TaskInv
  BY DEF IInv
<1>1. LedgerType'
  BY <1>0, SameParts DEF LedgerType
<1>2. TaskInv'
  BY <1>0, SameParts DEF TaskInv, LedgerType
<1>3. \A m \in Sends, k \in Nat, ref \in Nat, scts \in Nat :
        Traced(m, k, ref, scts) => Traced(m, k, ref, scts)'
  BY SameParts DEF Traced, InDoubt, Busy
<1>4. OwnReports' /\ DeliveredIsTrue'
  BY SameParts DEF IInv, DeliveredIsTrue
<1> QED BY <1>1, <1>2, <1>3, <1>4, TraceStep

\* The end of the loop, the next AT+CMGS, and its refusal.
LEMMA LoopStep == ASSUME IInv, EndLoop \/ StartPart \/ RefusePart PROVE IInv'
<1>0. task \in TaskType /\ now \in Nat
  BY DEF IInv, LedgerType
<1>1. CASE EndLoop
  BY <1>0, <1>1, MoveStep DEF EndLoop, ledgerVars, TaskType
<1>2. CASE StartPart
  BY <1>0, <1>2, MoveStep DEF StartPart, ledgerVars, TaskType
<1>3. CASE RefusePart
  BY <1>0, <1>3, MoveStep DEF RefusePart, ledgerVars, TaskType
<1> QED BY <1>1, <1>2, <1>3

\* The service centre takes a part: if its reference comes back it is about to
\* be recorded, else its message will stay in doubt.
LEMMA AcceptStep ==
  ASSUME IInv, AcceptPart, AcceptedInTime' PROVE IInv'
<1> USE DEF AcceptPart, ledgerVars
<1>0. /\ LedgerType /\ TaskInv /\ References \in Nat \ {0}
      /\ Early \in Nat /\ Doubt \in Nat
  BY SendAssumption DEF IInv
<1>a. PICK m \in Sends : m = task.msg
  BY <1>0 DEF TaskInv
<1>b. PICK k \in Nat : k = Recorded(m) + 1
  BY <1>0, RecordedParts
<1>c. PICK q \in Nat : q = nextRef
  BY <1>0 DEF LedgerType
<1>1. /\ m \in Sends /\ send[m] \in SendType /\ send[m].state = "sending"
      /\ Recorded(m) < Total[m] /\ Recorded(m) \in Nat
      /\ send[m].started <= task.started /\ task.started <= now
      /\ now \in Nat /\ nextRef \in Nat /\ task \in TaskType
  BY <1>0, <1>a, RecordedParts DEF LedgerType, TaskInv
<1>2. PICK t \in 0 .. now + Early :
        /\ AtLeast(t, now)
        /\ accepted' = accepted \cup {[msg |-> m, part |-> k, ref |-> q, scts |-> t]}
  BY <1>a, <1>b, <1>c
<1> DEFINE a == [msg |-> m, part |-> k, ref |-> q, scts |-> t]
<1>3. /\ task'.msg = m /\ task'.started = task.started /\ task' \in TaskType
      /\ \/ task'.pc = "remember" /\ task'.ref = q
         \/ task'.pc = "finish"
  BY <1>1, <1>a, <1>c DEF TaskType
<1>4. LedgerType'
  <2>1. nextRef' \in Nat
    BY <1>0, <1>1
  <2>2. a \in [msg : Sends, part : Nat, ref : Nat, scts : Nat] /\ accepted' = accepted \cup {a}
    BY <1>0, <1>1, <1>2
  <2>3. accepted' \subseteq [msg : Sends, part : Nat, ref : Nat, scts : Nat]
    BY <1>0, <2>2 DEF LedgerType
  <2> QED BY <1>0, <1>3, <2>1, <2>3, SameParts DEF LedgerType
<1>5. TaskInv'
  BY <1>0, <1>1, <1>3, <1>a, SameParts DEF TaskInv
<1>6. ASSUME NEW n \in Sends, NEW j \in Nat, NEW ref \in Nat, NEW scts \in Nat,
             Traced(n, j, ref, scts)
      PROVE  Traced(n, j, ref, scts)'
  BY <1>3, <1>6, <1>a, SameParts DEF Traced, InDoubt, Busy
<1>7. Traced(m, k, q, t)'
  <2>1. t \in Nat /\ t <= now + Early /\ t + Early >= now
    BY <1>0, <1>1, <1>2 DEF AtLeast
  <2>2. a \in accepted' /\ a.scts = t /\ a.msg = m
    BY <1>2
  <2>3. t <= send[m].started + Doubt
    BY <2>2 DEF AcceptedInTime
  <2>4. InDoubt(m, t)' /\ t + Early >= task.started
    <3>1. send[m].started \in Nat /\ task.started \in Nat
      BY <1>1 DEF SendType, TaskType
    <3> QED BY <1>0, <1>1, <2>1, <2>3, <3>1 DEF InDoubt, AtLeast
  <2> QED BY <1>1, <1>3, <1>b, <2>1, <2>4, SameParts DEF Traced, AtLeast, Busy
<1>8. AcceptedInv'
  <2> SUFFICES ASSUME NEW b \in accepted' PROVE Traced(b.msg, b.part, b.ref, b.scts)'
    BY DEF AcceptedInv
  <2>1. CASE b = a
    BY <1>7, <2>1
  <2>2. CASE b \in accepted
    <3>1. b.msg \in Sends /\ b.part \in Nat /\ b.ref \in Nat /\ b.scts \in Nat
      BY <1>0, <2>2 DEF LedgerType
    <3> QED BY <1>6, <2>2, <3>1 DEF IInv, AcceptedInv
  <2> QED BY <1>2, <2>1, <2>2
<1>9. ReportInv'
  <2> SUFFICES ASSUME NEW r \in reports
               PROVE  \E n \in Sends, j \in Nat : (r.ok => <<n, j>> \in delivered)
                        /\ Traced(n, j, r.ref, r.scts)'
    BY DEF ReportInv
  <2>1. r.scts \in Nat /\ r.ref \in Nat
    BY <1>0 DEF LedgerType
  <2> QED BY <1>6, <2>1 DEF IInv, ReportInv
<1>10. OwnReports' /\ DeliveredIsTrue'
  BY SameParts DEF IInv, DeliveredIsTrue
<1> QED BY <1>4, <1>5, <1>8, <1>9, <1>10 DEF IInv

\* remember_native_sms_part: the part is recorded, or its message stays in
\* doubt.
LEMMA RememberStep == ASSUME IInv, Remember PROVE IInv'
<1>a. PICK m \in Sends : m = task.msg
  BY DEF IInv, TaskInv, Remember
<1>b. PICK k \in Nat : k = Recorded(m) + 1
  BY RecordedParts DEF IInv
<1> DEFINE p == [ref |-> task.ref, started |-> task.started,
                 finished |-> now, report |-> "none"]
<1>0. LedgerType /\ TaskInv /\ Early \in Nat /\ Late \in Nat /\ Early <= Late
  BY SendAssumption DEF IInv
<1>1. /\ task.pc = "remember" /\ task \in TaskType /\ now \in Nat
      /\ m \in Sends /\ Recorded(m) \in Nat /\ Recorded(m) < Total[m]
      /\ Total[m] \in Nat /\ DOMAIN parts[m] = 1 .. Recorded(m)
  BY <1>0, <1>a, RecordedParts DEF Remember, TaskInv, LedgerType
<1>2. /\ now' = now /\ send' = send /\ status' = status /\ nextRef' = nextRef
      /\ accepted' = accepted /\ reports' = reports /\ delivered' = delivered
  BY DEF Remember
<1>3. CASE parts' = parts /\ task' = [task EXCEPT !.pc = "finish"]
  <2>1. task' \in TaskType /\ task'.pc = "finish" /\ task'.msg = m
    BY <1>1, <1>a, <1>b, <1>3 DEF TaskType
  <2>2. LedgerType' /\ TaskInv'
    BY <1>0, <1>1, <1>a, <1>b, <1>2, <1>3, <2>1, SameParts DEF LedgerType, TaskInv
  <2>3. \A n \in Sends, j \in Nat, ref \in Nat, scts \in Nat :
          Traced(n, j, ref, scts) => Traced(n, j, ref, scts)'
    BY <1>1, <1>a, <1>b, <1>2, <1>3, <2>1, SameParts DEF Traced, InDoubt, Busy
  <2>4. OwnReports' /\ DeliveredIsTrue'
    BY <1>2, <1>3, SameParts DEF IInv, DeliveredIsTrue
  <2> QED BY <1>2, <2>2, <2>3, <2>4, TraceStep
<1>4. CASE /\ parts' = [parts EXCEPT ![m] =
                          [j \in DOMAIN @ \cup {k} |-> IF j = k THEN p ELSE @[j]]]
           /\ task' = [task EXCEPT !.pc = "submit"]
  <2>1. task' \in TaskType /\ task'.pc = "submit" /\ task'.msg = m
    BY <1>1, <1>a, <1>b, <1>4 DEF TaskType
  <2>2. p \in PartType
    BY <1>1, <1>a, <1>b DEF PartType, TaskType
  <2>3. /\ DOMAIN parts' = Sends
        /\ \A n \in Sends \ {m} : parts'[n] = parts[n]
        /\ parts'[m] = [j \in DOMAIN parts[m] \cup {k} |-> IF j = k THEN p ELSE parts[m][j]]
    BY <1>0, <1>1, <1>a, <1>b, <1>4 DEF LedgerType
  <2>4. /\ DOMAIN parts'[m] = 1 .. k /\ parts'[m][k] = p
        /\ \A j \in DOMAIN parts[m] : parts'[m][j] = parts[m][j] /\ j # k
    BY <1>1, <1>a, <1>b, <2>3
  <2>5. Recorded(m)' = k /\ k \in 0 .. Total[m]
    BY <1>1, <1>a, <1>b, <2>4, IntervalSize DEF Recorded
  <2>6. \A n \in Sends \ {m} : Recorded(n)' = Recorded(n)
    BY <2>3 DEF Recorded
  <2>7. parts'[m] \in [1 .. k -> PartType]
    BY <1>0, <1>1, <1>a, <1>b, <2>2, <2>3, <2>4, RecordedParts
  <2>8. LedgerType'
    <3>1. \A n \in Sends : /\ Recorded(n)' \in 0 .. Total[n]
                           /\ parts'[n] \in [1 .. Recorded(n)' -> PartType]
      BY <1>0, <2>3, <2>5, <2>6, <2>7 DEF LedgerType
    <3> QED BY <1>0, <1>2, <2>1, <2>3, <3>1 DEF LedgerType
  <2>9. TaskInv'
    BY <1>0, <1>1, <1>a, <1>b, <1>2, <2>1 DEF TaskInv
  <2>10. ASSUME NEW n \in Sends, NEW j \in Nat, NEW ref \in Nat, NEW scts \in Nat,
                Traced(n, j, ref, scts)
         PROVE  Traced(n, j, ref, scts)'
    <3>1. CASE j \in DOMAIN parts[n] /\ Fits(parts[n][j], ref, scts)
      <4>1. j \in DOMAIN parts'[n] /\ parts'[n][j] = parts[n][j]
        BY <1>1, <1>a, <1>b, <2>3, <2>4, <3>1
      <4> QED BY <3>1, <4>1 DEF Traced, Fits
    <3>2. CASE /\ n = m /\ j = k
               /\ task.ref = ref /\ AtLeast(scts, task.started) /\ scts <= now + Early
      <4>1. k \in DOMAIN parts'[m] /\ Fits(p, ref, scts)
        BY <1>0, <1>1, <1>a, <1>b, <2>4, <3>2 DEF Fits
      <4> QED BY <2>4, <3>2, <4>1 DEF Traced, Fits
    <3>3. CASE n # m /\ Recorded(n) < Total[n] /\ InDoubt(n, scts)
      BY <1>2, <2>1, <2>6, <3>3 DEF Traced, InDoubt
    <3> QED BY <1>1, <1>a, <1>b, <2>10, <3>1, <3>2, <3>3 DEF Traced, Busy
  <2>11. OwnReports'
    <3> SUFFICES ASSUME NEW n \in Sends, NEW j \in DOMAIN parts'[n],
                        parts'[n][j].report = "ok"
                 PROVE  <<n, j>> \in delivered
      BY <1>2 DEF OwnReports
    <3>1. j \in DOMAIN parts[n] /\ parts'[n][j] = parts[n][j]
      BY <2>3, <2>4
    <3> QED BY <3>1 DEF IInv, OwnReports
  <2>12. DeliveredIsTrue'
    BY <1>2 DEF IInv, DeliveredIsTrue
  <2> QED BY <1>2, <2>8, <2>9, <2>10, <2>11, <2>12, TraceStep
<1> QED BY <1>3, <1>4, <1>a, <1>b DEF Remember

\* finish_native_sms_send: a message with an accepted part that was not
\* recorded does not become one that was sent.
LEMMA FinishStep == ASSUME IInv, Finish PROVE IInv'
<1>0. LedgerType /\ TaskInv
  BY DEF IInv
<1>a. PICK m \in Sends : m = task.msg
  BY <1>0 DEF TaskInv, Finish
<1>1. /\ task.pc = "finish" /\ task'.pc = "idle" /\ task' \in TaskType
      /\ parts' = parts /\ accepted' = accepted /\ reports' = reports
      /\ delivered' = delivered /\ now' = now /\ nextRef' = nextRef
  BY DEF Finish, Idle, TaskType
<1>2. /\ \A n \in Sends \ {m} : send'[n] = send[n] /\ status'[n] = status[n]
      /\ send' \in [Sends -> SendType]
      /\ status' \in [Sends -> {"none", "pending", "sent", "delivered"}]
      /\ \A n \in Sends : send'[n].started = send[n].started
      /\ send[m].state = "sending" /\ status'[m] \in {status[m], "sent"}
      /\ \/ send'[m].state \in {"sending", "unconfirmed"}
         \/ Recorded(m) = Total[m]
  <2>1. /\ send \in [Sends -> SendType] /\ send[m].state = "sending"
        /\ status \in [Sends -> {"none", "pending", "sent", "delivered"}]
    BY <1>0, <1>1, <1>a DEF LedgerType, TaskInv
  <2>2. CASE /\ Recorded(m) = Total[m]
             /\ send' = [send EXCEPT ![m].state = "sent"]
             /\ status' = [status EXCEPT ![m] = "sent"]
    BY <2>1, <2>2 DEF SendType
  <2>3. CASE send' = [send EXCEPT ![m].state = "unconfirmed"] /\ status' = status
    BY <2>1, <2>3 DEF SendType
  <2>4. CASE send' = send /\ status' = status
    BY <2>1, <2>4
  <2> QED BY <1>a, <2>2, <2>3, <2>4 DEF Finish
<1>3. LedgerType'
  BY <1>0, <1>1, <1>2, SameParts DEF LedgerType
<1>4. TaskInv'
  BY <1>0, <1>1, <1>2 DEF TaskInv
<1>5. ASSUME NEW n \in Sends, NEW k \in Nat, NEW ref \in Nat, NEW scts \in Nat,
             Traced(n, k, ref, scts)
      PROVE  Traced(n, k, ref, scts)'
  <2>1. Recorded(m) \in Nat /\ Total[m] \in Nat
    BY <1>0, RecordedParts
  <2>2. CASE n = m
    BY <1>1, <1>2, <1>5, <2>1, <2>2, SameParts DEF Traced, InDoubt, Busy
  <2>3. CASE n # m
    BY <1>1, <1>2, <1>5, <2>3, SameParts DEF Traced, InDoubt, Busy
  <2> QED BY <2>2, <2>3
<1>6. OwnReports' /\ DeliveredIsTrue'
  BY <1>1, <1>2, SameParts DEF IInv, DeliveredIsTrue
<1> QED BY <1>1, <1>3, <1>4, <1>5, <1>6, TraceStep

\* The end of the process: a part that was about to be recorded never will be.
LEMMA RestartStep == ASSUME IInv, Restart PROVE IInv'
<1>0. LedgerType /\ TaskInv
  BY DEF IInv
<1>1. /\ task'.pc = "idle" /\ task' \in TaskType /\ send' = send /\ status' = status
      /\ parts' = parts /\ accepted' = accepted /\ reports' = reports
      /\ delivered' = delivered /\ now' = now /\ nextRef' = nextRef
  BY DEF Restart, ledgerVars, Idle, TaskType
<1>2. LedgerType' /\ TaskInv'
  BY <1>0, <1>1, SameParts DEF LedgerType, TaskInv
<1>3. \A m \in Sends, k \in Nat, ref \in Nat, scts \in Nat :
        Traced(m, k, ref, scts) => Traced(m, k, ref, scts)'
  BY <1>0, <1>1, SameParts DEF Traced, InDoubt, Busy, TaskInv
<1>4. OwnReports' /\ DeliveredIsTrue'
  BY <1>1, SameParts DEF IInv, DeliveredIsTrue
<1> QED BY <1>1, <1>2, <1>3, <1>4, TraceStep

\* The network reports an accepted part: the report is traced to it.
LEMMA ReportStep ==
  ASSUME IInv, NEW b \in accepted, NEW ok \in BOOLEAN, Report(b, ok) PROVE IInv'
<1> USE DEF Report, ledgerVars
<1> DEFINE new == [ref |-> b.ref, scts |-> b.scts, ok |-> ok]
<1>0. /\ LedgerType /\ TaskInv
      /\ b.msg \in Sends /\ b.part \in Nat /\ b.ref \in Nat /\ b.scts \in Nat
  BY DEF IInv, LedgerType
<1>1. LedgerType'
  <2>1. new \in [ref : Nat, scts : Nat, ok : BOOLEAN] /\ reports' = reports \cup {new}
    BY <1>0
  <2>2. accepted' \subseteq accepted
    OBVIOUS
  <2>3. /\ reports' \subseteq [ref : Nat, scts : Nat, ok : BOOLEAN]
        /\ accepted' \subseteq [msg : Sends, part : Nat, ref : Nat, scts : Nat]
    BY <1>0, <2>1, <2>2 DEF LedgerType
  <2> QED BY <1>0, <2>3, SameParts DEF LedgerType
<1>2. TaskInv'
  BY <1>0, SameParts DEF TaskInv
<1>3. \A n, k, ref, scts : Traced(n, k, ref, scts) => Traced(n, k, ref, scts)'
  BY DEF Traced, InDoubt, Fits, AtLeast, Recorded
<1>4. AcceptedInv'
  BY <1>3 DEF IInv, AcceptedInv
<1>5. delivered \subseteq delivered' /\ (ok => <<b.msg, b.part>> \in delivered')
  OBVIOUS
<1>6. ReportInv'
  <2> SUFFICES ASSUME NEW r \in reports'
               PROVE  \E n \in Sends, k \in Nat : (r.ok => <<n, k>> \in delivered')
                        /\ Traced(n, k, r.ref, r.scts)'
    BY DEF ReportInv
  <2>1. CASE r = new
    <3>1. Traced(b.msg, b.part, r.ref, r.scts)
      BY <2>1 DEF IInv, AcceptedInv
    <3>2. Traced(b.msg, b.part, r.ref, r.scts)'
      BY <1>3, <3>1
    <3>3. r.ok => <<b.msg, b.part>> \in delivered'
      BY <1>5, <2>1
    <3> QED BY <1>0, <3>2, <3>3
  <2>2. CASE r \in reports
    BY <1>3, <1>5, <2>2 DEF IInv, ReportInv
  <2> QED BY <2>1, <2>2
<1>7. OwnReports' /\ DeliveredIsTrue'
  BY <1>5, SameParts DEF IInv, DeliveredIsTrue
<1> QED BY <1>1, <1>2, <1>4, <1>6, <1>7 DEF IInv

\* The only candidate of a report that is not in doubt is the part it is about.
LEMMA MatchIsTrue ==
  ASSUME IInv, NEW r \in reports, NEW c \in Candidates(r), Match(r, c)
  PROVE  /\ c[1] \in Sends /\ c[2] \in DOMAIN parts[c[1]]
         /\ send[c[1]].state \in {"sent", "delivered"}
         /\ r.ok => <<c[1], c[2]>> \in delivered
<1>1. PICK m \in Sends, k \in Nat : /\ r.ok => <<m, k>> \in delivered
                                   /\ Traced(m, k, r.ref, r.scts)
  BY DEF IInv, ReportInv
<1>2. ~InDoubt(m, r.scts)
  BY DEF Match, Uncertain, InDoubt
<1>3. k \in DOMAIN parts[m] /\ Fits(parts[m][k], r.ref, r.scts)
  BY <1>1, <1>2 DEF Traced
<1>4. <<m, k>> \in Candidates(r)
  <2>1. <<m, k>> \in {m} \X DOMAIN parts[m]
    BY <1>3
  <2>2. <<m, k>> \in UNION {{n} \X DOMAIN parts[n] : n \in Sends}
    BY <2>1
  <2> QED BY <1>3, <2>2 DEF Candidates, Fits
<1>5. c = <<m, k>>
  BY <1>4 DEF Match
<1> QED BY <1>1, <1>3, <1>5 DEF Match

\* consume_native_report: the success that is recorded is that of its own part,
\* and a message is delivered when all its parts are.
LEMMA ConsumeStep == ASSUME IInv, NEW r \in reports, Consume(r) PROVE IInv'
<1>0. LedgerType /\ TaskInv
  BY DEF IInv
<1>1. /\ task' = task /\ accepted' = accepted /\ delivered' = delivered
      /\ now' = now /\ nextRef' = nextRef
  BY DEF Consume
<1>2. CASE UNCHANGED <<reports, parts, send, status>>
  BY <1>0, <1>1, <1>2, QuietStep DEF LedgerType
<1>3. ASSUME NEW c \in Candidates(r), Match(r, c),
             LET m == c[1]
                 after == [parts EXCEPT ![m][c[2]] = Reported(@, r)]
                 done == r.ok /\ \A k \in 1 .. Total[m] :
                                   /\ k \in DOMAIN after[m]
                                   /\ after[m][k].report = "ok"
             IN  /\ parts' = after
                 /\ send' = IF done THEN [send EXCEPT ![m].state = "delivered"]
                            ELSE send
                 /\ status' = IF done /\ status[m] = "sent"
                              THEN [status EXCEPT ![m] = "delivered"] ELSE status,
             reports' \subseteq reports
      PROVE  IInv'
  <2>0. /\ c[1] \in Sends /\ c[2] \in DOMAIN parts[c[1]]
        /\ send[c[1]].state \in {"sent", "delivered"}
        /\ r.ok => <<c[1], c[2]>> \in delivered
    BY <1>3, MatchIsTrue
  <2>1. PICK m \in Sends : \E k \in DOMAIN parts[m] :
          /\ c[1] = m /\ c[2] = k /\ send[m].state \in {"sent", "delivered"}
          /\ r.ok => <<m, k>> \in delivered
    BY <2>0
  <2>a. PICK k \in DOMAIN parts[m] :
          /\ c[1] = m /\ c[2] = k /\ send[m].state \in {"sent", "delivered"}
          /\ r.ok => <<m, k>> \in delivered
    BY <2>1
  <2>2. DOMAIN parts = Sends /\ parts' = [parts EXCEPT ![m][k] = Reported(@, r)]
    BY <1>0, <1>3, <2>a DEF LedgerType
  <2>3. /\ DOMAIN parts' = Sends
        /\ \A n \in Sends \ {m} : parts'[n] = parts[n]
        /\ parts'[m] = [parts[m] EXCEPT ![k] = Reported(parts[m][k], r)]
    BY <2>2
  <2>4. \A n \in Sends : DOMAIN parts'[n] = DOMAIN parts[n] /\ Recorded(n)' = Recorded(n)
    BY <2>3 DEF Recorded
  <2>5. /\ parts[m][k] \in PartType /\ Reported(parts[m][k], r) \in PartType
        /\ Reported(parts[m][k], r).ref = parts[m][k].ref
        /\ Reported(parts[m][k], r).started = parts[m][k].started
        /\ Reported(parts[m][k], r).finished = parts[m][k].finished
        /\ Reported(parts[m][k], r).report = "ok" => parts[m][k].report = "ok" \/ r.ok
    BY <1>0, RecordedParts DEF Reported, PartType
  <2>6. \A n \in Sends, j \in Nat : j \in DOMAIN parts[n] =>
          /\ parts'[n][j].ref = parts[n][j].ref
          /\ parts'[n][j].started = parts[n][j].started
          /\ parts'[n][j].finished = parts[n][j].finished
    BY <2>3, <2>5
  <2>7. /\ send' \in [Sends -> SendType]
        /\ status' \in [Sends -> {"none", "pending", "sent", "delivered"}]
        /\ \A n \in Sends \ {m} : send'[n] = send[n] /\ status'[n] = status[n]
        /\ \A n \in Sends : send'[n].started = send[n].started
    <3>1. /\ send \in [Sends -> SendType]
          /\ status \in [Sends -> {"none", "pending", "sent", "delivered"}]
      BY <1>0 DEF LedgerType
    <3>2. send' \in {send, [send EXCEPT ![m].state = "delivered"]}
      BY <1>3, <2>1, <2>a
    <3>3. status' \in {status, [status EXCEPT ![m] = "delivered"]}
      BY <1>3, <2>1, <2>a
    <3> QED BY <3>1, <3>2, <3>3 DEF SendType
  <2>8. LedgerType'
    <3>1. \A n \in Sends : /\ Recorded(n)' \in 0 .. Total[n]
                           /\ parts'[n] \in [1 .. Recorded(n)' -> PartType]
      <4>1. \A n \in Sends : /\ Recorded(n) \in 0 .. Total[n]
                             /\ parts[n] \in [1 .. Recorded(n) -> PartType]
        BY <1>0 DEF LedgerType
      <4>2. parts'[m] \in [1 .. Recorded(m) -> PartType]
        BY <2>3, <2>5, <4>1
      <4> QED BY <2>3, <2>4, <4>1, <4>2
    <3> QED BY <1>0, <1>1, <1>3, <2>3, <2>7, <3>1 DEF LedgerType
  <2>9. TaskInv'
    BY <1>0, <1>1, <2>1, <2>a, <2>4, <2>7 DEF TaskInv
  <2>10. ASSUME NEW n \in Sends, NEW j \in Nat, NEW ref \in Nat, NEW scts \in Nat,
                Traced(n, j, ref, scts)
         PROVE  Traced(n, j, ref, scts)'
    <3>1. CASE j \in DOMAIN parts[n] /\ Fits(parts[n][j], ref, scts)
      BY <2>4, <2>6, <3>1 DEF Traced, Fits, AtLeast
    <3>2. InDoubt(n, scts) => n # m
      BY <2>1, <2>a DEF InDoubt
    <3>3. InDoubt(n, scts) => InDoubt(n, scts)'
      BY <2>7, <3>2 DEF InDoubt
    <3> QED BY <1>1, <2>4, <2>10, <3>1, <3>3 DEF Traced, AtLeast
  <2>11. OwnReports'
    <3> SUFFICES ASSUME NEW n \in Sends, NEW j \in DOMAIN parts'[n],
                        parts'[n][j].report = "ok"
                 PROVE  <<n, j>> \in delivered
      BY <1>1 DEF OwnReports
    <3>1. CASE n = m /\ j = k
      BY <2>1, <2>a, <2>3, <2>5, <3>1 DEF IInv, OwnReports
    <3>2. CASE ~(n = m /\ j = k)
      BY <2>3, <3>2 DEF IInv, OwnReports
    <3> QED BY <3>1, <3>2
  <2>12. DeliveredIsTrue'
    <3> SUFFICES ASSUME NEW n \in Sends, status'[n] = "delivered",
                        NEW j \in 1 .. Total[n]
                 PROVE  <<n, j>> \in delivered
      BY <1>1 DEF DeliveredIsTrue
    <3>1. CASE status[n] = "delivered"
      BY <3>1 DEF IInv, DeliveredIsTrue
    <3>2. CASE status[n] # "delivered"
      <4>1. n = m
        BY <2>7, <3>2
      <4>2. j \in DOMAIN parts'[m] /\ parts'[m][j].report = "ok"
        BY <1>3, <2>1, <2>a, <3>2, <4>1
      <4> QED BY <1>1, <2>11, <4>1, <4>2 DEF OwnReports
    <3> QED BY <3>1, <3>2
  <2> QED BY <1>1, <1>3, <2>8, <2>9, <2>10, <2>11, <2>12, TraceStep
<1> QED BY <1>2, <1>3 DEF Consume, Unmatched

-----------------------------------------------------------------------------
\* The invariant holds as long as no acceptance comes too late.
LEMMA SendStep ==
  ASSUME IInv, [Next]_vars, AcceptedInTime'
  PROVE  IInv'
<1>0. now \in Nat /\ nextRef \in Nat
  BY DEF IInv, LedgerType
<1>1. CASE UNCHANGED vars
  BY <1>0, <1>1, QuietStep DEF vars, ledgerVars
<1>2. CASE Tick \/ ModemRestart
  BY <1>0, <1>2, QuietStep DEF Tick, ModemRestart, ledgerVars
<1> QED
  BY <1>1, <1>2, BeginStep, LoopStep, AcceptStep, RememberStep, FinishStep,
     RestartStep, ReportStep, ConsumeStep DEF Next, Sending

\* A message shown as delivered was delivered, part by part, for any messages,
\* numbers of parts, references and faults, as long as the service centre takes
\* every part within the 300 s in which an unsettled message makes a report
\* doubtful (native_sms_inbox.rs:411).
THEOREM SendDeliveredIsTrue == Spec /\ []AcceptedInTime => []DeliveredIsTrue
<1>1. IInv /\ AcceptedInTime' /\ [Next]_vars => IInv'
  BY SendStep
<1>2. IInv => DeliveredIsTrue
  BY DEF IInv
<1> QED BY <1>1, <1>2, InitInv, PTL DEF Spec
=============================================================================
