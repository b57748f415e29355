---------------------------- MODULE NativeSmsSend ----------------------------
(***************************************************************************)
(* Sending of concatenated SMS by a native (AT) modem and the correlation  *)
(* of status reports with what was sent (send_sms_persisted in             *)
(* direct_sms.rs, the submission ledger of native_sms_inbox.rs and the     *)
(* report branch of native_sms.rs).                                        *)
(*                                                                         *)
(* A report names the recipient, an eight-bit reference the modem chose    *)
(* and the time the service centre accepted the part.  All messages here   *)
(* go to one recipient from one card, where reports can be mistaken.       *)
(***************************************************************************)
EXTENDS Naturals, FiniteSets

CONSTANTS
  Sends,       \* messages
  Total,       \* parts of each message
  References,  \* the modem counts references modulo this (256)
  Early,       \* tolerance before a submission began (2 s)
  Late,        \* tolerance after a submission ended (120 s)
  Doubt,       \* how long an unsettled message makes reports doubtful (300 s)
  MaxPartTime, \* longest submission that is recorded (120 s)
  MaxTime,     \* bound on the clock
  MaxFaults,   \* bound on lost answers, failed statements and restarts
  NoSend

ASSUME SendAssumption ==
  /\ NoSend \notin Sends
  /\ Total \in [Sends -> Nat \ {0}]
  /\ References \in Nat \ {0}
  /\ Early \in Nat /\ Late \in Nat /\ Early <= Late
  /\ Doubt \in Nat /\ MaxPartTime \in Nat
  /\ MaxTime \in Nat /\ MaxFaults \in Nat

VARIABLES
  now,
  send,       \* native_sms_sends: state and started_at
  parts,      \* native_sms_submissions, in the order of the parts
  status,     \* status of the row in sms_messages
  task,       \* the shielded task that sends
  nextRef,    \* the modem's counter
  accepted,   \* parts the service centre accepted and has not reported
  reports,    \* reports pending in the inbox
  delivered,  \* history: parts the recipient got, and the network said so
  faults

ledgerVars == <<send, parts, status>>
vars == <<now, ledgerVars, task, nextRef, accepted, reports, delivered, faults>>

Idle == [pc |-> "idle", msg |-> NoSend, started |-> 0, ref |-> 0]
NoParts == [k \in {} |-> {}]

TypeOK ==
  /\ now \in 0 .. MaxTime
  /\ send \in [Sends -> [state : {"none", "sending", "sent", "unconfirmed",
                                  "delivered"}, started : 0 .. MaxTime]]
  /\ status \in [Sends -> {"none", "pending", "sent", "delivered"}]
  /\ task.pc \in {"idle", "submit", "wait", "remember", "finish"}
  /\ task.msg \in Sends \cup {NoSend}
  /\ nextRef \in 0 .. References - 1
  /\ faults \in 0 .. MaxFaults

Init ==
  /\ now = 0
  /\ send = [m \in Sends |-> [state |-> "none", started |-> 0]]
  /\ parts = [m \in Sends |-> NoParts]
  /\ status = [m \in Sends |-> "none"]
  /\ task = Idle
  /\ nextRef = 0
  /\ accepted = {} /\ reports = {} /\ delivered = {}
  /\ faults = 0

Fault == faults < MaxFaults /\ faults' = faults + 1

-----------------------------------------------------------------------------
(* send_sms_persisted, under the device's operation gate.                  *)

\* begin_native_sms_send: the number of parts is recorded before the first.
Begin(m) ==
  /\ task = Idle /\ send[m].state = "none"
  /\ send' = [send EXCEPT ![m] = [state |-> "sending", started |-> now]]
  /\ status' = [status EXCEPT ![m] = "pending"]
  /\ task' = [Idle EXCEPT !.pc = "submit", !.msg = m]
  /\ UNCHANGED <<now, parts, nextRef, accepted, reports, delivered, faults>>

AtLeast(t, s) == t + Early >= s

Recorded(m) == Cardinality(DOMAIN parts[m])

\* The parts sent so far are all of them, or the device is withdrawn.
EndLoop ==
  LET m == task.msg IN
  /\ task.pc = "submit"
  /\ \/ Recorded(m) = Total[m] /\ UNCHANGED faults
     \/ Fault
  /\ task' = [task EXCEPT !.pc = "finish"]
  /\ UNCHANGED <<now, ledgerVars, nextRef, accepted, reports, delivered>>

\* AT+CMGS of the next part.
StartPart ==
  /\ task.pc = "submit" /\ Recorded(task.msg) < Total[task.msg]
  /\ task' = [task EXCEPT !.pc = "wait", !.started = now]
  /\ UNCHANGED <<now, ledgerVars, nextRef, accepted, reports, delivered, faults>>

\* The service centre stamps the part when it accepts it, by a clock that may
\* differ by the tolerance.  The reference may be lost on the way back.
AcceptPart ==
  /\ task.pc = "wait"
  /\ \E t \in {u \in 0 .. now + Early : AtLeast(u, now)} :
       accepted' = accepted \cup
         {[msg |-> task.msg, part |-> Recorded(task.msg) + 1,
           ref |-> nextRef, scts |-> t]}
  /\ nextRef' = (nextRef + 1) % References
  /\ \/ /\ task' = [task EXCEPT !.pc = "remember", !.ref = nextRef]
        /\ UNCHANGED faults
     \/ Fault /\ task' = [task EXCEPT !.pc = "finish"]
  /\ UNCHANGED <<now, ledgerVars, reports, delivered>>

\* The part is refused, or nothing is heard of it and it was not accepted.
RefusePart ==
  /\ task.pc = "wait"
  /\ Fault
  /\ task' = [task EXCEPT !.pc = "finish"]
  /\ UNCHANGED <<now, ledgerVars, nextRef, accepted, reports, delivered>>

\* remember_native_sms_part; a part that took too long is not recorded.
Remember ==
  LET m == task.msg
      long == now - task.started > MaxPartTime
      k == Recorded(m) + 1
  IN
  /\ task.pc = "remember"
  /\ \/ /\ ~long
        /\ parts' = [parts EXCEPT ![m] =
             [j \in DOMAIN @ \cup {k} |->
                IF j = k THEN [ref |-> task.ref, started |-> task.started,
                               finished |-> now, report |-> "none"]
                ELSE @[j]]]
        /\ task' = [task EXCEPT !.pc = "submit"]
        /\ UNCHANGED faults
     \/ /\ \/ long /\ UNCHANGED faults
           \/ Fault
        /\ task' = [task EXCEPT !.pc = "finish"]
        /\ UNCHANGED parts
  /\ UNCHANGED <<now, send, status, nextRef, accepted, reports, delivered>>

\* finish_native_sms_send.  The card is asked for once more; another card, or
\* no answer, leaves the message unconfirmed.
Finish ==
  LET m == task.msg IN
  /\ task.pc = "finish"
  /\ \/ /\ Recorded(m) = Total[m]
        /\ send' = [send EXCEPT ![m].state = "sent"]
        /\ status' = [status EXCEPT ![m] = "sent"]
        /\ UNCHANGED faults
     \/ /\ \/ Recorded(m) # Total[m] /\ UNCHANGED faults
           \/ Fault
        /\ send' = [send EXCEPT ![m].state = "unconfirmed"]
        /\ UNCHANGED status
     \/ Fault /\ UNCHANGED <<send, status>>
  /\ task' = Idle
  /\ UNCHANGED <<now, parts, nextRef, accepted, reports, delivered>>

-----------------------------------------------------------------------------
(* Reports.                                                                *)

\* The network reports a part, for good or with a failure that another report
\* may follow; the report is kept in the inbox at once.
Report(a, ok) ==
  /\ a \in accepted
  /\ accepted' = IF ok THEN accepted \ {a} ELSE accepted
  /\ delivered' = IF ok THEN delivered \cup {<<a.msg, a.part>>} ELSE delivered
  /\ reports' = reports \cup {[ref |-> a.ref, scts |-> a.scts, ok |-> ok]}
  /\ UNCHANGED <<now, ledgerVars, task, nextRef, faults>>

\* Recorded parts a report may be about.
Candidates(r) ==
  {c \in UNION {{m} \X DOMAIN parts[m] : m \in Sends} :
     LET p == parts[c[1]][c[2]]
     IN  /\ p.ref = r.ref
         /\ AtLeast(r.scts, p.started)
         /\ r.scts <= p.finished + Late}

\* Mutant: messages whose fate is unknown are not looked at.
Uncertain_Ignored(r) == FALSE

\* A message that is not settled may have sent the part.
Uncertain(r) ==
  \E m \in Sends :
    /\ send[m].state \in {"sending", "unconfirmed"}
    /\ AtLeast(r.scts, send[m].started)
    /\ r.scts <= send[m].started + Doubt

\* The only candidate, when its message is settled.
Match(r, c) ==
  /\ ~Uncertain(r)
  /\ Candidates(r) = {c}
  /\ send[c[1]].state \in {"sent", "delivered"}

\* Mutant: a report nothing matches is settled.
Unmatched_Dropped(r) == reports' = reports \ {r}

\* A report can precede the commit of what it is about: it stays pending.
Unmatched(r) == UNCHANGED reports

Reported(p, r) ==
  IF p.report = "ok" THEN p
  ELSE [p EXCEPT !.report = IF r.ok THEN "ok" ELSE "failed"]

\* consume_native_report, one transaction.
Consume(r) ==
  /\ r \in reports
  /\ \/ /\ \E c \in Candidates(r) :
             /\ Match(r, c)
             /\ LET m == c[1]
                    after == [parts EXCEPT ![m][c[2]] = Reported(@, r)]
                    done == r.ok /\ \A k \in 1 .. Total[m] :
                                      /\ k \in DOMAIN after[m]
                                      /\ after[m][k].report = "ok"
                IN
                /\ parts' = after
                /\ send' = IF done THEN [send EXCEPT ![m].state = "delivered"]
                           ELSE send
                /\ status' = IF done /\ status[m] = "sent"
                             THEN [status EXCEPT ![m] = "delivered"] ELSE status
        /\ reports' = reports \ {r}
     \/ /\ \A c \in Candidates(r) : ~Match(r, c)
        /\ Unmatched(r) /\ UNCHANGED <<parts, send, status>>
  /\ UNCHANGED <<now, task, nextRef, accepted, delivered, faults>>

-----------------------------------------------------------------------------
Tick ==
  /\ now < MaxTime
  /\ now' = now + 1
  /\ UNCHANGED <<ledgerVars, task, nextRef, accepted, reports, delivered, faults>>

\* The modem starts counting again.
ModemRestart ==
  /\ Fault
  /\ task.pc # "wait"
  /\ nextRef' = 0
  /\ UNCHANGED <<now, ledgerVars, task, accepted, reports, delivered>>

\* The process ends; its message stays "sending".
Restart ==
  /\ Fault
  /\ task' = Idle
  /\ UNCHANGED <<now, ledgerVars, nextRef, accepted, reports, delivered>>

Sending == EndLoop \/ StartPart \/ AcceptPart \/ Remember \/ Finish

Next ==
  \/ \E m \in Sends : Begin(m)
  \/ Sending \/ RefusePart
  \/ \E a \in accepted, ok \in BOOLEAN : Report(a, ok)
  \/ \E r \in reports : Consume(r)
  \/ Tick \/ ModemRestart \/ Restart

Spec == Init /\ [][Next]_vars

\* A task runs on, and every scan of the inbox takes up each pending report.
FairSpec ==
  /\ Spec
  /\ WF_vars(Sending)
  /\ WF_vars(\E r \in reports : r.ok /\ Consume(r))

-----------------------------------------------------------------------------
(* Properties.                                                             *)

\* "Cancellation or a partial send must not turn its recorded prefix into
\* 'delivered'" (native_sms_inbox.rs:257), nor may another message's reports:
\* what is shown as delivered was, part by part, with references that come
\* round, parts that were accepted and never recorded, and restarts.
DeliveredIsTrue ==
  \A m \in Sends :
    status[m] = "delivered" =>
      \A k \in 1 .. Total[m] : <<m, k>> \in delivered

AllReported(m) == \A k \in 1 .. Total[m] : <<m, k>> \in delivered

\* No recorded part shares a reference with a part of the message.
Distinct(m) ==
  \A k \in DOMAIN parts[m], n \in Sends : \A j \in DOMAIN parts[n] :
    parts[n][j].ref = parts[m][k].ref => n = m /\ j = k

\* A message nobody works on any more whose fate is unknown.
Stranded(n) ==
  \/ send[n].state = "unconfirmed"
  \/ send[n].state = "sending" /\ task.msg # n

\* A message that was sent, all of whose parts were reported, is shown as
\* delivered in the end, also when a report comes in before its part is
\* recorded or its message is finished, or while another message is being sent
\* (native_sms_inbox.rs:434); only a message whose fate stays unknown, or a
\* reference used twice, can keep it from that.
ReportsCorrelate ==
  \A m \in Sends :
    status[m] = "sent" /\ AllReported(m) ~>
      \/ status[m] = "delivered"
      \/ ~Distinct(m)
      \/ \E n \in Sends : Stranded(n)
=============================================================================
