------------------------------ MODULE SmsIngest ------------------------------
(***************************************************************************)
(* How an incoming SMS reaches the table of messages when it may surface   *)
(* on several transports of one line: the ModemManager listener            *)
(* (sms_listener.rs), the VoWiFi listener and the follow-up of a VoWiFi    *)
(* submission (handlers.rs), the cellular IMS session (cellular_ims), and  *)
(* the fingerprint table they share (db.rs, dedup.rs).                     *)
(*                                                                         *)
(* A message stands for its fingerprint: originator, service centre time   *)
(* and text.  Each transport handles one message at a time; a statement of *)
(* the database is atomic and may fail.                                    *)
(***************************************************************************)
EXTENDS Naturals, FiniteSets

CONSTANTS
  Messages,
  ContentOf,      \* originator and text of each message, without the time
  FallbackScan,   \* sms_path.cs_fallback_receiver
  MaxDeliveries,  \* bound on the times the network submits one message
  MaxFaults,      \* bound on failed statements, failed deletes and restarts
  MaxSwitches,    \* bound on changes of the line by the operator and of IMS
  NoMessage

ASSUME IngestAssumption ==
  /\ NoMessage \notin Messages
  /\ FallbackScan \in BOOLEAN
  /\ MaxDeliveries \in Nat /\ MaxFaults \in Nat /\ MaxSwitches \in Nat

Ims == {"vowifi", "followup", "cellular"}
Transports == Ims \cup {"modem"}

VARIABLES
  copy,      \* the message on the modem: "none", "present" or "gone"
  worker,    \* what each transport is doing
  claimed,   \* sms_dedup
  rows,      \* rows of each message stored by each transport
  deletes,   \* modem copies whose deletion is scheduled
  enabled,   \* the line is enabled
  imsOwns,   \* an IMS leg owns reception
  dedupe,    \* sms_path.dedupe_enabled
  sessionDedupe, \* its value when the cellular session began
  wasOff,    \* history: dedupe was off for some transport
  deliveries, faults, switches

lineVars == <<enabled, imsOwns, dedupe, sessionDedupe, wasOff>>
vars == <<copy, worker, claimed, rows, deletes, lineVars, deliveries, faults,
          switches>>

Idle == [pc |-> "idle", msg |-> NoMessage, mode |-> "Live"]

TypeOK ==
  /\ copy \in [Messages -> {"none", "present", "gone"}]
  /\ worker \in [Transports -> [pc : {"idle", "check", "claim", "insert"},
                                msg : Messages \cup {NoMessage},
                                mode : {"Live", "Reconcile"}]]
  /\ claimed \subseteq Messages
  /\ rows \in [Messages -> [Transports -> Nat]]
  /\ deletes \subseteq Messages
  /\ enabled \in BOOLEAN /\ imsOwns \in BOOLEAN
  /\ dedupe \in BOOLEAN /\ sessionDedupe \in BOOLEAN /\ wasOff \in BOOLEAN
  /\ deliveries \in [Messages -> 0 .. MaxDeliveries]
  /\ faults \in 0 .. MaxFaults /\ switches \in 0 .. MaxSwitches

Init ==
  /\ copy = [m \in Messages |-> "none"]
  /\ worker = [t \in Transports |-> Idle]
  /\ claimed = {}
  /\ rows = [m \in Messages |-> [t \in Transports |-> 0]]
  /\ deletes = {}
  /\ enabled = TRUE
  /\ imsOwns \in BOOLEAN
  /\ dedupe \in BOOLEAN /\ sessionDedupe = dedupe /\ wasOff = ~dedupe
  /\ deliveries = [m \in Messages |-> 0]
  /\ faults = 0 /\ switches = 0

-----------------------------------------------------------------------------
(* Rows.                                                                   *)

StoredBy(m, t) == rows[m][t] > 0
Stored(m) == \E t \in Transports : StoredBy(m, t)

\* incoming_sms_exists_by_legacy_content: the text, from a row that another
\* transport than the modem's stored; the time is not compared.
LegacyContent(m) ==
  \E n \in Messages, t \in Ims :
    ContentOf[n] = ContentOf[m] /\ StoredBy(n, t)

\* The transport's own marker; a reconciling scan also compares the time, then
\* the text alone.
SeenBefore(t, m, mode) ==
  \/ StoredBy(m, t)
  \/ mode = "Reconcile" /\ (Stored(m) \/ LegacyContent(m))

Fault == faults < MaxFaults /\ faults' = faults + 1

-----------------------------------------------------------------------------
(* Arrival.                                                                *)

Submit(m) ==
  /\ deliveries[m] < MaxDeliveries
  /\ deliveries' = [deliveries EXCEPT ![m] = @ + 1]

\* An IMS leg has acknowledged the message before it looks at the database.
\* The cellular leg claims first, the VoWiFi ones look for their own row first.
DeliverIms(t, m) ==
  /\ t \in Ims /\ imsOwns /\ worker[t] = Idle
  /\ Submit(m)
  /\ worker' = [worker EXCEPT ![t] =
       [pc |-> IF t = "cellular" THEN "claim" ELSE "check", msg |-> m,
        mode |-> "Live"]]
  /\ UNCHANGED <<copy, claimed, rows, deletes, lineVars, faults, switches>>

DeliverModem(m) ==
  /\ copy[m] = "none"
  /\ Submit(m)
  /\ copy' = [copy EXCEPT ![m] = "present"]
  /\ UNCHANGED <<worker, claimed, rows, deletes, lineVars, faults, switches>>

\* modem_sms_scan_allowed.
ScanAllowed == enabled /\ (~imsOwns \/ FallbackScan)

\* process_sms_path on an Added signal or from a scan.
ReadCopy(m, mode) ==
  /\ worker["modem"] = Idle
  /\ copy[m] = "present"
  /\ ScanAllowed
  /\ worker' = [worker EXCEPT !["modem"] =
                  [pc |-> "check", msg |-> m, mode |-> mode]]
  /\ UNCHANGED <<copy, claimed, rows, deletes, lineVars, deliveries, faults,
                 switches>>

-----------------------------------------------------------------------------
(* A message is looked up, claimed and stored.                             *)

\* Whether the transport claims: the cellular session keeps the setting it
\* began with.
Dedupes(t) == IF t = "cellular" THEN sessionDedupe ELSE dedupe

Finish(t) == worker' = [worker EXCEPT ![t] = Idle]

Continue(t, pc) == worker' = [worker EXCEPT ![t].pc = pc]

\* Only the modem keeps a copy to be removed.
Discard(t, m) ==
  /\ Finish(t)
  /\ deletes' = IF t = "modem" THEN deletes \cup {m} ELSE deletes

\* Mutant: a message that was already stored stays on the modem.
Known_Kept(t, m) == Finish(t) /\ UNCHANGED deletes

\* The message is in the table already.
Known(t, m) == Discard(t, m)

\* The lookup.  The line may have been disabled while the copy was read.  A
\* lookup that fails ends the modem's attempt; VoWiFi takes it for "not found".
Check(t) ==
  LET m == worker[t].msg IN
  /\ worker[t].pc = "check"
  /\ \/ /\ t = "modem" /\ ~enabled
        /\ Finish(t) /\ UNCHANGED <<deletes, faults>>
     \/ /\ SeenBefore(t, m, worker[t].mode)
        /\ Known(t, m) /\ UNCHANGED faults
     \/ /\ ~SeenBefore(t, m, worker[t].mode)
        /\ Continue(t, IF Dedupes(t) THEN "claim" ELSE "insert")
        /\ UNCHANGED <<deletes, faults>>
     \/ /\ Fault
        /\ IF t = "modem" THEN Finish(t)
           ELSE Continue(t, IF Dedupes(t) THEN "claim" ELSE "insert")
        /\ UNCHANGED deletes
  /\ UNCHANGED <<copy, claimed, rows, lineVars, deliveries, switches>>

\* Mutant: the fingerprint is looked up by one statement and recorded by
\* another, so two transports may both find it free.
Unclaimed_Lookup(m) == ~Stored(m)

\* INSERT OR IGNORE changed a row.
Unclaimed(m) == m \notin claimed

\* claim_sms_dedup; the cellular leg then looks for its own row.
Claim(t) ==
  LET m == worker[t].msg IN
  /\ worker[t].pc = "claim"
  /\ \/ /\ Dedupes(t) /\ Unclaimed(m)
        /\ claimed' = claimed \cup {m}
        /\ IF t = "cellular" /\ StoredBy(m, t) THEN Finish(t)
           ELSE Continue(t, "insert")
        /\ UNCHANGED <<deletes, faults>>
     \/ /\ Dedupes(t) /\ ~Unclaimed(m)
        /\ Discard(t, m)
        /\ UNCHANGED <<claimed, faults>>
     \/ /\ ~Dedupes(t)
        /\ IF t = "cellular" /\ StoredBy(m, t) THEN Finish(t)
           ELSE Continue(t, "insert")
        /\ UNCHANGED <<claimed, deletes, faults>>
     \/ /\ Fault
        /\ Finish(t)
        /\ UNCHANGED <<claimed, deletes>>
  /\ UNCHANGED <<copy, rows, lineVars, deliveries, switches>>

\* insert_sms_at_with_transport; a claim is not taken back when it fails.
Insert(t) ==
  LET m == worker[t].msg IN
  /\ worker[t].pc = "insert"
  /\ \/ /\ rows' = [rows EXCEPT ![m][t] = @ + 1]
        /\ Discard(t, m)
        /\ UNCHANGED faults
     \/ /\ Fault
        /\ Finish(t)
        /\ UNCHANGED <<rows, deletes>>
  /\ UNCHANGED <<copy, claimed, lineVars, deliveries, switches>>

\* schedule_sms_delete after its delay: a disabled line keeps its messages.
DeleteCopy(m) ==
  /\ m \in deletes
  /\ deletes' = deletes \ {m}
  /\ \/ /\ enabled
        /\ copy' = [copy EXCEPT ![m] = "gone"]
        /\ UNCHANGED faults
     \/ /\ ~enabled \/ faults < MaxFaults
        /\ faults' = IF enabled THEN faults + 1 ELSE faults
        /\ UNCHANGED copy
  /\ UNCHANGED <<worker, claimed, rows, lineVars, deliveries, switches>>

-----------------------------------------------------------------------------
(* The line, and restarts.                                                 *)

Switch ==
  /\ switches < MaxSwitches
  /\ switches' = switches + 1
  /\ UNCHANGED <<copy, worker, claimed, rows, deletes, deliveries, faults>>

ToggleLine ==
  /\ Switch
  /\ enabled' = ~enabled
  /\ UNCHANGED <<imsOwns, dedupe, sessionDedupe, wasOff>>

ToggleIms ==
  /\ Switch
  /\ imsOwns' = ~imsOwns
  /\ sessionDedupe' = dedupe
  /\ UNCHANGED <<enabled, dedupe, wasOff>>

ToggleDedupe ==
  /\ Switch
  /\ dedupe' = ~dedupe
  /\ wasOff' = TRUE
  /\ UNCHANGED <<enabled, imsOwns, sessionDedupe>>

Restart ==
  /\ Fault
  /\ worker' = [t \in Transports |-> Idle]
  /\ deletes' = {}
  /\ sessionDedupe' = dedupe
  /\ UNCHANGED <<copy, claimed, rows, enabled, imsOwns, dedupe, wasOff,
                 deliveries, switches>>

-----------------------------------------------------------------------------
Work(t) == Check(t) \/ Claim(t) \/ Insert(t)

Next ==
  \/ \E m \in Messages :
       \/ DeliverModem(m) \/ DeleteCopy(m)
       \/ \E t \in Ims : DeliverIms(t, m)
       \/ \E mode \in {"Live", "Reconcile"} : ReadCopy(m, mode)
  \/ \E t \in Transports : Work(t)
  \/ ToggleLine \/ ToggleIms \/ ToggleDedupe
  \/ Restart

Spec == Init /\ [][Next]_vars

\* Handlers run on, scheduled deletions come due, and every poll reads each
\* message the modem lists.
FairSpec ==
  /\ Spec
  /\ \A t \in Transports : WF_vars(Work(t))
  /\ \A m \in Messages : /\ WF_vars(DeleteCopy(m))
                         /\ SF_vars(ReadCopy(m, "Reconcile"))

-----------------------------------------------------------------------------
(* Properties.                                                             *)

\* A message is stored by one transport, once, as long as deduplication is on:
\* whatever the order in which the transports, their retransmissions, failed
\* statements and restarts meet (db.rs:4897).
StoredOnce ==
  \A m \in Messages, t, u \in Transports :
    ~wasOff /\ StoredBy(m, t) /\ StoredBy(m, u) => t = u /\ rows[m][t] = 1

\* The modem's storage does not fill up: once the listener may scan for good,
\* each copy is removed, although a delete may fail or be skipped while the
\* line is disabled (sms_listener.rs:191).
CopiesLeave ==
  \A m \in Messages :
    <>[]ScanAllowed => (copy[m] = "present" ~> copy[m] = "gone")

\* "lands in `sms_messages` exactly once regardless of which transport won the
\* race" (db.rs:4884): what was removed from the modem is in the table.
RemovedIsStored == \A m \in Messages : copy[m] = "gone" => Stored(m)
=============================================================================
