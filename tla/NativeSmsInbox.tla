--------------------------- MODULE NativeSmsInbox ---------------------------
(***************************************************************************)
(* Reception of SMS by a native (AT) modem: PDUs pushed to the host, which *)
(* the host must acknowledge with a CNMA that names no message             *)
(* (at_urc.rs, at_session.rs), PDUs stored on the card (direct_sms.rs),    *)
(* the durable inbox that both go through (native_sms_inbox.rs) and its    *)
(* promotion to messages (native_sms.rs, sms_listener.rs).                 *)
(*                                                                         *)
(* Each AT command and each statement of the database is a step.  The card *)
(* may be exchanged between any two of them.                               *)
(***************************************************************************)
EXTENDS Naturals, Sequences, FiniteSets

CONSTANTS
  Pdus, Messages,
  MessageOf, PartOf, TotalOf, \* the message, the sequence number, the parts
  CardOf,         \* the card each PDU is addressed to
  Cards, Slots,   \* cards, and the places of a card's storage
  Services,       \* +CSMS of the modems: "1" (CNMA required) or "0"
  Dedupe,         \* sms_path.dedupe_enabled
  QueueLimit,     \* PDUs the router keeps
  InboxLimit,     \* MAX_PENDING_PER_LINE
  MaxDeliveries,  \* bound on the times the network delivers one PDU
  MaxFaults,      \* bound on errors, resets, restarts and suspensions
  MaxSwaps,       \* bound on changes of the card
  NoCard, NoPdu

ASSUME InboxAssumption ==
  /\ NoCard \notin Cards /\ NoPdu \notin Pdus /\ "cpin" \notin Pdus
  /\ CardOf \in [Pdus -> Cards]
  /\ MessageOf \in [Pdus -> Messages]
  /\ PartOf \in [Pdus -> Nat] /\ TotalOf \in [Messages -> Nat \ {0}]
  /\ Services \subseteq {"1", "0"}
  /\ Dedupe \in BOOLEAN
  /\ QueueLimit \in Nat /\ InboxLimit \in Nat /\ MaxDeliveries \in Nat
  /\ MaxFaults \in Nat /\ MaxSwaps \in Nat

VARIABLES
  service,    \* +CSMS of the modem
  card,       \* the card in the modem
  storage,    \* what each card stores
  awaiting,   \* the PDU whose CNMA the modem waits for
  wire,       \* lines the host has not read
  router,     \* UrcRouter: queue, sim_key, ack_blocked and next_token
  cap,        \* the capture under way
  rows,       \* native_sms_inbox, by card and PDU
  received,   \* native_sms_received
  shown,      \* rows of sms_messages for each message
  released,   \* history: PDUs acknowledged by CNMA or deleted from a card
  admitted,   \* the line may receive through the modem
  deliveries, faults, swaps

modemVars == <<service, card, storage, awaiting>>
inboxVars == <<rows, received, shown>>
boundVars == <<deliveries, swaps>>
vars == <<modemVars, wire, router, cap, inboxVars, released, admitted,
          boundVars, faults>>

Fresh == [queue |-> <<>>, key |-> NoCard, blocked |-> FALSE, next |-> 1]
Idle == [pc |-> "idle", key |-> NoCard, batch |-> <<>>, list |-> {},
         committed |-> {}, service |-> "unknown"]

Init ==
  /\ service \in Services
  /\ card \in Cards
  /\ storage = [c \in Cards |-> [s \in Slots |-> NoPdu]]
  /\ awaiting = NoPdu
  /\ wire = <<>>
  /\ router = Fresh
  /\ cap = Idle
  /\ rows = [c \in Cards |-> [p \in Pdus |-> "absent"]]
  /\ received = {}
  /\ shown = [m \in Messages |-> 0]
  /\ released = {}
  /\ admitted = TRUE
  /\ deliveries = [p \in Pdus |-> 0]
  /\ faults = 0 /\ swaps = 0

Fault == faults < MaxFaults /\ faults' = faults + 1

-----------------------------------------------------------------------------
(* The modem and the network.                                              *)

Deliver(p) ==
  /\ CardOf[p] = card /\ p \notin released
  /\ deliveries[p] < MaxDeliveries
  /\ deliveries' = [deliveries EXCEPT ![p] = @ + 1]
  /\ UNCHANGED <<service, card, router, cap, inboxVars, released, admitted,
                 faults, swaps>>

\* +CMT.  The modem has one delivery outstanding.  Registering a new card takes
\* longer than reading the line that announces it.
DeliverDirect(p) ==
  /\ Deliver(p)
  /\ awaiting = NoPdu
  /\ \A i \in 1 .. Len(wire) : wire[i] # "cpin"
  /\ awaiting' = IF service = "0" THEN NoPdu ELSE p
  /\ wire' = Append(wire, p)
  /\ UNCHANGED storage

\* +CMTI.
DeliverStored(p, s) ==
  /\ Deliver(p)
  /\ storage[card][s] = NoPdu
  /\ storage' = [storage EXCEPT ![card][s] = p]
  /\ UNCHANGED <<awaiting, wire>>

\* The modem gives a delivery up, later than the ten seconds during which the
\* router holds it for fresh.
GiveUp ==
  /\ awaiting # NoPdu
  /\ \A i \in 1 .. Len(wire) : wire[i] # awaiting
  /\ \A i \in 1 .. Len(router.queue) :
       router.queue[i].pdu = awaiting => ~router.queue[i].fresh
  /\ awaiting' = NoPdu
  /\ UNCHANGED <<service, card, storage, wire, router, cap, inboxVars, released,
                 admitted, boundVars, faults>>

\* The modem announces another card with +CPIN.
Swap(c) ==
  /\ swaps < MaxSwaps /\ c # card
  /\ swaps' = swaps + 1
  /\ card' = c
  /\ awaiting' = NoPdu
  /\ wire' = Append(wire, "cpin")
  /\ UNCHANGED <<service, storage, router, cap, inboxVars, released, admitted,
                 deliveries, faults>>

-----------------------------------------------------------------------------
(* The router.                                                             *)

\* Mutant: another card leaves the router as it is.
Cleared_Nothing(r) == r

\* clear_private_data.
Cleared(r) == [r EXCEPT !.queue = <<>>, !.key = NoCard, !.blocked = FALSE]

\* pump_events reads a line.
Route ==
  LET p == Head(wire) IN
  /\ wire # <<>>
  /\ wire' = Tail(wire)
  /\ \/ /\ p = "cpin"
        /\ router' = Cleared(router)
     \/ /\ p # "cpin" /\ router.key # NoCard /\ Len(router.queue) < QueueLimit
        /\ router' = [router EXCEPT
             !.queue = Append(@, [token |-> router.next, pdu |-> p,
                                  key |-> router.key, live |-> TRUE,
                                  fresh |-> TRUE]),
             !.next = @ + 1]
     \/ /\ p # "cpin"
        /\ router.key = NoCard \/ Len(router.queue) >= QueueLimit
        /\ router' = [router EXCEPT !.blocked = TRUE]
  /\ UNCHANGED <<modemVars, cap, inboxVars, released, admitted, boundVars,
                 faults>>

\* Ten seconds pass for the PDU at a place of the queue.
Grow(i) ==
  /\ i \in 1 .. Len(router.queue) /\ router.queue[i].fresh
  /\ router' = [router EXCEPT !.queue[i].fresh = FALSE]
  /\ UNCHANGED <<modemVars, wire, cap, inboxVars, released, admitted, boundVars,
                 faults>>

NoLongerLive(q) == [i \in 1 .. Len(q) |-> [q[i] EXCEPT !.live = FALSE]]

\* transport_reset: the port is opened again, unread lines are lost, noticed
\* if the router was in the middle of a frame.
Reset ==
  /\ Fault
  /\ wire' = <<>>
  /\ \E b \in BOOLEAN :
       router' = [router EXCEPT !.queue = NoLongerLive(@),
                                !.blocked = @ \/ (b /\ wire # <<>>)]
  /\ UNCHANGED <<modemVars, cap, inboxVars, released, admitted, boundVars>>

-----------------------------------------------------------------------------
(* capture_sms: one at a time, under the device's operation gate.          *)

At(pc) == cap.pc = pc
Goto(pc) == cap' = [cap EXCEPT !.pc = pc]

\* A command fails, or a scope is found to have changed: nothing is promoted.
Abandon == cap' = Idle

\* The answer to a command comes after the lines sent before it, which the
\* session routes on the way.
Answered == wire = <<>>

\* AT+CIMI.
ReadSim ==
  /\ At("idle") /\ admitted /\ Answered
  /\ cap' = [Idle EXCEPT !.pc = "bind", !.key = card]
  /\ UNCHANGED <<modemVars, wire, router, inboxVars, released, admitted,
                 boundVars, faults>>

\* AtDirectBind.  It is refused while a frame is half read.
BindSim ==
  /\ At("bind")
  /\ \/ /\ router' = IF router.key = cap.key THEN router
                     ELSE [Cleared(router) EXCEPT !.key = cap.key]
        /\ Goto("poll")
     \/ /\ wire # <<>>
        /\ Abandon /\ UNCHANGED router
  /\ UNCHANGED <<modemVars, wire, inboxVars, released, admitted, boundVars,
                 faults>>

\* AT+CSMS?, whose failure is taken for an unknown service, and AtDirectPoll.
Poll ==
  /\ At("poll")
  /\ \E s \in {service, "unknown"} :
       /\ \/ s = service /\ UNCHANGED faults
          \/ s = "unknown" /\ Fault
       /\ cap' = [cap EXCEPT !.pc = "direct", !.batch = router.queue,
                             !.service = s]
  /\ UNCHANGED <<modemVars, wire, router, inboxVars, released, admitted,
                 boundVars>>

Pending == {e \in Cards \X Pdus : rows[e[1]][e[2]] = "pending"}

\* stage_native_pdu: a row that exists is kept; a full inbox takes no new one.
Full == Cardinality(Pending) >= InboxLimit
Staged(p) == rows[cap.key][p] # "absent"
CanStage(p) == Staged(p) \/ ~Full
Stage(p) ==
  rows' = IF Staged(p) THEN rows ELSE [rows EXCEPT ![cap.key][p] = "pending"]

\* Mutant: an inbox that is full ends the capture.
Deferred_Fails(pc) == Abandon

\* A PDU that cannot be kept ends its loop only.
Deferred(pc) == Goto(pc)

StageDirect ==
  LET d == Head(cap.batch) IN
  /\ At("direct")
  /\ \/ /\ cap.batch = <<>>
        /\ Goto("scan") /\ UNCHANGED <<rows, faults>>
     \/ /\ cap.batch # <<>> /\ d.key # cap.key
        /\ Abandon /\ UNCHANGED <<rows, faults>>
     \/ /\ cap.batch # <<>> /\ d.key = cap.key /\ CanStage(d.pdu)
        /\ Stage(d.pdu)
        /\ Goto("commit") /\ UNCHANGED faults
     \/ /\ cap.batch # <<>> /\ d.key = cap.key
        /\ \/ ~CanStage(d.pdu) /\ UNCHANGED faults
           \/ Fault
        /\ Deferred("scan") /\ UNCHANGED rows
  /\ UNCHANGED <<modemVars, wire, router, received, shown, released, admitted,
                 boundVars>>

\* Mutant: the time since the PDU was received is not looked at.
MayAcknowledge_AnyAge(i) ==
  LET e == router.queue[i] IN
  /\ Len(router.queue) = 1 /\ ~router.blocked
  /\ e.live /\ e.key = router.key

\* take_direct: CNMA names no message, so the PDU must be the only one it can
\* be about.
MayAcknowledge(i) ==
  LET e == router.queue[i] IN
  /\ Len(router.queue) = 1 /\ ~router.blocked
  /\ e.live /\ e.fresh /\ e.key = router.key

Without(q, i) == SubSeq(q, 1, i - 1) \o SubSeq(q, i + 1, Len(q))
Take(i) == router' = [router EXCEPT !.queue = Without(@, i)]
TakeBlocked(i) == router' = [router EXCEPT !.queue = Without(@, i),
                                           !.blocked = TRUE]

\* AT+CNMA=1 relieves the modem of whatever it waits for, unless it fails.
Acknowledge ==
  \/ /\ awaiting' = NoPdu
     /\ released' = released \cup ({awaiting} \ {NoPdu})
     /\ UNCHANGED faults
  \/ Fault /\ UNCHANGED <<awaiting, released>>

NextDirect == cap' = [cap EXCEPT !.pc = "direct", !.batch = Tail(@)]

\* AtDirectCommit (complete_direct).  A token that is gone, or a frame half
\* read, makes the acknowledgement ambiguous; where none is due, a token that is
\* gone resets the port.
Commit ==
  LET places == {i \in 1 .. Len(router.queue) :
                   router.queue[i].token = Head(cap.batch).token} IN
  /\ At("commit")
  /\ \/ /\ places = {} /\ cap.service = "1"
        /\ router' = [router EXCEPT !.blocked = TRUE]
        /\ UNCHANGED <<wire, awaiting, released, faults>>
     \/ /\ places = {} /\ cap.service # "1"
        /\ router' = [router EXCEPT !.queue = NoLongerLive(@),
                                    !.blocked = @ \/ cap.service = "unknown"]
        /\ wire' = <<>>
        /\ UNCHANGED <<awaiting, released, faults>>
     \/ \E i \in places :
          /\ \/ /\ cap.service = "0"
                /\ Take(i) /\ UNCHANGED <<awaiting, released, faults>>
             \/ /\ cap.service = "unknown"
                /\ TakeBlocked(i) /\ UNCHANGED <<awaiting, released, faults>>
             \/ /\ cap.service = "1" /\ (~MayAcknowledge(i) \/ wire # <<>>)
                /\ TakeBlocked(i) /\ UNCHANGED <<awaiting, released, faults>>
             \/ /\ cap.service = "1" /\ MayAcknowledge(i)
                /\ Take(i) /\ Acknowledge
          /\ UNCHANGED wire
  /\ NextDirect
  /\ UNCHANGED <<service, card, storage, inboxVars, admitted, boundVars>>

Listed == {e \in Slots \X Pdus : storage[card][e[1]] = e[2]}

\* AT+CMGL; a modem that cannot list is passed over.
Scan ==
  /\ At("scan") /\ Answered
  /\ \/ cap' = [cap EXCEPT !.pc = "stored", !.list = Listed] /\ UNCHANGED faults
     \/ Fault /\ Goto("recheck")
  /\ UNCHANGED <<modemVars, wire, router, inboxVars, released, admitted,
                 boundVars>>

StageStored ==
  /\ At("stored")
  /\ \/ /\ cap.list = {}
        /\ Goto("recheck") /\ UNCHANGED <<rows, faults>>
     \/ \E e \in cap.list :
          \/ /\ CanStage(e[2])
             /\ Stage(e[2])
             /\ cap' = [cap EXCEPT !.list = @ \ {e}, !.committed = @ \cup {e}]
             /\ UNCHANGED faults
          \/ /\ \/ ~CanStage(e[2]) /\ UNCHANGED faults
                \/ Fault
             /\ Deferred("recheck") /\ UNCHANGED rows
  /\ UNCHANGED <<modemVars, wire, router, received, shown, released, admitted,
                 boundVars>>

\* AT+CIMI again.
Recheck ==
  /\ At("recheck") /\ Answered
  /\ \/ card = cap.key /\ Goto("reread") /\ UNCHANGED faults
     \/ card # cap.key /\ Abandon /\ UNCHANGED faults
     \/ Fault /\ Abandon
  /\ UNCHANGED <<modemVars, wire, router, inboxVars, released, admitted,
                 boundVars>>

\* What the second AT+CMGL still lists at its place.
Unchanged == cap.committed \cap Listed

Reread ==
  /\ At("reread") /\ Answered
  /\ \/ /\ cap' = [cap EXCEPT !.pc = "delete", !.committed = Unchanged]
        /\ UNCHANGED faults
     \/ Fault /\ cap' = [cap EXCEPT !.pc = "promote", !.committed = {}]
  /\ UNCHANGED <<modemVars, wire, router, inboxVars, released, admitted,
                 boundVars>>

\* AT+CMGD clears a place of the card that is in the modem now.
Delete ==
  /\ At("delete")
  /\ \/ /\ cap.committed = {}
        /\ Goto("promote") /\ UNCHANGED <<storage, released, faults>>
     \/ \E e \in cap.committed :
          /\ cap' = [cap EXCEPT !.committed = @ \ {e}]
          /\ \/ /\ storage' = [storage EXCEPT ![card][e[1]] = NoPdu]
                /\ released' = released \cup ({storage[card][e[1]]} \ {NoPdu})
                /\ UNCHANGED faults
             \/ Fault /\ UNCHANGED <<storage, released>>
  /\ UNCHANGED <<service, card, awaiting, wire, router, inboxVars, admitted,
                 boundVars>>

-----------------------------------------------------------------------------
(* consume_pending, for the card of the capture.                           *)

PendingOf(m) == {p \in Pdus : rows[cap.key][p] = "pending" /\ MessageOf[p] = m}

\* assemble.
IsWhole(m, S) == \A n \in 1 .. TotalOf[m] : \E p \in S : PartOf[p] = n
Ready(m) == IsWhole(m, PendingOf(m))

\* Identical parts in two encodings make two markers and one fingerprint.
DedupKey(m) == <<cap.key, IF Dedupe THEN {m} ELSE PendingOf(m)>>

\* Mutant: that a message was shown before is not looked at.
Known_Never(m) == FALSE

Known(m) == DedupKey(m) \in received

\* promote_native_sms is one transaction.
Promote(m) ==
  /\ At("promote") /\ admitted
  /\ Ready(m)
  /\ rows' = [rows EXCEPT ![cap.key] =
       [p \in Pdus |-> IF p \in PendingOf(m) THEN "done" ELSE @[p]]]
  /\ received' = received \cup {DedupKey(m)}
  /\ shown' = IF Known(m) THEN shown ELSE [shown EXCEPT ![m] = @ + 1]
  /\ UNCHANGED <<modemVars, wire, router, cap, released, admitted, boundVars,
                 faults>>

\* Nothing is left to promote, a statement failed, or the line may no longer
\* receive.
EndCapture ==
  /\ At("promote")
  /\ \/ ~admitted /\ UNCHANGED faults
     \/ (\A m \in Messages : ~Ready(m)) /\ UNCHANGED faults
     \/ Fault
  /\ Abandon
  /\ UNCHANGED <<modemVars, wire, router, inboxVars, released, admitted,
                 boundVars>>

-----------------------------------------------------------------------------
\* A command fails, or what became of a PDU cannot be recorded.
CommandFails ==
  /\ cap.pc \in {"bind", "poll", "direct", "stored"}
  /\ Fault
  /\ Abandon
  /\ UNCHANGED <<modemVars, wire, router, inboxVars, released, admitted,
                 boundVars>>

\* The router is in memory; the inbox is not.
Restart ==
  /\ Fault
  /\ router' = Fresh
  /\ wire' \in {wire, <<>>}
  /\ cap' = Idle
  /\ UNCHANGED <<modemVars, inboxVars, released, admitted, boundVars>>

Suspend ==
  /\ admitted
  /\ Fault
  /\ admitted' = FALSE
  /\ UNCHANGED <<modemVars, wire, router, cap, inboxVars, released, boundVars>>

Admit ==
  /\ ~admitted
  /\ admitted' = TRUE
  /\ UNCHANGED <<modemVars, wire, router, cap, inboxVars, released, boundVars,
                 faults>>

Capture ==
  \/ ReadSim \/ BindSim \/ Poll \/ StageDirect \/ Commit
  \/ Scan \/ StageStored \/ Recheck \/ Reread \/ Delete
  \/ (\E m \in Messages : Promote(m)) \/ EndCapture

Environment ==
  \/ \E p \in Pdus : DeliverDirect(p) \/ \E s \in Slots : DeliverStored(p, s)
  \/ GiveUp
  \/ \E c \in Cards : Swap(c)
  \/ \E i \in 1 .. QueueLimit : Grow(i)
  \/ Reset \/ CommandFails \/ Restart \/ Suspend \/ Admit

Next == Capture \/ Route \/ Environment

Spec == Init /\ [][Next]_vars

\* The listener polls for ever, a capture runs on, lines are read and the line
\* is admitted again.
FairSpec == Spec /\ WF_vars(Capture) /\ WF_vars(Route) /\ WF_vars(Admit)

-----------------------------------------------------------------------------
(* Properties.                                                             *)

DurablePdus == {p \in Pdus : \E c \in Cards : rows[c][p] # "absent"}

Mailbox == INSTANCE SmsMailbox WITH durable <- DurablePdus

\* Reception implements the mailbox: nothing is acknowledged or deleted before
\* it is durable, and nothing is shown twice, across retransmissions, lost
\* answers, resets and restarts (native_sms_inbox.rs:1).
ImplementsMailbox == Mailbox!Spec

AcknowledgesDurable ==
  awaiting' # awaiting /\ awaiting \in released' \ released
    => awaiting \in DurablePdus

\* The network is never told that a PDU arrived which the inbox does not hold,
\* although CNMA names no message and the card may be exchanged at any moment
\* (at_urc.rs:144).
AcknowledgedIsDurable == [][AcknowledgesDurable]_vars

\* A message does not reach the table twice, whatever its PDUs went through
\* (native_sms_inbox.rs:172).
ShownOnce == \A m \in Messages : shown[m] <= 1

\* What the modem and the network were relieved of is shown in the end, with a
\* full inbox too (direct_sms.rs:168).
ReleasedIsShown ==
  \A m \in Messages :
    IsWhole(m, {p \in released : MessageOf[p] = m}) ~> shown[m] > 0

\* "SIM scope comes from the admitted capture, never a current-line guess"
\* (native_sms.rs:22): a PDU is only kept for the card it was addressed to.
RightScope == \A c \in Cards, p \in Pdus : rows[c][p] # "absent" => CardOf[p] = c

\* "A reused storage index must not delete a later message"
\* (direct_sms.rs:239).
DeletesWhatItKept == released \subseteq DurablePdus
=============================================================================
