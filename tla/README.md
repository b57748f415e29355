# A verification project for SimMaster

SimMaster is a Rust service that owns cellular modems and SIM cards, registers
each SIM line with the operator's IMS over two accesses (the cellular bearer,
"VoLTE", and a WLAN tunnel, "VoWiFi") and bridges calls and messages.  This
directory holds TLA+ models of the parts whose correctness depends on the order
of concurrent steps, TLC configurations that check them on small instances, and
TLAPS proofs of the properties that hold for every instance.  Paths below are
relative to `src/backend/src/`.

## 1. Inventory

| Part | State it keeps | Operations | Hard behaviour | What makes it correct |
|---|---|---|---|---|
| Access decision, `connectivity/core/ims_access.rs` | none (pure) | `decide`, `legs_to_release` | combinations of intent, readiness, identity and negotiation | a spoofed identity never registers on cellular; only enabled legs are admitted |
| Registration coordinator, `connectivity/core/ims_registration_coordinator.rs` | admission, deferral flag, outbound cooldown and recovery backoff per leg, weak references to flow leases, three async locks | `admit`, `publish`, `park`, `defer_switch_for_call`, `attach_flow`, `try_native_observation` | permits held across REGISTER exchanges while the admission is replaced | teardown drains the exchange; two legs register together only when negotiated |
| Outbound flow, `connectivity/core/outbound.rs` | `FlowLease` (expiry, negotiation, health, failure), keepalive timers | `prepare`, `received_sip`, `registered`, `fail`, `acknowledged` | answers that arrive late, lost or after the flow failed | one leg's REGISTER never displaces the other's binding; failure is final |
| Access-policy transitions, `api/handlers.rs` | the transition lock of a line and the locals of its holder | policy reconcile, bring-up, stop, rebuild, profile switch, exhausted restore | every await is a point where calls, settings and leases change; futures are dropped when a client disconnects | calls are not cut, closed lines reopen, transitions end |
| Native IMS observation, `services/native_ims_observation.rs` | a cached sample | `probe` | must exclude everything the host does | never overlaps bring-up, REGISTER or an owned flow |
| Live sessions, `connectivity/modems/ims/cellular_ims/live.rs`, `.../vowifi/live.rs`, `.../vowifi/operator.rs` | session, bearer or tunnel, SIP channel and its owner task | connect, refresh, disconnect | refresh runs outside the transition lock; hotplug and flight mode tear down under the leg's own locks | see outbound flow |
| SIM channel ledger and recovery, `hardware/cellular/backends/{sim_ledger,recovery,io}.rs` | the ledger (owner, fence) in memory; a receipt and an archive on disk; flocks | claim, `ChannelLease::begin` … `finish`, drop, plan and apply of `native-recovery` | crashes between intent, execution and record; failing saves; recovery racing a start | what the card holds is covered by a receipt, held once, closed once; a receipt is retired only with evidence |
| Users of the SIM, `.../vowifi/qmi_uim.rs`, `hardware/cellular/backends/sim.rs`, `hardware/sim/esim.rs` | the connection's belief about its channel | allocate, open, close, release; AT open and close; the eSIM helper | lost and late answers, timeouts, a helper killed with channels open | no blind close; the gate is given back |
| Native SMS reception, `hardware/cellular/at_urc.rs`, `at_session.rs`, `backends/direct_sms.rs`, `platform/native_sms_inbox.rs`, `services/messaging/native_sms.rs` | the router's queue of pushed PDUs and whether it may acknowledge; the durable inbox and the fingerprints of what was shown | route, bind, poll, stage, CNMA, list, delete, promote | CNMA names no message; the card may change between two commands; restarts between staging, acknowledging and showing | nothing is released before it is durable, nothing is shown twice, what was released is shown |
| Native SMS sending, same files | `native_sms_sends`, `native_sms_submissions` | begin, submit part, remember, finish, consume report | eight-bit references that come round, answers lost, reports before the commit | "delivered" is true |
| SMS deduplication, `services/messaging/sms_listener.rs`, `services/orchestrator/dedup.rs`, statements of `platform/db.rs` | table of fingerprints, rows, scheduled deletions | look up, claim, insert, delete the modem's copy | the same message over four transports at once | stored once; copies leave the modem |
| Reassembly of long messages, `.../cellular_ims/sms.rs`, `api/handlers.rs` | groups of parts in memory | ingest, expire | parts out of order, repeated, with colliding references | a text is one message, and none is held back |
| Notification queue, `services/notify/notification.rs`, `notification_queue.rs`, statements of `platform/db.rs` | rows with status, attempts, next attempt; the delivery log | route, enqueue, claim, send, retry; operator's retry and cancel | tasks, operator and restarts meet on one row | sent once per request, never stuck, drained |
| IMS startup gate, `services/ims_startup_gate.rs` | one gate | wait, open | start order of the services | the gate opens |
| Virtual SIM, `connectivity/modems/ims/virtual_sim/` | sequence number in memory, profile on disk | authenticate, install, delete | restart, replaced profile | no number accepted twice |
| Voice access router, `services/trunk/access_router.rs`, `operator.rs`, `services/orchestrator/voice_router.rs` | routes (owner, generation, legs left), cost modes, pending admissions and their observations; per leg readiness, generation, permissions | route command, request and event; fail over; admit, hold, reject; policies | commands, events, results and link losses meet in one loop; callers vanish; queues overrun | one leg per call, no call out of reach, nothing costly without leave, a cancellation is final |
| Trunk bridge, automation, E911, app voice, USSD and eSIM drivers, storage, frontend | various | various | mostly protocols of third parties and I/O | outside this project |

How the parts interact.  HTTP handlers and background loops take a line's
`transition_lock`, ask the pure decision which legs may register, and publish the
answer in the coordinator.  Publishing waits for the REGISTER exchange that holds
a permit, so an old path is removed only when nothing uses it.  Live sessions ask
the coordinator for a permit before an initial REGISTER; their flows attach
leases, which the decision and the `Require: outbound` rule read back.  SMS, voice
and diagnostic helpers register WLAN with a permit but without the transition
lock; the cellular session refreshes itself with neither.

Below them, every access to the card (authentication for IMS, application discovery,
eSIM profiles) runs under the device's one operation gate and a `ChannelLease`, whose
receipt reaches the disk before the first request is sent.  A process claims a device
under flocks and refuses it while any receipt is left; `native-recovery` takes the same
flocks to archive a receipt that a dead process had confirmed.

Messages come in over four transports (ModemManager's storage, a native AT modem,
VoLTE, VoWiFi) and meet in `sms_messages`.  The IMS legs reassemble in memory and
acknowledge first; the native modem keeps every PDU in an inbox of its own before it
acknowledges; all but the native one share the table of fingerprints.  Messages, calls
and device events are turned into notifications, which are sent at once and, when
that fails, from the queue.

Calls run through one router per line.  The Asterisk bridge and the HTTP API send it
commands; it forwards each to the leg that owns the call and passes that leg's events
back.  Readiness, access generation and permissions of a leg live in its `OperatorLink`,
written by the leg's session and by the router's loop.

## 2. Modules

* `ImsAccess` — `decide` and `legs_to_release` over sets of legs.
* `ImsRegistration` — one line: coordinator, leases, exchanges, policy, outside
  world.  One action per operation, and one per await of an operation that holds
  the transition lock.
* `ImsRegistrationProofs` — the inductive invariant and the theorems.
* `SimLedger` — one device: process instances, lease, receipt, card, helper and
  recovery command.  One action per step that touches disk, card or flocks.
* `SimLedgerProofs` — its inductive invariant and theorems.
* `SmsMailbox` — what native reception promises: keep, release, show.
* `NativeSmsInbox` — one line with one AT modem: cards, wire, router, the capture
  cut at its AT commands and statements, inbox, promotion.  It implements
  `SmsMailbox` (`ImplementsMailbox`).
* `NativeSmsInboxProofs` — its inductive invariant, its theorems and the refinement.
* `NativeSmsSend` — sending and status reports to one recipient from one card.
* `NativeSmsSendProofs` — what a status report can be traced to, and its theorem.
* `SmsIngest` — one line's fingerprint table between modem storage and IMS legs.
* `SmsIngestProofs` — its inductive invariant and theorems.
* `MtReassembly` — the two reassemblers, chosen by `Leg`.
* `MtReassemblyProofs` — the theorems about the VoWiFi one.
* `NotificationQueue` — one channel: routing, worker, operator, restarts.
* `NotificationQueueProofs` — its inductive invariant and theorems.
* `VoiceRouter` — one line's voice router between the trunk side and the two legs, with
  the links and the legs' call tables.  A plan of legs is a set: the code sorts VoWiFi
  before cellular whatever order was saved, so the set determines the order (`First`,
  `After`).
* `VoiceRouterProofs` — its inductive invariant, for any number of calls, and theorems.
* `MCNativeSmsInbox`, `MCNativeSmsSend`, `MCSmsIngest`, `MCMtReassembly` — the messages,
  parts, cards and texts of their instances.

The refinement.  `SmsMailbox` has three variables: `durable` (a PDU has a row in the
inbox, pending or done), `released` (the network got its CNMA, or the card's copy was
deleted) and `shown`.  `released` and `shown` are variables of `NativeSmsInbox`;
`durable` is the set of PDUs with a row.  Every step of the router, of the capture and
of the environment is then a stuttering step or one of `Keep`, `Release` (only of what is
durable) and `Show` (only once, only of durable parts).

### State and code

| Variable | Code |
|---|---|
| `enabled`, `preference` | the line profile: intents, `ims_access_preference` |
| `spoofed` | the override store holds a device identity for the SIM (`api/handlers.rs:9577`); read again at every decision |
| `ready` | radio state, retry budget, device presence: what makes a leg `available` apart from backoff |
| `call` | some call of the line for which `call_blocks_access_switch` is true |
| `admission`, `deferred` | the coordinator's `admission` (and `applied`) and `switch_deferred_for_call` |
| `rejected`, `backoff` | `outbound_rejected_until` and `recovery` deadlines in the future |
| `permit` | the `RegistrationPermit` in existence (`register_lock` allows one) |
| `lease` | per leg, what the weak flow reference upgrades to: live, expired or failed, `neg`otiated, `ok` (healthy) |
| `up`, `leg` | bearer or ePDG path; holder of the leg's bearer and connect locks |
| `ike` | a diagnostic's bring-up outside the transition lock, under `host_activity` |
| `phase`, `required`, `offered` | the REGISTER exchange of a leg and the two header options of its request |
| `bound` | the contacts the registrar holds (external) |
| `op`, `pc`, `target`, `desired`, `previous`, `release` | holder of `transition_lock`, where it is, and its locals |
| `early` | history: the line had a call when the holder was granted the leg lock |
| `saw`, `barred` | history: the decision being applied saw a spoofed identity; such a decision was published, and none that does not see one has been taken since |
| `overlap` | history: the legs whose flows may not know of each other, because one asked for a flow while the other's lease had run out under its own refresh |

`SimLedger`:

| Variable | Code |
|---|---|
| `proc`, `lock` | process instances (boot id, pid, start ticks) and the device's flocks, held by a server or a recovery |
| `op`, `kind` | the operation under the device's gate and its transport; while `op` is a request its answer is awaited |
| `ledger` | `NativeDevice.sim_ledger`: `owner` (client, channel, state) and `reconciliation_required` |
| `conn` | `NativeUimReceipt`: `channel_id` and `channel_uncertain` of a QMI connection |
| `receipt`, `rowner`, `rext` | the receipt file: absent, incomplete, unconfirmed or `cleanup_confirmed`; its owner; `external_channels_unknown` |
| `tmp`, `archive` | temporary files of failed saves; receipts archived as resolved |
| `clients`, `channels`, `helper`, `wire`, `reply` | external: what the card and the helper hold, requests not yet executed, the answer |
| `rpc`, `seen` | progress of a recovery and the receipt it planned for |

The messaging modules:

| Variable | Code |
|---|---|
| `router`, `wire` | `UrcRouter`: queue of direct PDUs with token, age, liveness and SIM key, `ack_blocked`; lines not yet read |
| `cap` | the locals of `capture_sms` and where it is |
| `rows`, `received`, `shown` | `native_sms_inbox` by card and PDU, `native_sms_received`, rows of `sms_messages` |
| `service`, `card`, `storage`, `awaiting` | external: `+CSMS`, the card, its storage, the delivery the modem waits to see acknowledged |
| `send`, `parts`, `status` | `native_sms_sends`, `native_sms_submissions`, status in `sms_messages` |
| `task`, `nextRef`, `accepted`, `reports` | the shielded sending task; the modem's counter; parts the service centre took; reports in the inbox |
| `claimed`, `rows`, `deletes`, `worker` (`SmsIngest`) | `sms_dedup`, rows per transport, spawned deletions, what each transport is doing |
| `sessionDedupe` | the cellular session keeps the dedupe setting of its start |
| `groups`, `since` (`MtReassembly`) | parts by key, and when a group began |
| `first`, `status`, `attempts`, `due`, `task`, `recent` (`NotificationQueue`) | the routing task, the row, the spawned tasks with the attempt count they read, successes in the rate window |

`VoiceRouter`:

| Variable | Code |
|---|---|
| `link` | per leg, `OperatorLink`: `ready`, `access_generation`, the session that holds the command receiver, the two incoming permissions |
| `leg` | the session's `calls` / `voice_calls`: dialling, ringing, up, or left behind by a failed send; a re-INVITE pending |
| `toLeg`, `evs`, `cmds` | the broadcast queues to a leg, from a leg, and of the trunk link |
| `api` | a request of `start_call`: queued, held, answered, or its waiter gone; its offers and initial cost mode |
| `route` | `routes` and `modes`: owner, generation, legs left, whether a start may still fail over, cost mode |
| `pending`, `tasks`, `results`, `tickets` | pending admissions, observations running, finished and not yet joined, `revision` |
| `gate`, `enabled` | `VoiceCostGate.mode`, the layers of the voice policy |
| `asked`, `heard`, `used` | what the trunk side has sent and been told, call ids used |
| `met`, `stopped`, `dropped` | history: modes met at admission, an end handled, why the router lost a call: an old generation, a refused re-INVITE, a message lost to an overrun |

### Actions and code

`PolicyDecide` … `PolicyOpen` are `apply_line_ims_access_policy_locked`
(`api/handlers.rs:9700`) cut at its awaits.  `BeginReconcile`, `BeginBringUp`,
`BeginStop` and `BeginWlanReset` are its callers and the paths that park a leg;
`WlanResetGate`, `Park`, `ParkTakeLeg`, `ParkDropLeg` are the bodies of the latter.
`Connect`, `BringUpPath`, `RequestPermit`, `FinishBringUp`, `GiveUp` and
`NextCandidate` are `connect_vowifi_on_line` and
`run_line_cellular_ims_restore_round`.  `CancelBringUp` drops the HTTP future that
awaits a WLAN bring-up.  `Prepare`, `Receive`, `Lose`, `Pong`, `HealthLapses`,
`FlowFail`, `Expire` are the outbound flow; `Registrar` is the network.
`ReadsIdentity` is the read of the override store that each decision makes
(`line_device_identity_spoofed`, `api/handlers.rs:9577`; a failed read says "not
spoofed"), `SetIdentity` the requests that save or delete the override
(`api/handlers.rs:14307`), which start no transition.  `Overlaps` is the case in which
neither lease shows the other leg's flow; it only feeds the history.
`ExternalTakeLeg`/`ExternalDropLeg` and `HotplugReset` are the teardowns that do not
take the transition lock.

In `SimLedger`, `Lock`, `Claim` and `Crash` are the life of a process (`io.rs`);
`Begin`, `BeginFails`, `Drop`, `ConfirmCleanup` and `RemoveReceipt` are the lease and the
two durable steps of `clear_owned`; `SendAllocate` … `Released` are the QMI and AT
exchanges with their ledger updates; `RunHelper`, `HelperSucceeds` and `HelperFails` are
`call_lpac_on_line`; `Plan`, `ApplyLock`, `Recheck`, `Archive`, `Compare`, `Retire` and
`GiveUp` are the recovery command, cut where another process can act.  `CardExecutes`,
`CardRefuses`, `HelperWorks` and `ManualReview` are external.

In `NativeSmsInbox`, `Route` and `Reset` are `pump_events` and `transport_reset`; `ReadSim` … `Delete`
are `capture_sms`, one action per AT command or statement; `Promote` and `EndCapture` are
`consume_pending`; `CommandFails`, `Restart`, `Suspend` and `Admit` are what ends or holds back a
capture.  In `NativeSmsSend`, `Begin` … `Finish` are `send_sms_persisted` with its three
statements and `Consume` is `consume_native_report`.  In `SmsIngest`, `Check`, `Claim` and `Insert` are the
three statements each transport makes, `DeleteCopy` is the delayed deletion.  In
`MtReassembly`, `Ingest` is both reassemblers.  In `NotificationQueue`, `RouteEvent`,
`FirstSent` and `FirstFailed` are the delivery of an event, `Load` … `Fail` are one run of
`process_notification_queue_item`, `RetryItems` and `CancelItems` are the operator's requests.

In `VoiceRouter`, one turn of `run_router` is one action: `HandleCommand`, `HandleRequest`,
`HandleEvent` and `HandleResult` are the arms of its biased select, with the guard that the
arms before it have nothing to read; `RouterLagged` is the overrun arm, `RouterTick` the
ticker.  The first three share `Take`: ignored, held for an observation, rejected at the cap,
or dispatched.  `RouteStart`, `RouteControl`, `RouteCallPlan`, `RouteIncoming`, `FailOver` and
`RouteEvent` are the functions of the same names.  `LegCommand` is `handle_command` of a leg;
`LegLagged` the overrun of its receiver of commands (`vowifi/operator.rs:775`,
`cellular_ims/live.rs:4690`), and `EventsLagged` that of the forwarder of its events
(`access_router.rs:638`).  `NetFinal`, `NetReinviteFinal`, `NetEnd` and `NetIncoming` are a leg's SIP handlers; `LinkUp`,
`LinkRevoked`, `SessionEnds` and `LinkClosed` the life of its session.

### What is abstracted

* Time: every deadline may pass at any moment, that of a lease under its own refresh
  included (`live.rs:4859` looks at the remaining lifetime only when the refresh
  starts); backoff growth and jitter are left out.
* A read of the override store that fails is an outside event (`store`), bounded with the
  others: a store that fails for ever keeps the identity from being seen at all.
* The bearer and connect locks of a leg are one lock.  `applied` is `admission`:
  they are assigned together.
* `ConcurrentRegistrationSupport` is "negotiated or not", the only test made of it.
  The instance identity of two flows always matches.
* A teardown unregisters: the registrar forgets the contact.  What a registrar does
  with a request whose client has given up is not modelled beyond "the answer is
  lost".
* The generation fence of `connect_live_for_line`, the profile probe's own admission
  (`cellular_ims/live.rs:2455`) and the P-CSCF re-attach (`api/handlers.rs:11313`)
  are not modelled yet.
* Whether a WLAN attempt succeeded is not remembered, so `GiveUp` is possible after
  any attempt: the model has more behaviours than the code.
* `GiveUp`, `NextCandidate`, `Connect`, hotplug and the external teardowns remove a
  path without draining a helper's permit; the exchange they interrupt is in phase
  `cut` and fails.  `DrainBeforeTeardown` speaks of the policy and of `park`, the paths
  that promise to drain.

In `SimLedger`:

* One device and one receipt key.  The flocks of a claim (port, control device, lineage)
  are one lock, taken in one step.  A process instance lives once, so an owner that has
  ended never comes back to life.
* `Crash` is the end of a process: files written survive.  Power loss, which may undo an
  unsynced rename, is not modelled.
* Ids, payloads, revisions, counters and the ledger's serial are left out.  The serial
  guards against a lease that was replaced, which cannot happen while `begin` refuses an
  owned ledger; `seen` stands for the bytes a recovery planned for: their owner is dead by
  then, so the instance determines them.
* A temporary file left behind blocks every later claim, and the recovery command cannot
  retire it; only `ManualReview`, which stands for the device-specific review that the
  recovery's blockers ask for, removes it and resets the card.
* A helper that reports success has closed its channels; a helper whose server died may
  go on working.  The card executes requests at any time after they were sent, or never.
* `Abandon` may happen after any cleanup attempt: callers differ, and the model allows
  each of them to return before releasing.
* Bearer-session receipts, which use the same files, and edits of the configured scope
  are not modelled.

In the messaging modules:

* `NativeSmsInbox`: storage belongs to the card; a modem announces another card with
  `+CPIN` before that card delivers, waits for a CNMA longer than the ten seconds during
  which the router holds a PDU for fresh, and answers a command after the lines it sent
  before.  A CNMA is not delayed.  With service "0" the network waits for nothing.  Rows that
  cannot be read (quarantine), the limit of 4096 rows over all lines and the trimming of
  the 2048 rows kept against duplicates are left out.
* The refinement is checked with one card.  With two, the finding on scopes (below) lets
  one message be kept under two cards, and the one on deletions releases what was not kept.
* `NativeSmsSend`: one recipient, one card.  The clock stays below the window of doubt, so
  a message of many parts that takes more than five minutes is outside the instance.
  Reports too old or too far in the future and pruning are left out.
* `SmsIngest`: a message is its fingerprint; pruning of fingerprints after 30 days and
  deletion by the user are left out, as is a message lost in a lagging broadcast channel.
* `MtReassembly`: single-part messages and parts without text are left out.  A sender uses a
  reference again only after a day.
* `NotificationQueue`: one channel.  Quiet hours, rule matching, the channels' protocols
  and log cleanup are left out; the window of the rate limit may slide at any moment.

In `VoiceRouter`:

* `CancelCall`, `HangupCall` and `RejectCall` are one command, `Stop`: each leg forgets the
  call, without an event, whether or not its request can be sent.  A call id is used once
  (ids are random).
* SDP, video, DTMF, provisional answers, the network's own re-INVITE, the first-RTP
  connect mode, `call_access` and observations for diagnosis are left out.  The trunk
  side may send each command once, as soon as the bridge would.
* The cap of sixteen pending admissions may be reached at any moment (by other calls).
* An overrun that skips several messages is several steps that lose one each (`MaxLags`
  bounds them).  The trunk side's own receiver is not among them: when it overruns, the
  trunk session ends, and what the bridge then owes its peer is outside this module.
* Events wait in one queue per leg; the code's two stages (broadcast, then one channel for
  both legs) order them no more than that.  The forwarder may overrun while older events
  are still in the second stage, so the event that is lost may be any of the queue.
* A policy and the permissions it implies are written in one step, either before or after
  the write of a router turn that read the old value.

## 3. Runs

| Run | Question | Bounds |
|---|---|---|
| `binding` | Does one leg's REGISTER ever displace the binding of a flow still counted as live, are two flows ever live without both having negotiated, and can a failed flow come back?  The first two but for the one window below | concurrent preference, a registrar that honours `Require`, profiles that offer outbound or not, leases that run out at any moment, lost answers; no outside event (see below) |
| `switch` | Do access switches drain REGISTERs, spare calls, exclude observations and keep an identity seen as spoofed off cellular?  Does every transition end, is every deferred switch applied, does a closed line reopen, does a new spoofed identity leave cellular? | WLAN preferred, no spoofed identity at first, two outside events of any kind (a changed identity and a failed read of it among them); losses of answers are left to `binding` |
| `ledger` | Is what the card holds always covered by a receipt, held once and closed once, are receipts retired only with evidence, does every SIM operation give the gate back? | three process instances, two recoveries, any number of operations, losses, failed saves and reviews |
| `inbox` | Does reception implement the mailbox, show each message once and show all it released? | one message in two encodings, each delivered twice, modems with and without CNMA, room for one row, one fault |
| `inbox_swap` | Is what the network was told has arrived in the inbox, if the card is exchanged at any moment? | two cards, one exchange, one fault, two deliveries of each PDU |
| `send` | Is "delivered" true, and are unambiguous reports applied? | a message of two parts and one of one part, three references, one fault, two units of time of 150 s |
| `ingest` | Is a message stored once, and do copies leave the modem? | one message, three submissions on any transports, two faults, two switches of line, IMS or dedupe |
| `ingest_repeat` | Is what was removed from the modem in the table? | violated, see findings |
| `reassembly` | Is a text one message, and is a complete message handed on? | VoWiFi; two senders with one reference, one using it again the next day, each part delivered twice |
| `voice` | Is a call on one leg, within reach and admitted by its cost mode; is a cancellation final; does every wait end? | one call, either origin, both legs ready at first, any cost mode, offers for both legs or VoWiFi only, one lost link or changed policy, one message lost to an overrun of any queue |
| `voice_pinned` | Does a confirmed call stay within reach if no link and no message is lost? | violated, see findings |
| `queue` | Is a notification acknowledged once per request, is every row that is being sent attended, does the queue drain? | one item, two tasks, three requests, one restart |

The bounds suffice for the cases that matter.  There are two legs in the code, so
the sets are not reduced.  `MaxChanges` counts only outside events (calls,
settings, changes of the identity and failed reads of it, stops, resets, cancellations,
interruptions); retries, refreshes, losses,
expiries and keepalives are unbounded.  Two events cover "a setting and a call", "a
call and a stop", "a cancellation and a teardown", the pairs that race.  The proofs
cover every `MaxChanges`.

The window of `binding` is the one of `MCLateRefresh` below: a leg asks for a flow while the
other leg's lease has run out under the exchange that would renew it, so that neither
lease shows the flow.  `overlap` records the legs this happened to, until the lease of
each is dropped; `GhostOnlyByOverlap` and `SecondFlowNegotiated` excuse those legs and nothing
else, and `NoGhostBinding` is the first without the excuse.  `MCAnyRegistrar.cfg` checks
`SecondFlowNegotiated` and `FailedStaysFailed` with a registrar that answers anything; it takes
several minutes and is not among the runs, since the theorems `SecondFlow` and
`FailedForGood` cover every registrar.  `binding` has no outside event, since one already makes
it three times as large: cancelled requests, candidates, teardowns and hotplug between the
exchanges of two flows are left to the theorems, which cover any number of them.

The ledger runs bound only the number of process instances and recoveries.  Three
instances let one crash, one start and fail to claim, and one serve after a recovery;
two recoveries race each other for the same receipt.  Deadlock is not checked there:
when all instances have ended, the system stops.  The proofs cover any number.

The messaging runs bound deliveries, faults and operator requests; polls, retries and
scans are unbounded.  One fault is enough for each hazard that starts with a single failed
command, statement or restart; two deliveries make a retransmission, two encodings of a
message make a duplicate that only the fingerprint finds; an inbox of one row is full as soon
as one is pending.  `queue` has two tasks, so that two runs of the worker hold the same row,
and three requests, so that an operator can retry, cancel and retry again while they do;
the rate limit is reached by the retried item itself.  `send` has three references
for three parts, so that a collision needs a restarted modem, which is its one fault.
Deadlock is not checked in these runs: with the deliveries used up the system may rest.

`voice` has one call: calls share nothing in the router but the policies, the links and the
cap, which is left open.  One loss of a link or change of a policy is enough to make each
cached value stale (a route's generation, a call's mode, the permissions of a leg, the plan of
legs left); two would only repeat it.  One lost message, out of the trunk's
commands, a leg's commands or a leg's events, is a `Stop`, a `StartCall`, an `Incoming` or an
answer in turn; the theorems allow any number.  Commands, observations, failovers, answers and ends are
not bounded.  Deadlock is not checked: when the call is over the system may rest.

### Fairness

`FairSpec` assumes what the runtime gives.  A spawned task runs on (`WF` on the steps
of the policy, of parking, of exchanges and of external teardowns).  Tokio's mutexes
and RwLocks are FIFO, so a waiter is served even if others keep coming (`SF` on
publishing and on bring-up steps).  Exchanges, bring-ups and observations have
timeouts, so they end.  The reconcile loop polls every ten seconds with `try_lock`
(`api/handlers.rs:9799`); the other users of the lock are finite and leave gaps
(observations have a five-second cooldown, bring-ups run the policy themselves), so
it succeeds again and again: `SF` on `BeginReconcile`.  Calls end.  Nothing is assumed
of users, settings, timers or keepalives.

`SimLedger!FairSpec` assumes weak fairness of the steps of the operation in progress: it
runs on a blocking worker, and its reads and the helper have timeouts.  Nothing is
assumed of the card, the disk, the helper or the operator.

`NativeSmsInbox!FairSpec`: the listener polls for ever and a capture runs on (`WF`), lines are
read, and a suspended line is admitted again.  Nothing is assumed of the network.
`NativeSmsSend!FairSpec`: the shielded task runs on and each scan takes up every pending
report.  `SmsIngest!FairSpec`: handlers run on, deletions come due, and each poll reads every
listed message; `SF`, because the one worker of the listener is busy with others in
between.  `NotificationQueue!FairSpec`: tasks run on and requests have a timeout; the worker
ticks every five seconds and takes the oldest due rows first, so that a row that is due
again and again is loaded (`SF`); the claiming statement does not fail for ever.

`VoiceRouter!FairSpec`: the router's task runs on, and an observation ends by its 800 ms timeout
(`WF` each).  That results are joined although the select prefers commands and requests is
fair because one call has finitely many of them.  Nothing is assumed of the trunk side, the
legs and the network.

### Findings

* `ingest_repeat`: for a reconciling scan, a row of another transport with the same
  sender and text is the same message, whatever its time (`sms_listener.rs:318`,
  `db.rs:5016`).  A second message with that text that only reaches the modem is deleted
  unstored, although the fingerprints exist so that a message "lands in `sms_messages`
  exactly once" (`db.rs:4883`).
* `voice_pinned`: both legs report a refused or timed-out re-INVITE of a confirmed call with
  `Rejected` (`vowifi/operator.rs:1053`, `2062`; `cellular_ims/live.rs:4822`, `6846`), which
  `is_terminal_event` (`access_router.rs:1339`) takes for the end: the route is dropped, and
  the later hangup never reaches the leg.  The bridge expects the call to go on
  (`bridge.rs:2187`, `rejected_asterisk_reinvite_keeps_confirmed_call`), and the router "keeps each
  call pinned to exactly one backend" (`access_router.rs:222`).

### Further disagreements

Each of these was met while modelling and has a configuration that shows it
(`tlc -config X.cfg M`); TLC reports the property named.

| Configuration | Property | What the code says and does |
|---|---|---|
| `MCLateRefresh`, `ImsRegistration` | `NoGhostBinding` | `prepare` asks the other leg's lease whether it is live *now* (`outbound.rs:179`).  The cellular refresh is neither bounded by the rest of its lease nor under a permit, so the lease may lapse while the 200 that renews it is in flight.  WLAN then registers without `Require: outbound`, and a registrar without multiple registrations replaces the contact that cellular is about to count as live; `outbound.rs:159` promises that it "must reject it rather than silently replace the first binding".  `binding` checks that this window is the only way. |
| `MCRebuild`, `ImsRegistration` | `RebuildDefersForCall` | `spawn_pending_vowifi_rebuild` promises to stay deferred for a second call (`api/handlers.rs:7183`), but after its test it awaits the policy, `park` and the connect lock and does not test again; the policy does repeat its test under the leg lock. |
| `MCLedgerExternal`, `SimLedger` | `ConfirmedIsRecoverable` | The receipt of an eSIM operation carries `external_channels_unknown` to its last write.  If the process ends after `clear_owned` confirmed it and before it removed the file, `evaluate` blocks the record (`recovery.rs:378`), which `recovery.rs:278` calls "a recoverable terminal record".  The device stays fenced, which is safe, until someone reviews it. |
| `MCIngestFailed`, `MCSmsIngest` | `RemovedIsStored` | The fingerprint is claimed (`sms_listener.rs:358`) before the row is inserted and not given back when the insert fails or the process ends; the next scan takes the message for a duplicate and deletes the copy. |
| `MCReassemblyCellular`, `MCMtReassembly` | `WholeMessages` | The cellular reassembler keys a group by the reference alone (`cellular_ims/sms.rs:95`), so two senders with one reference make one text; the group is "State for one in-flight concatenated (multipart) SMS" (`sms.rs:53`). |
| `MCInboxScope`, `MCNativeSmsInbox` | `RightScope` | Identity, listing and staging are separate commands (`direct_sms.rs:79`, `168`, `219`); after a card change in between, the new card's messages are kept under the old one, against "never a current-line guess for bytes left by a previous SIM" (`native_sms.rs:22`). |
| `MCInboxDelete`, `MCNativeSmsInbox` | `DeletesWhatItKept` | The storage is re-read once before a loop of deletions (`direct_sms.rs:241`); a card changed inside the loop loses the message at the same index, against "A reused storage index must not delete a later message" (`direct_sms.rs:239`). |
| `MCQueueRate`, `NotificationQueue` | `WithinRateLimit` | `rate_limit_reason` counts finished sends (`notification.rs:952`); two that pass it together exceed the "at most N messages in W seconds" of its own message. |
| `MCQueueCancel`, `NotificationQueue` | `CancelIsFinal` | `mark_notification_queue_retry` updates a row whatever its status (`db.rs:5448`): an item cancelled while it is sent comes back when the send fails, although the operator was told "Notification queue item cancelled". |
| `MCVoiceOffer`, `VoiceRouter` | `OfferedLegsOnly` | Failover takes the offer of the leg that failed when the plan has none for the next (`access_router.rs:1231`); a call of the VoWiFi endpoint, which has no cellular offer (`api/handlers.rs:5219`), goes out over cellular with VoWiFi's codecs.  The route's own comment: failover "must rebuild `StartCall` for the next leg instead of replaying the first leg's codec/payload policy" (`access_router.rs:81`). |
| `MCVoiceAutoAnswer`, `VoiceRouter` | `NoCostlyAutoAnswer` | A turn that read the old cost mode may write its permissions after the setter wrote the new ones (`access_router.rs:674`, `303`); until the next turn the cellular leg answers by itself, against "Read by the IMS adapter BEFORE it can auto-answer the network leg" (`operator.rs:213`). |

Met while reading, without a configuration: a VoWiFi registration that expires with calls up
starts a new generation and keeps the calls (`vowifi/operator.rs:729`), so a later hangup is
answered `Unavailable` and the call stays on the leg (`NoOrphan` excuses it); an `Answered` of a
re-INVITE cancels a pending transfer without a `TransferResponse` (`access_router.rs:772`); the
failed start of a cellular call leaves its entry in the session's table
(`cellular_ims/live.rs:5612`).

## 4. Proofs

`ImsRegistrationProofs` proves, for every value of the constants that satisfies the
two assumptions of `ImsRegistration` (they only type the constants):

* `TypeCorrect`, `Drained`, `CallsSurvive`, `Observed`, `Spoofed`: the five invariants of
  the run `switch`;
* `FailedForGood`: the action property of `binding`;
* `SecondFlow`: `SecondFlowNegotiated`, whatever the registrar answers;
* `NoGhost`: `GhostOnlyByOverlap`, for a registrar that honours `Require: outbound`
  (`Compliant`), its only hypothesis.  It is needed: a plain 200 to a request that says
  `Require` displaces the other contact before the line can know.

Leases run out at any moment in all of them, the identity changes at any moment, and reads
of it may fail.

The argument.  None of these invariants is inductive.  `IInv` adds:

* `GateInv`: from the close until the policy opens again, the admission is empty, and
  while a parked leg is torn down it is not admitted; the permit out during a bring-up's own
  exchange is its own.  This is why no new permit can appear between draining and dropping.
* `CallInv`: the history bit is only set where a call test is still to come.
* `ExchangeInv`: every exchange holds the permit of its leg or refreshes a flow the leg owns.
* `ObserveInv`: what was tested when the observation began is frozen by the five locks.
* `PathInv`: a leg with a flow, or with a request under way, has a path.  It is why releasing
  the legs that are up reaches everything that could register on them.
* `PermitInv`: an idle line is at no step of a transition, and cellular holds a permit only in a
  bring-up's exchange, which the transition lock keeps away from the policy.
* `SpoofInv`: a decision that saw a spoofed identity wants no cellular leg and releases the one
  that is up, all of it before it is published; from then on (`barred`) `previous`,
  which an aborted transition publishes, has no cellular leg either.

Each conjunct has a lemma with one step per action; `Inductive` combines them and the
theorems follow.

For the two flows of the line `LegInv` is inductive beside `IInv`.  Its parts:

* `RefreshInv`: an exchange without a permit refreshes a flow its leg owns, be it an expired
  one: this covers the cellular refresh and what a cancelled request leaves behind;
* `RequiredInv`: a flow that was negotiated is refreshed with `Require`;
* `PairInv`: while both legs are `Present` (have a live flow, or an exchange that may make one),
  they agree: each flow is a negotiated one and each request under way says `Require`; unless
  the legs are in `overlap`.  It speaks of an expired flow as well, which counts again
  when its refresh is answered.

`HonestInv` (a failed flow was a negotiated one, a required request is not answered plainly)
and `BoundInv` (a flow that counts, or that the answer on its way will make count, is bound,
unless its leg is in `overlap`) are then inductive with a registrar that honours `Require`: a
plain 200 can only be the answer to the request of a leg that is alone.  `LegChange` reduces a step to the leg it changes; each
action has a lemma of its own.

`SimLedgerProofs` proves the five safety properties of the run `ledger` for every set of
process instances and recoveries (the assumption only says that they are different
things): `NeverForgotten`, `HeldOnce`, `Covered`, `NeverBlind`, `RetiredSafely`, and type
correctness, `TypeCorrect`.  The inductive invariant adds to the types:

* `LockInv`: the flocks belong to the process that claims or serves, or to the recovery
  between locking and leaving, and an operation runs only in the serving process;
* `ReceiptInv`: a lease has its own unconfirmed receipt, until it removes the confirmed one;
* `RecoveryInv`: what a recovery checked under the flocks still holds when it acts;
* `HeldInv`: at most one client and channel, counting requests that are still on their
  way, and nothing at all unless the receipt is unconfirmed;
* `StepInv`: what the card and the line hold, and the connection believes, at each step
  of an operation.  Without it `HeldInv` is not inductive: that the receipt may be confirmed
  rests on where the operation stands, and that a release is safe rests on
  `channel_uncertain`.

`NotificationQueueProofs` proves `QueueAcknowledgedOnce`, `QueueAttended` (the two safety
properties of the run `queue`) and `QueueTyped` for any notifications, any finite set of
tasks and any limits.  The inductive invariant adds to the types:

* `BudgetInv`: for each notification, the acknowledged sends, the tasks between claim and
  answer, and one if an attempt may still begin, are together at most one more than the
  operator's retries.  `AcknowledgedOnce` alone is not inductive: two tasks may have read
  the same row, and only the conditional `UPDATE` of the claim keeps both from sending;
* `FirstInv`: no row and no task exists before the first attempt has ended, so the routing
  task and the worker never send the same notification;
* `TaskInv`: a task that is not idle has a notification.

`SmsIngestProofs` proves `IngestStoredOnce` (the invariant `StoredOnce` of the run `ingest`)
and `IngestTypeCorrect` for any messages, texts, deliveries, failures and restarts.
The inductive invariant says of each message, as long as deduplication was never off
(`DedupeOn`): whoever is about to store it has claimed its fingerprint, nobody else is about to
store it or has stored it (`ClaimInv`), and what is stored was claimed and is stored by one
transport (`RowInv`).  `StoredOnce` says nothing of the time between the claim and the
insert, where the only thing that keeps a second transport out is the claim.

`MtReassemblyProofs` proves `VowifiWhole` (`WholeMessages`) and `VowifiNothingHeldBack`
(`NothingHeldBack`) for any messages, totals and days, under `Leg = "vowifi"`: for the other
reassembler the first is false (`MCReassemblyCellular`).  `GroupInv` says that a group holds
parts of messages with its key and of the day it began, `HeldInv` that a message not yet
passed on is incomplete and that the group of its key holds all that came in.

`NativeSmsInboxProofs` proves, for any PDUs, encodings, retransmissions, faults and restarts:

* `InboxAcknowledges` (`AcknowledgedIsDurable`), with any cards, exchanged at any moment;
* `InboxShownOnce` (`ShownOnce`) and `InboxImplements` (`ImplementsMailbox`, the refinement of
  `SmsMailbox`), under `OneCard` (a single card) and `Dedupe`.  With two cards a message may be
  kept under the wrong one (`MCInboxScope`) or deleted although it was not kept
  (`MCInboxDelete`), and with deduplication off the code shows
  another encoding of a message on purpose.

CNMA names no message, so that it is about the right one follows from what the router
knows: `WireInv` and `QueueInv` say that a live and fresh PDU of the queue is the one the modem
waits for, with nothing unread behind it and no card change announced; `TokenInv` that a
token names one PDU in queue and batch, although the queue may change while the capture
stages; `StagedInv` that what a capture settles is durable.  With one card, `ShownInv` ties
the rows shown to the recorded fingerprints, and `DeleteInv` says that the copy about to be
deleted is one that was kept.  For the refinement `MailboxStep` shows that every step is `Keep`, `Release`, `Show`
or leaves the mailbox alone.

`NativeSmsSendProofs` proves `SendDeliveredIsTrue`: `Spec /\ []AcceptedInTime =>
[]DeliveredIsTrue`, for any messages, numbers of parts, references and faults.  `AcceptedInTime` says that
the service centre takes every part within `Doubt` (300 s) of the beginning of its message.
It is needed: the code trusts a report once 300 s have passed, and with `Doubt = 0` and a
clock that ticks TLC finds a part that was accepted, never recorded, and mistaken for the
part of another message with the same reference.  Every
instance with `MaxTime + Early <= Doubt`, such as that of `send`, satisfies it.  `Traced` is what keeps the invariant
inductive: an accepted part is recorded and then is a candidate of its report, or is about to
be recorded, or never will be, and then its message is short of a part, so that it is never
settled and makes the report doubtful.

`VoiceRouterProofs` proves the five safety properties of the run `voice` for any finite set of
calls (the router handles those of its tables), any offers and layers, any number of
lost links, changed policies and messages lost to overruns: `VoiceTypeCorrect`,
`VoiceOneLeg`, `VoiceNoOrphan`, `VoiceCostRatchet`, `VoiceCancelWins`.  The run has one call; the
theorems cover calls that share queues, links, policies and the overrun.  `VoiceInv` consists of the types,
`SessionInv` (a leg without a session has no call, and without a receiver no command), and of
a `CallInv` for each call:

* where a call can be: `Unused`, `Starts`, `Requested`, `Rings`, `HeldStart` say that an id
  that was not used, or whose first command, request or event is still waiting, is unknown
  elsewhere; `OneWay` that a call is either placed or received; `Waits` what may wait for an
  observation, and with whose route;
* for `OneLeg`: `OnOneLeg` counts a start on its way to a leg as the call itself.
  `Planned` (the legs left to try never saw the call), `StartsOnce` and `Given` (a leg whose
  "unavailable" or end is on its way, or waits for an observation, is done with the call) make it
  inductive: failover may place the call on the next leg because the first one is done;
* for `NoOrphan`: `Reached`, which counts a queued stop as well.  What it excuses is listed at its
  definition and is recorded by the step that causes it: a link lost since the call was routed,
  a refused re-INVITE (`voice_pinned`), a `Stop` skipped by the leg's receiver, an `Incoming`
  skipped by the forwarder.  `RemoveFacts` and `LostInv` say what is left of a queue that
  lost a message, wherever it stood;
* for `CostRatchet`: `Ratchet` (a route has the tightest mode its call was admitted in);
* for `CancelWins`: `Ended`.

`QuietCalls` and the frame lemmas reduce a step to the one call it is about; each
outcome of the router (`RouteStart`, `RouteControl`, `RouteEvent`, `FailOver`, ...) then has a
lemma of its own.

Only model-checked: the liveness properties (`CopiesLeave`, `ReportsCorrelate`, `AdmissionSettles`
and those of the other runs), which the prover does not handle, and the properties of the
runs in which an expected disagreement is shown.

## 5. Not modelled, and why

* SIP dialogs of the trunk bridge (beyond the commands it sends), E911, app voice: third parties' protocols; their state is a projection of
  what the other side answers.
* UE worker, TUN, ESP, network namespaces: kernel I/O.
* Modem drivers, ModemManager and D-Bus adapters, USSD: parsing of requests and answers.
* Configuration and most of the database: single statements under one mutex; those with a
  protocol around them are modelled with their users.
* Virtual SIM: its number only grows within one process and is not persisted; all
  there is to say is that the comment of `sqn.rs:3` ("persisted by the caller so a restart
  cannot replay an old SQN") has no caller that persists it.
* IMS startup gate: one flag that is set once; what it orders (restore loops) starts in
  `ImsRegistration` from a process in which everything is still to be done.
* Automation and frontend: callers of operations modelled elsewhere.

Most of the repository's lines are of these kinds; the mapped lines are the ones where an
order of steps decides about correctness.

## 6. Plan

1. (done) `ImsAccess`, `ImsRegistration`, its runs and its safety proofs.
2. (done) `SimLedger`, its runs and its safety proofs.
3. (done) Messaging: `NativeSmsInbox` refining `SmsMailbox`, `NativeSmsSend`, `SmsIngest`,
   `MtReassembly`, and `NotificationQueue` with its safety proofs.
4. (done) `VoiceRouter`.
5. (done) Proofs for the SMS modules: `StoredOnce`, `WholeMessages`, `NothingHeldBack`, `AcknowledgedIsDurable`,
   `ShownOnce`, `DeliveredIsTrue` and the refinement of `SmsMailbox` with one card.
6. (done) Proofs of `SecondFlowNegotiated` and, with a registrar that honours `Require`, of
   `GhostOnlyByOverlap`.
7. (done) The safety properties of `VoiceRouter` as theorems, for any number of calls.
8. The generation fence of the cellular runtime, the P-CSCF re-attach and the profile
   probe, composed with `ImsRegistration`.
