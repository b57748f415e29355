--------------------------- MODULE ImsRegistration ---------------------------
(***************************************************************************)
(* REGISTER admission of ONE line (ims_registration_coordinator.rs), the   *)
(* RFC 5626 flow leases it consults (outbound.rs) and the policy           *)
(* transitions that run under its transition lock (api/handlers.rs).       *)
(*                                                                         *)
(* Three kinds of actor interleave:                                        *)
(*   - the holder of transition_lock (op, pc, ...): reconcile, bring-up,   *)
(*     stop, rebuild, profile switch, exhausted restore, observation;      *)
(*   - REGISTER exchanges outside it: an SMS/voice/diagnostic helper on    *)
(*     WLAN (which needs a permit) and the protected refresh of the        *)
(*     cellular session (which does not);                                  *)
(*   - the environment: calls, settings, timers, the registrar, and the    *)
(*     teardowns that take only the leg's own locks.                       *)
(***************************************************************************)
EXTENDS ImsAccess, Naturals

CONSTANTS
  MaxChanges,  \* bound on the outside events (Kinds) one behaviour contains
  Kinds,       \* the kinds of outside event considered, a subset of AllKinds
  Preferences, \* the access preferences the profile may hold
  Spoofing,    \* the values `spoofed` may start with
  Offers,      \* may a profile offer outbound?  the values to consider
  Compliant,   \* does the registrar always honour `Require: outbound`?
  LossyNetwork \* may an answer of the registrar get lost?

AllKinds == {"call", "profile", "ready", "stop", "reset", "cancel", "candidate",
             "external", "hotplug", "ike", "identity", "store"}

ASSUME Bounds == /\ MaxChanges \in Nat /\ Preferences \subseteq Preference
                 /\ Kinds \subseteq AllKinds
ASSUME Options == /\ Spoofing \subseteq BOOLEAN /\ Offers \subseteq BOOLEAN
                  /\ {Compliant, LossyNetwork} \subseteq BOOLEAN

VARIABLES
  \* line profile and environment
  enabled,     \* legs whose intent is switched on
  preference,  \* ims_access_preference
  spoofed,     \* the SIM override holds a device identity of the user's
  ready,       \* legs with radio / retry budget left
  call,        \* a call of this line blocks an access switch
  changes,     \* environment changes so far (bounded by MaxChanges)
  \* coordinator
  admission,   \* admission and observation.applied: legs that may register
  deferred,    \* switch_deferred_for_call
  rejected,    \* legs inside their outbound_rejected_until cooldown
  backoff,     \* legs whose recovery retry_at lies in the future
  permit,      \* leg of the RegistrationPermit in existence, or "none"
  lease,       \* leg -> the FlowLease its Weak reference upgrades to
  \* access legs
  up,          \* legs whose bearer / ePDG path is up
  leg,         \* leg -> holder of its bearer/connect locks
  ike,         \* a host bring-up outside the transition lock is running
  \* REGISTER exchanges
  phase,       \* leg -> progress of the REGISTER exchange on it
  required,    \* legs whose request says Require: outbound
  offered,     \* legs whose request says Supported: outbound
  bound,       \* legs whose contact the registrar holds
  \* holder of transition_lock
  op, pc, target, desired, previous, release,
  early,       \* history: the call was up before the leg lock was granted
  saw,         \* history: the decision being applied saw a spoofed identity
  \* history of the line
  barred,      \* a decision that saw a spoofed identity was published, and
               \* none that does not see it has been taken since
  overlap      \* legs whose flows may not know of each other (see Overlaps)

profileVars == <<enabled, preference, spoofed, ready>>
coordVars   == <<admission, deferred, rejected, backoff>>
exchVars    == <<phase, required, offered>>
txVars      == <<op, pc, target, desired, previous, release, early, saw>>
histVars    == <<barred, overlap>>
vars == <<profileVars, call, changes, coordVars, permit, lease, up, leg, ike,
          exchVars, bound, txVars, histVars>>

Ops     == {"idle", "reconcile", "bringup", "stop", "rebuild", "switch",
            "exhaust", "observe"}
Pcs     == {"idle", "decide", "gate", "close", "recheck", "take", "check",
            "drop", "restore", "open", "connect", "path", "register",
            "exchange", "after", "callgate", "park", "parktake", "parkdrop",
            "observe"}
LegPcs  == {"connect", "path", "register", "exchange", "after", "callgate", "park",
            "parktake", "parkdrop"}   \* the steps that work on `target`
Phases  == {"idle", "admitted", "sent", "outbound", "plain", "partial",
            "refused", "cut"}
Lease   == [st : {"none", "live", "expired", "failed"}, neg : BOOLEAN, ok : BOOLEAN]
NoLease == [st |-> "none", neg |-> FALSE, ok |-> FALSE]

-----------------------------------------------------------------------------
(* Flow leases and the coordinator's gates.                                *)

Live(a)   == lease[a].st = "live"
Owned(a)  == lease[a].st # "none"
Proven(a) == Live(a) /\ lease[a].neg /\ lease[a].ok

\* concurrent_support() = Negotiated
Negotiated == \E a \in Access : Live(a) /\ lease[a].neg

MultipleRegistrationBlocked == rejected # {}

RecoveryReady(a) == a \notin backoff

AdditionalFlowReady(a) ==
  /\ RecoveryReady(a)
  /\ Live(Opposite(a)) => Proven(Opposite(a)) /\ a \notin rejected

RegistrationCandidateReady(a) ==
  IF preference = "concurrent" /\ Negotiated /\ ~MultipleRegistrationBlocked
  THEN AdditionalFlowReady(a)
  ELSE RecoveryReady(a)

\* The tests of `admit` once its locks are held.
AdmitOk(a) ==
  /\ a \in admission
  /\ \/ Live(a)
     \/ /\ RecoveryReady(a)
        /\ AdditionalFlowReady(a)
        /\ admission = Access => Negotiated /\ ~MultipleRegistrationBlocked

\* The runtime snapshots `decide` is fed with: the cellular snapshot stays
\* Registered until the session's owner notices the loss, the WLAN one follows
\* the lease.
Registered == {a \in Access : IF a = "cellular" THEN Owned(a) ELSE Live(a)}

\* `seen` is what the read of the override store says of the identity.
DecisionInputs(assumed, seen) ==
  [enabled    |-> enabled,
   available  |-> {a \in Access : /\ RegistrationCandidateReady(a)
                                  /\ a \in ready \/ a = assumed},
   registered |-> Registered,
   spoofed    |-> seen,
   preference |-> preference,
   negotiated |-> Negotiated,
   blocked    |-> MultipleRegistrationBlocked]

Decision(assumed, seen) == Decide(DecisionInputs(assumed, seen))

\* Mutant: the admission is replaced without draining the REGISTER in flight.
WriteFree_NoDrain == TRUE

\* The admission write lock excludes every permit's read guard.
WriteFree == permit = "none"

\* An outside event: what is bounded so that TLC terminates.
Outside(kind) == kind \in Kinds /\ changes < MaxChanges /\ changes' = changes + 1

\* Mutant: the identity is remembered from when the process started.
ReadsIdentity_Remembered(seen) == ~seen /\ UNCHANGED changes

\* line_device_identity_spoofed reads the store at every decision; a read that
\* fails says that the identity is the modem's own.
ReadsIdentity(seen) ==
  \/ seen = spoofed /\ UNCHANGED changes
  \/ spoofed /\ ~seen /\ Outside("store")

-----------------------------------------------------------------------------
TypeOK ==
  /\ enabled \subseteq Access /\ preference \in Preference /\ spoofed \in BOOLEAN
  /\ ready \subseteq Access /\ call \in BOOLEAN /\ changes \in 0..MaxChanges
  /\ admission \subseteq Access /\ deferred \in BOOLEAN
  /\ rejected \subseteq Access /\ backoff \subseteq Access
  /\ permit \in Access \cup {"none"}
  /\ lease \in [Access -> Lease]
  /\ up \subseteq Access /\ leg \in [Access -> {"free", "tx", "ext"}] /\ ike \in BOOLEAN
  /\ phase \in [Access -> Phases]
  /\ required \subseteq Access /\ offered \subseteq Access /\ bound \subseteq Access
  /\ op \in Ops /\ pc \in Pcs /\ target \in Access \cup {"none"}
  /\ desired \subseteq Access /\ previous \subseteq Access /\ release \subseteq Access
  /\ early \in BOOLEAN /\ saw \in BOOLEAN
  /\ barred \in BOOLEAN /\ overlap \subseteq Access
  /\ pc \in LegPcs => target \in Access

\* A freshly started process: nothing admitted ("ims_access_not_reconciled"),
\* no path, no flow; the stored profile is arbitrary.
Init ==
  /\ enabled \in SUBSET Access /\ preference \in Preferences /\ spoofed \in Spoofing
  /\ ready = Access /\ call = FALSE /\ changes = 0
  /\ admission = {} /\ deferred = FALSE /\ rejected = {} /\ backoff = {}
  /\ permit = "none" /\ lease = [a \in Access |-> NoLease]
  /\ up = {} /\ leg = [a \in Access |-> "free"] /\ ike = FALSE
  /\ phase = [a \in Access |-> "idle"]
  /\ required = {} /\ offered = {} /\ bound = {}
  /\ op = "idle" /\ pc = "idle" /\ target = "none"
  /\ desired = {} /\ previous = {} /\ release = {} /\ early = FALSE /\ saw = FALSE
  /\ barred = FALSE /\ overlap = {}

-----------------------------------------------------------------------------
(* Taking and releasing transition_lock.                                   *)

Start(o, p, a) ==
  /\ op = "idle"
  /\ op' = o /\ pc' = p /\ target' = a
  /\ desired' = {} /\ previous' = {} /\ release' = {}
  /\ early' = FALSE /\ saw' = FALSE

\* The policy has answered: its locals and the leg lock it holds are dropped.
LeavePolicy ==
  /\ desired' = {} /\ previous' = {} /\ release' = {}
  /\ early' = FALSE /\ saw' = FALSE
  /\ leg' = [a \in Access |-> IF leg[a] = "tx" THEN "free" ELSE leg[a]]

\* transition_lock is dropped as well.
EndTx == op' = "idle" /\ pc' = "idle" /\ target' = "none" /\ LeavePolicy

Goto(p) == pc' = p /\ UNCHANGED <<op, target, desired, previous, release, early,
                                  saw>>

\* reconcile_line_ims_access_policy, from the ten-second loop or a setting.
BeginReconcile ==
  /\ Start("reconcile", "decide", "none")
  /\ UNCHANGED <<profileVars, call, changes, coordVars, permit, lease, up, leg, ike,
                 exchVars, bound, histVars>>

\* connect_vowifi_on_line / run_line_cellular_ims_restore_round.
BeginBringUp(a) ==
  /\ a \in enabled
  /\ Start("bringup", "decide", a)
  /\ UNCHANGED <<profileVars, call, changes, coordVars, permit, lease, up, leg, ike,
                 exchVars, bound, histVars>>

\* The explicit stops and the VoWiFi configuration update (which keeps the
\* intent): they park the leg and tear it down.
BeginStop(a, disable) ==
  /\ a = "cellular" => disable
  /\ Outside("stop")
  /\ Start("stop", "park", a)
  /\ enabled' = IF disable THEN enabled \ {a} ELSE enabled
  /\ UNCHANGED <<preference, spoofed, ready, call, coordVars, permit, lease, up,
                 leg, ike, exchVars, bound, histVars>>

\* spawn_pending_vowifi_rebuild, a profile switch, an exhausted restore.
BeginWlanReset(o) ==
  /\ o \in {"rebuild", "switch", "exhaust"} /\ "wlan" \in enabled
  /\ o = "rebuild" => Owned("wlan")
  /\ Outside("reset")
  /\ Start(o, "callgate", "wlan")
  /\ UNCHANGED <<profileVars, call, coordVars, permit, lease, up, leg, ike,
                 exchVars, bound, histVars>>

-----------------------------------------------------------------------------
(* apply_line_ims_access_policy_locked, one step per await.                *)

\* Mutant: a reconcile goes on as if it had been asked for a leg.
PolicyReturns_AnyCaller(permitted) ==
  /\ pc' = IF op = "bringup" THEN "connect" ELSE "park"
  /\ UNCHANGED <<op, target>> /\ LeavePolicy

\* The caller's continuation once the policy has answered `permitted`.
PolicyReturns(permitted) ==
  IF permitted /\ op \in {"bringup", "rebuild", "switch"}
  THEN /\ pc' = IF op = "bringup" THEN "connect" ELSE "park"
       /\ UNCHANGED <<op, target>> /\ LeavePolicy
  ELSE EndTx

\* Mutant: publishing a decision does not clear the deferral.
Publish_KeepsDeferral(decision, defer) ==
  /\ WriteFree
  /\ admission' = decision /\ deferred' = (deferred \/ defer)
  /\ UNCHANGED <<rejected, backoff>>

\* publish: waits for the permits, then replaces admission and deferral.
Publish(decision, defer) ==
  /\ WriteFree
  /\ admission' = decision /\ deferred' = defer
  /\ UNCHANGED <<rejected, backoff>>

\* Release a leg's session, path and registrar contact.  An exchange that is
\* still running on it loses its path.
Teardown(a) ==
  /\ lease' = [lease EXCEPT ![a] = NoLease]
  /\ up' = up \ {a} /\ bound' = bound \ {a}
  /\ phase' = [phase EXCEPT ![a] = IF permit = a THEN "cut" ELSE "idle"]
  /\ required' = required \ {a} /\ offered' = offered \ {a}
  /\ overlap' = overlap \ {a}

\* desired, previous and the legs to release, from one set of snapshots.
PolicyDecide ==
  /\ pc = "decide"
  /\ \E seen \in BOOLEAN :
       /\ ReadsIdentity(seen)
       /\ desired' = Decision(target, seen)
       /\ release' = LegsToRelease(Decision(target, seen), up)
       /\ saw' = seen /\ barred' = (barred /\ seen)
  /\ previous' = admission
  /\ pc' = "gate"
  /\ UNCHANGED <<profileVars, call, coordVars, permit, lease, up, leg, ike,
                 exchVars, bound, op, target, early, overlap>>

\* A switch waits for the line's calls; the old leg keeps its admission.
PolicyGate ==
  /\ pc = "gate"
  /\ IF release # {} /\ call
     THEN deferred' = TRUE /\ PolicyReturns(target \in previous)
     ELSE /\ Goto(IF release # {} THEN "close" ELSE "open")
          /\ UNCHANGED <<deferred, leg>>
  /\ UNCHANGED <<profileVars, call, changes, admission, rejected, backoff, permit,
                 lease, up, ike, exchVars, bound, histVars>>

\* publish(none): waits for the REGISTER in flight, admits no other.
PolicyClose ==
  /\ pc = "close"
  /\ Publish({}, FALSE)
  /\ Goto("recheck")
  /\ UNCHANGED <<profileVars, call, changes, permit, lease, up, leg, ike, exchVars,
                 bound, histVars>>

PolicyRecheck ==
  /\ pc = "recheck"
  /\ Goto(IF call THEN "restore" ELSE "take")
  /\ UNCHANGED <<profileVars, call, changes, coordVars, permit, lease, up, leg, ike,
                 exchVars, bound, histVars>>

\* The legs are released in the order of legs_to_release.
NextLeg == IF "cellular" \in release THEN "cellular" ELSE "wlan"

PolicyTakeLeg ==
  /\ pc = "take" /\ leg[NextLeg] = "free"
  /\ leg' = [leg EXCEPT ![NextLeg] = "tx"]
  /\ early' = call
  /\ pc' = "check" /\ UNCHANGED <<op, target, desired, previous, release, saw>>
  /\ UNCHANGED <<profileVars, call, changes, coordVars, permit, lease, up, ike,
                 exchVars, bound, histVars>>

\* Mutant: the call test is not repeated under the leg lock.
PolicyCheckCall_Trusting ==
  /\ pc = "check"
  /\ Goto("drop")
  /\ UNCHANGED <<profileVars, call, changes, coordVars, permit, lease, up, leg, ike,
                 exchVars, bound, histVars>>

\* The call test repeated once the leg is locked.
PolicyCheckCall ==
  /\ pc = "check"
  /\ Goto(IF call THEN "restore" ELSE "drop")
  /\ UNCHANGED <<profileVars, call, changes, coordVars, permit, lease, up, leg, ike,
                 exchVars, bound, histVars>>

\* Mutant: a released leg is not taken off the list.
PolicyDropLeg_Repeats ==
  /\ pc = "drop"
  /\ Teardown(NextLeg)
  /\ pc' = "take"
  /\ leg' = [leg EXCEPT ![NextLeg] = "free"] /\ early' = FALSE
  /\ UNCHANGED <<profileVars, call, changes, coordVars, permit, ike, op, target,
                 desired, previous, release, barred, saw>>

PolicyDropLeg ==
  /\ pc = "drop"
  /\ Teardown(NextLeg)
  /\ release' = release \ {NextLeg}
  /\ pc' = IF release = {NextLeg} THEN "open" ELSE "take"
  /\ leg' = [leg EXCEPT ![NextLeg] = "free"] /\ early' = FALSE
  /\ UNCHANGED <<profileVars, call, changes, coordVars, permit, ike, op, target,
                 desired, previous, barred, saw>>

\* A call turned up: publish(previous) and defer, under whatever leg lock is held.
PolicyRestore ==
  /\ pc = "restore"
  /\ Publish(previous, TRUE)
  /\ PolicyReturns(target \in previous)
  /\ UNCHANGED <<profileVars, call, changes, permit, lease, up, ike, exchVars,
                 bound, histVars>>

\* Mutant: the decision taken before the transition is published again.
PolicyOpen_Stale ==
  /\ pc = "open"
  /\ Publish(previous, FALSE)
  /\ PolicyReturns(target \in previous)
  /\ barred' = saw
  /\ UNCHANGED <<profileVars, call, changes, permit, lease, up, ike, exchVars,
                 bound, overlap>>

PolicyOpen ==
  /\ pc = "open"
  /\ Publish(desired, FALSE)
  /\ PolicyReturns(target \in desired)
  /\ barred' = saw
  /\ UNCHANGED <<profileVars, call, changes, permit, lease, up, ike, exchVars,
                 bound, overlap>>

-----------------------------------------------------------------------------
(* The paths that park WLAN or cellular and tear the leg down.             *)

\* The guards the resets test before they touch the admission.
WlanResetGate ==
  /\ pc = "callgate"
  /\ IF call \/ (op = "exhaust" /\ Live("wlan"))
     THEN EndTx /\ deferred' = (deferred \/ op = "switch")
     ELSE /\ Goto(IF op = "exhaust" THEN "park" ELSE "decide")
          /\ UNCHANGED <<deferred, leg>>
  /\ UNCHANGED <<profileVars, call, changes, admission, rejected, backoff, permit,
                 lease, up, ike, exchVars, bound, histVars>>

Park ==
  /\ pc = "park"
  /\ Publish(admission \ {target}, FALSE)
  /\ Goto("parktake")
  /\ UNCHANGED <<profileVars, call, changes, permit, lease, up, leg, ike, exchVars,
                 bound, histVars>>

ParkTakeLeg ==
  /\ pc = "parktake" /\ leg[target] = "free"
  /\ leg' = [leg EXCEPT ![target] = "tx"]
  /\ early' = call
  /\ pc' = "parkdrop" /\ UNCHANGED <<op, target, desired, previous, release, saw>>
  /\ UNCHANGED <<profileVars, call, changes, coordVars, permit, lease, up, ike,
                 exchVars, bound, histVars>>

\* An exhausted restore also marks WLAN as having no budget left.
ParkDropLeg ==
  /\ pc = "parkdrop"
  /\ Teardown(target)
  /\ ready' = IF op = "exhaust" THEN ready \ {target} ELSE ready
  /\ EndTx
  /\ UNCHANGED <<enabled, preference, spoofed, call, changes, coordVars, permit,
                 ike, barred>>

-----------------------------------------------------------------------------
(* Bring-up of the target leg, under the transition lock.                  *)

\* WLAN only tries its connect lock (and may find a fresh registration); the
\* remains of an expired session may be reset first.  Cellular waits for bearer
\* and connect lock, and gives up if its intent was switched off meanwhile.
Connect ==
  /\ pc = "connect"
  /\ \/ /\ leg[target] = "free" /\ (target = "cellular" => target \in enabled)
        /\ leg' = [leg EXCEPT ![target] = "tx"]
        /\ Goto(IF target = "wlan" THEN "path" ELSE "register")
        /\ \/ UNCHANGED <<lease, up, exchVars, bound, overlap>>
           \/ target = "wlan" /\ Owned("wlan") /\ ~Live("wlan") /\ Teardown("wlan")
     \/ /\ IF target = "wlan" THEN leg["wlan"] # "free" \/ Live("wlan")
           ELSE leg["cellular"] = "free" /\ "cellular" \notin enabled
        /\ EndTx /\ UNCHANGED <<lease, up, exchVars, bound, overlap>>
  /\ UNCHANGED <<profileVars, call, changes, coordVars, permit, ike, barred>>

\* IKE/ESP for WLAN, before the REGISTER asks for admission.
BringUpPath(ok) ==
  /\ pc = "path"
  /\ up' = IF ok THEN up \cup {"wlan"} ELSE up
  /\ Goto(IF ok THEN "register" ELSE "after")
  /\ UNCHANGED <<profileVars, call, changes, coordVars, permit, lease, leg, ike,
                 exchVars, bound, histVars>>

\* The exchange can still change the flow of its leg.
Running(a) == phase[a] \notin {"idle", "cut"}

\* A leg without a flow that counts goes on while the other leg's lease has run
\* out under the very exchange that would renew it: neither lease shows the other
\* leg the flow that is about to be made.
Overlaps(a) ==
  /\ lease[a].st \in {"none", "expired"}
  /\ lease[Opposite(a)].st = "expired" /\ Running(Opposite(a))

\* History: from here on both flows are in doubt, until their leases are dropped.
Overlapping(a) == overlap' = IF Overlaps(a) THEN Access ELSE overlap

\* admit(target); an existing cellular session is returned as it is.
RequestPermit ==
  /\ pc = "register" /\ permit = "none"
  /\ target = "wlan" => phase["wlan"] = "idle"
  /\ IF AdmitOk(target) /\ ~(target = "cellular" /\ Owned(target))
     THEN /\ permit' = target
          /\ phase' = [phase EXCEPT ![target] = "admitted"]
          /\ Overlapping(target)
          /\ Goto("exchange")
     ELSE Goto("after") /\ UNCHANGED <<permit, phase, overlap>>
  /\ UNCHANGED <<profileVars, call, changes, coordVars, lease, up, leg, ike,
                 required, offered, bound, barred>>

FinishBringUp ==
  /\ pc = "after"
  /\ EndTx
  /\ UNCHANGED <<profileVars, call, changes, coordVars, permit, lease, up, ike,
                 exchVars, bound, histVars>>

\* The last attempt failed: WLAN is reset and, with the cellular fallback, out of
\* budget.  Refreshing a registration that still holds spares a line with a call.
GiveUp(fallback) ==
  /\ pc = "after" /\ target = "wlan"
  /\ Live("wlan") => ~call
  /\ Teardown("wlan")
  /\ ready' = IF fallback THEN ready \ {"wlan"} ELSE ready
  /\ EndTx
  /\ UNCHANGED <<enabled, preference, spoofed, call, changes, coordVars, permit,
                 ike, barred>>

\* The next profile candidate: the failed one's resources are released first.
\* Cellular asks the policy again (the read of the identity may fail), without
\* closing any admission, and takes the leg's locks anew.
NextCandidate ==
  /\ pc = "after" /\ ~Live(target)
  /\ target = "cellular" =>
       \E seen \in {spoofed, FALSE} : target \in Decision(target, seen)
  /\ Outside("candidate")
  /\ Teardown(target)
  /\ IF target = "wlan" THEN Goto("path") /\ UNCHANGED leg
     ELSE Goto("connect") /\ leg' = [leg EXCEPT ![target] = "free"]
  /\ UNCHANGED <<profileVars, call, coordVars, permit, ike, barred>>

\* The HTTP request whose handler awaits a WLAN bring-up goes away: its future
\* is dropped at an await and with it every guard it holds.  A refresh goes on
\* in the operator task that owns the channel, now without a permit.
CancelBringUp ==
  /\ op = "bringup" /\ target = "wlan"
  /\ Outside("cancel")
  /\ EndTx
  /\ permit' = IF pc = "exchange" THEN "none" ELSE permit
  /\ IF pc = "exchange" /\ ~(Owned("wlan") /\ phase["wlan"] # "cut")
     THEN /\ phase' = [phase EXCEPT !["wlan"] = "idle"]
          /\ required' = required \ {"wlan"} /\ offered' = offered \ {"wlan"}
     ELSE UNCHANGED exchVars
  /\ UNCHANGED <<profileVars, call, coordVars, lease, up, ike, bound, histVars>>

-----------------------------------------------------------------------------
(* Read-only observation of the modem's own IMS state.                     *)

\* Mutant: flows still owned are not looked at.
ObservationAllowed_IgnoresFlows ==
  /\ permit = "none" /\ ~ike /\ admission = {}
  /\ \A a \in Access : leg[a] = "free"

\* try_native_observation: every lock is tried and no host activity is left.
ObservationAllowed ==
  /\ permit = "none" /\ ~ike /\ admission = {}
  /\ \A a \in Access : leg[a] = "free" /\ ~Owned(a)

BeginObserve ==
  /\ ObservationAllowed
  /\ Start("observe", "observe", "none")
  /\ leg' = [a \in Access |-> "tx"]
  /\ UNCHANGED <<profileVars, call, changes, coordVars, permit, lease, up, ike,
                 exchVars, bound, histVars>>

EndObserve ==
  /\ pc = "observe"
  /\ EndTx
  /\ UNCHANGED <<profileVars, call, changes, coordVars, permit, lease, up, ike,
                 exchVars, bound, histVars>>

-----------------------------------------------------------------------------
(* REGISTER exchanges.                                                     *)

\* SMS, voice and stage diagnostics register WLAN without the transition lock.
\* The operator task runs one exchange at a time.
HelperAdmit ==
  /\ permit = "none" /\ op # "observe" /\ "wlan" \in up /\ phase["wlan"] = "idle"
  /\ AdmitOk("wlan")
  /\ permit' = "wlan"
  /\ phase' = [phase EXCEPT !["wlan"] = "admitted"]
  /\ Overlapping("wlan")
  /\ UNCHANGED <<profileVars, call, changes, coordVars, lease, up, leg, ike,
                 required, offered, bound, barred, txVars>>

\* The protected refresh of the cellular session passes no admission gate.
CellularRefresh ==
  /\ Live("cellular") /\ phase["cellular"] = "idle" /\ permit # "cellular"
  /\ phase' = [phase EXCEPT !["cellular"] = "admitted"]
  /\ UNCHANGED <<profileVars, call, changes, coordVars, permit, lease, up, leg, ike,
                 required, offered, bound, histVars, txVars>>

\* connect_live_for_line raises the IMS bearer after it has been admitted.
BearerUp ==
  /\ permit = "cellular" /\ phase["cellular"] = "admitted"
  /\ up' = up \cup {"cellular"}
  /\ UNCHANGED <<profileVars, call, changes, coordVars, permit, lease, leg, ike,
                 exchVars, bound, histVars, txVars>>

\* The exchange is over: the permit, if it had one, is dropped.
EndExchange(a) ==
  /\ phase' = [phase EXCEPT ![a] = "idle"]
  /\ required' = required \ {a} /\ offered' = offered \ {a}
  /\ IF permit = a
     THEN /\ permit' = "none"
          /\ IF pc = "exchange" THEN Goto("after") ELSE UNCHANGED txVars
     ELSE UNCHANGED <<permit, txVars>>

\* The flow was bound with outbound before; its refresh must be, too.
BoundOutbound(a) == Owned(a) /\ lease[a].neg

\* Mutant: the other leg's flow is not looked at.
RequiresOutbound_OwnFlowOnly(a) == BoundOutbound(a)

\* additional_flow_requires_outbound, or an outbound refresh.
RequiresOutbound(a) == BoundOutbound(a) \/ Live(Opposite(a))

\* OutboundFlow::prepare; `offers` is the profile's switch.
Prepare(a, offers) ==
  LET require == RequiresOutbound(a)
      offer   == BoundOutbound(a) \/ (offers /\ a \notin rejected)
  IN  /\ phase[a] = "admitted" /\ a \in up
      /\ Overlapping(a)
      /\ IF require /\ ~offer
         THEN rejected' = rejected \cup {a} /\ EndExchange(a)
         ELSE /\ phase' = [phase EXCEPT ![a] = "sent"]
              /\ required' = IF require THEN required \cup {a} ELSE required \ {a}
              /\ offered' = IF offer THEN offered \cup {a} ELSE offered \ {a}
              /\ UNCHANGED <<rejected, permit, txVars>>
      /\ UNCHANGED <<profileVars, call, changes, admission, deferred, backoff,
                     lease, up, leg, ike, bound, barred>>

\* The answers a registrar gives to a request.  One that honours Require keeps
\* both contacts or refuses; a plain 200 keeps only the contact it answers, as
\* does one that claims outbound without completing the negotiation.
Answers(a) ==
  (IF a \in offered THEN {"outbound", "refused"} ELSE {})
    \cup (IF a \notin required \/ ~Compliant THEN {"plain"} ELSE {})
    \cup (IF Compliant THEN {} ELSE {"partial"})

Registrar(a) ==
  /\ phase[a] = "sent"
  /\ \E answer \in Answers(a) :
       /\ phase' = [phase EXCEPT ![a] = answer]
       /\ bound' = CASE answer = "outbound" -> bound \cup {a}
                     [] answer \in {"plain", "partial"} -> {a}
                     [] OTHER -> bound
  /\ UNCHANGED <<profileVars, call, changes, coordVars, permit, lease, up, leg, ike,
                 required, offered, txVars, histVars>>

Failed(l) == IF l.st = "none" THEN l ELSE [l EXCEPT !.st = "failed", !.ok = FALSE]

\* Mutant: the answer to a refresh revives a flow that failed meanwhile.
Renewed_Revives(l, neg, ok) == [st |-> "live", neg |-> neg, ok |-> ok]

\* A 200 OK renews a lease; a failed flow stays failed.
Renewed(l, neg, ok) ==
  IF l.st = "failed" THEN l ELSE [st |-> "live", neg |-> neg, ok |-> ok]

\* OutboundFlow::received_sip and ::registered.  `noNat` is the exemption that
\* proves the flow without a keepalive.
Receive(a, noNat) ==
  /\ \/ /\ phase[a] = "refused"
        /\ rejected' = rejected \cup {a} /\ UNCHANGED <<lease, backoff>>
     \/ /\ phase[a] = "partial" \/ (phase[a] = "plain" /\ a \in required)
        /\ rejected' = rejected \cup {a}
        /\ lease' = [b \in Access |-> Failed(lease[b])]
        /\ UNCHANGED backoff
     \/ /\ phase[a] = "plain" /\ a \notin required
        /\ lease' = [lease EXCEPT ![a] = Renewed(@, FALSE, @.ok)]
        /\ UNCHANGED <<rejected, backoff>>
     \/ /\ phase[a] = "outbound"
        /\ lease' = [lease EXCEPT ![a] = Renewed(@, TRUE, noNat \/ @.ok)]
        /\ backoff' = IF noNat /\ lease[a].st # "failed" THEN backoff \ {a} ELSE backoff
        /\ UNCHANGED rejected
  /\ EndExchange(a)
  /\ UNCHANGED <<profileVars, call, changes, admission, deferred, up, leg, ike,
                 bound, histVars>>

\* A timeout or any other failure before the answer is accepted.
Lose(a) ==
  /\ phase[a] \in {"admitted", "sent", "cut"} \/ (LossyNetwork /\ phase[a] # "idle")
  /\ EndExchange(a)
  /\ UNCHANGED <<profileVars, call, changes, coordVars, lease, up, leg, ike, bound,
                 histVars>>

-----------------------------------------------------------------------------
(* Flow maintenance: keepalives, expiry and the loss of a session.         *)

\* A keepalive answer validates the flow and clears its recovery backoff.
Pong(a) ==
  /\ Live(a) /\ lease[a].neg
  /\ lease' = [lease EXCEPT ![a].ok = TRUE]
  /\ backoff' = backoff \ {a}
  /\ UNCHANGED <<profileVars, call, changes, admission, deferred, rejected, permit,
                 up, leg, ike, exchVars, bound, histVars, txVars>>

\* healthy_until passes before the next keepalive is answered.
HealthLapses(a) ==
  /\ Proven(a)
  /\ lease' = [lease EXCEPT ![a].ok = FALSE]
  /\ UNCHANGED <<profileVars, call, changes, coordVars, permit, up, leg, ike,
                 exchVars, bound, histVars, txVars>>

\* OutboundFlow::fail: the keepalive timed out or the mapping changed.
FlowFail(a) ==
  /\ lease[a].st \in {"live", "expired"} /\ lease[a].neg
  /\ lease' = [lease EXCEPT ![a] = Failed(@)]
  /\ backoff' = backoff \cup {a}
  /\ UNCHANGED <<profileVars, call, changes, admission, deferred, rejected, permit,
                 up, leg, ike, exchVars, bound, histVars, txVars>>

\* The lease runs out, at the registrar too unless it has just been refreshed.
\* It may do so under its own refresh, which looks at the remaining lifetime only
\* when it starts.  Its health no longer counts; a later answer may restore it.
Expire(a) ==
  /\ Live(a)
  /\ lease' = [lease EXCEPT ![a].st = "expired", ![a].ok = FALSE]
  /\ bound' = IF phase[a] \in {"outbound", "plain", "partial"} THEN bound ELSE bound \ {a}
  /\ UNCHANGED <<profileVars, call, changes, coordVars, permit, up, leg, ike,
                 exchVars, txVars, histVars>>

\* The owner of a failed or expired flow drops it; losing the cellular session
\* releases its bearer, the ePDG path may survive the WLAN one.
SessionLoss(a, path) ==
  /\ lease[a].st \in {"failed", "expired"} /\ phase[a] = "idle" /\ permit # a
  /\ a = "cellular" => ~path
  /\ lease' = [lease EXCEPT ![a] = NoLease]
  /\ up' = IF path THEN up ELSE up \ {a}
  /\ bound' = bound \ {a} /\ overlap' = overlap \ {a}
  /\ UNCHANGED <<profileVars, call, changes, coordVars, permit, leg, ike, exchVars,
                 txVars, barred>>

BackoffElapses(a) ==
  /\ a \in backoff /\ backoff' = backoff \ {a}
  /\ UNCHANGED <<profileVars, call, changes, admission, deferred, rejected, permit,
                 lease, up, leg, ike, exchVars, bound, histVars, txVars>>

CooldownElapses(a) ==
  /\ a \in rejected /\ rejected' = rejected \ {a}
  /\ UNCHANGED <<profileVars, call, changes, admission, deferred, backoff, permit,
                 lease, up, leg, ike, exchVars, bound, histVars, txVars>>

-----------------------------------------------------------------------------
(* Environment: calls, settings, and what runs outside transition_lock.    *)

CallStart ==
  /\ ~call /\ call' = TRUE /\ Outside("call")
  /\ UNCHANGED <<profileVars, coordVars, permit, lease, up, leg, ike, exchVars,
                 bound, histVars, txVars>>

CallEnd ==
  /\ call /\ call' = FALSE /\ early' = FALSE
  /\ UNCHANGED <<profileVars, changes, coordVars, permit, lease, up, leg, ike,
                 exchVars, bound, histVars, op, pc, target, desired, previous,
                 release, saw>>

SetProfile(e, p) ==
  /\ e \subseteq Access /\ p \in Preferences /\ <<e, p>> # <<enabled, preference>>
  /\ enabled' = e /\ preference' = p /\ Outside("profile")
  /\ UNCHANGED <<spoofed, ready, call, coordVars, permit, lease, up, leg, ike,
                 exchVars, bound, histVars, txVars>>

\* patch_ims_override_handler, delete_ims_override_handler: the override is
\* saved; no transition is started for it.
SetIdentity ==
  /\ spoofed' = ~spoofed /\ Outside("identity")
  /\ UNCHANGED <<enabled, preference, ready, call, coordVars, permit, lease, up,
                 leg, ike, exchVars, bound, histVars, txVars>>

SetReady(r) ==
  /\ r \subseteq Access /\ r # ready
  /\ ready' = r /\ Outside("ready")
  /\ UNCHANGED <<enabled, preference, spoofed, call, coordVars, permit, lease, up,
                 leg, ike, exchVars, bound, histVars, txVars>>

\* Flight mode, roaming, profile selection, recalibration and hotplug tear the
\* cellular leg down under its bearer and connect locks alone.
ExternalTakeLeg ==
  /\ leg["cellular"] = "free" /\ Outside("external")
  /\ leg' = [leg EXCEPT !["cellular"] = "ext"]
  /\ UNCHANGED <<profileVars, call, coordVars, permit, lease, up, ike, exchVars,
                 bound, histVars, txVars>>

ExternalDropLeg ==
  /\ leg["cellular"] = "ext"
  /\ Teardown("cellular")
  /\ leg' = [leg EXCEPT !["cellular"] = "free"]
  /\ UNCHANGED <<profileVars, call, changes, coordVars, permit, ike, txVars,
                 barred>>

\* suspend_line_runtime_for_hotplug resets VoWiFi under no lock but the shared
\* host-activity guard.
HotplugReset ==
  /\ op # "observe" /\ "wlan" \in up /\ Outside("hotplug")
  /\ Teardown("wlan")
  /\ UNCHANGED <<profileVars, call, coordVars, permit, leg, ike, txVars, barred>>

\* A stage diagnostic runs IKE on its own, holding host_activity.
HelperIke ==
  /\ ~ike /\ op # "observe" /\ Outside("ike") /\ ike' = TRUE
  /\ UNCHANGED <<profileVars, call, coordVars, permit, lease, up, leg, exchVars,
                 bound, histVars, txVars>>

HelperIkeDone(ok) ==
  /\ ike /\ ike' = FALSE
  /\ up' = IF ok THEN up \cup {"wlan"} ELSE up
  /\ UNCHANGED <<profileVars, call, changes, coordVars, permit, lease, leg,
                 exchVars, bound, histVars, txVars>>

-----------------------------------------------------------------------------
PolicyStep == \/ PolicyDecide \/ PolicyGate \/ PolicyRecheck \/ PolicyTakeLeg
              \/ PolicyCheckCall \/ PolicyDropLeg
WriteStep  == PolicyClose \/ PolicyRestore \/ PolicyOpen \/ Park
ParkStep   == WlanResetGate \/ ParkTakeLeg \/ ParkDropLeg
BringUpStep == \/ Connect \/ RequestPermit \/ FinishBringUp
               \/ \E b \in BOOLEAN : BringUpPath(b) \/ GiveUp(b)
ExchangeStep(a) == \/ \E offers \in Offers : Prepare(a, offers)
                   \/ \E noNat \in BOOLEAN : Receive(a, noNat)
                   \/ Registrar(a) \/ Lose(a)

Requests ==
  \/ \E a \in Access : BeginBringUp(a) \/ \E d \in BOOLEAN : BeginStop(a, d)
  \/ \E o \in Ops : BeginWlanReset(o)
  \/ BeginObserve \/ CancelBringUp \/ NextCandidate

FlowStep(a) == \/ Pong(a) \/ HealthLapses(a) \/ FlowFail(a) \/ Expire(a)
               \/ \E p \in BOOLEAN : SessionLoss(a, p)

Environment ==
  \/ CallStart
  \/ \E e \in SUBSET Access, p \in Preferences : SetProfile(e, p)
  \/ \E r \in SUBSET Access : SetReady(r)
  \/ SetIdentity \/ ExternalTakeLeg \/ HotplugReset \/ HelperIke

Next ==
  \/ BeginReconcile \/ PolicyStep \/ WriteStep \/ ParkStep \/ BringUpStep
  \/ EndObserve \/ HelperAdmit \/ CellularRefresh \/ BearerUp
  \/ Requests \/ Environment \/ CallEnd \/ ExternalDropLeg
  \/ \E ok \in BOOLEAN : HelperIkeDone(ok)
  \/ \E a \in Access : \/ ExchangeStep(a) \/ FlowStep(a)
                        \/ BackoffElapses(a) \/ CooldownElapses(a)

Spec == Init /\ [][Next]_vars

\* What the runtime guarantees: spawned tasks run on; tokio's mutexes and
\* RwLocks are FIFO, so a waiter is served although others keep coming (SF);
\* REGISTER exchanges, bring-ups and observations end by their own timeouts;
\* the ten-second loop reconciles an idle line.  Calls end: their parties do.
Fairness ==
  /\ SF_vars(BeginReconcile) /\ WF_vars(PolicyStep) /\ SF_vars(WriteStep)
  /\ WF_vars(ParkStep) /\ SF_vars(BringUpStep) /\ WF_vars(EndObserve)
  /\ \A a \in Access : WF_vars(ExchangeStep(a))
  /\ WF_vars(ExternalDropLeg) /\ WF_vars(CallEnd)

FairSpec == Spec /\ Fairness

-----------------------------------------------------------------------------
(* Safety.                                                                 *)

\* With a registrar that honours Require, a flow the coordinator counts as live
\* is a contact the registrar holds: no REGISTER of one leg silently displaces the
\* other leg's binding (ims_access.rs: "the new contact can replace the old one").
\* One window is left (live.rs:4859): a leg asks for a new flow while the other
\* leg's lease has run out under its own refresh; until then, and again once the
\* lease of either leg has been dropped, that leg's flow is safe.
GhostOnlyByOverlap ==
  \A a \in Access : Live(a) => a \in bound \cup overlap

\* The same without the window, as the comment at outbound.rs:158 has it.
NoGhostBinding == \A a \in Access : Live(a) => a \in bound

\* Two flows are live at once only if both negotiated outbound, whatever the
\* registrar answers and however refreshes interleave with new registrations,
\* unless both have lived through that window.
SecondFlowNegotiated ==
  (\A a \in Access : Live(a)) /\ overlap # Access => \A a \in Access : lease[a].neg

\* The leg whose path the holder of transition_lock is about to remove.
Doomed == CASE pc = "drop" -> {NextLeg} [] pc = "parkdrop" -> {target} [] OTHER -> {}

\* publish/park drain the REGISTER in flight and admit no other, so a teardown
\* under transition_lock never removes the path of an exchange with a permit.
DrainBeforeTeardown == permit \notin Doomed

\* A call that was up before the switch got its leg lock is never cut by it,
\* whenever it arrived during the drain or the wait for the lock.
EarlyCallSurvives == pc = "drop" => ~early

\* The same of a deferred VoWiFi rebuild ("keep the rebuild deferred until its
\* own terminal event").
RebuildDefersForCall == op = "rebuild" /\ pc = "parkdrop" => ~early

\* A modem observation never overlaps host bring-up, a REGISTER, an owned flow
\* or an open admission.
ObservationExclusive ==
  op = "observe" => /\ permit = "none" /\ ~ike /\ admission = {}
                    /\ \A a \in Access : ~Owned(a) /\ phase[a] = "idle"

\* Once a decision that saw a spoofed identity has been published, the cellular
\* leg has neither admission nor permit, flow nor bearer, until a decision is taken
\* that does not see one: no deferred or aborted switch, cancelled request, helper
\* or refresh that is still running brings it back (handlers.rs:9743 publishes what
\* was admitted before).
SpoofedStaysOffCellular ==
  barred => /\ "cellular" \notin admission \cup up
            /\ permit # "cellular" /\ ~Owned("cellular")

\* A refresh never revives a failed flow; only a new one replaces it.
FailedStaysFailed ==
  [][\A a \in Access : lease[a].st = "failed" => lease'[a].st \in {"failed", "none"}]_vars

(* Liveness, under Fairness.                                               *)

\* Whoever takes transition_lock releases it: no lock cycle between admission,
\* register_lock and the leg locks, no waiter starved.
TransitionTerminates == (op # "idle") ~> (op = "idle")

\* A switch deferred for a call is taken up again once the calls are over.
DeferredSwitchApplied == deferred ~> ~deferred

\* A transition that is aborted, cancelled or parked half-way never leaves the
\* line closed for good while some leg could register.
ClosedLineReopens == []<>(admission # {} \/ Decision("none", spoofed) = {})

\* A device identity that is changed at run time, by a request that starts no
\* transition, takes the cellular leg off the air in the end, although a switch may
\* be aborted for a call meanwhile and reads of the store may fail.
SpoofedLeavesCellular ==
  spoofed ~> (~spoofed \/ ("cellular" \notin admission /\ ~Owned("cellular")))
=============================================================================
