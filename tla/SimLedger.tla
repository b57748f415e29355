------------------------------ MODULE SimLedger ------------------------------
(***************************************************************************)
(* Ownership of the SIM's clients and logical channels across operations,  *)
(* crashes, restarts and offline recovery: the in-memory ledger and its    *)
(* leases (sim_ledger.rs), the receipt on disk and the recovery command    *)
(* (recovery.rs), the device claim (io.rs) and the three users of a lease: *)
(* QMI (qmi_uim.rs), AT (sim.rs) and the eSIM helper (esim.rs).            *)
(*                                                                         *)
(* One physical device with one receipt key.  A server is one process      *)
(* instance (boot id, pid, start ticks): it lives once.                    *)
(***************************************************************************)
EXTENDS Naturals

CONSTANTS
  Servers,     \* process instances that may claim the device
  Recoverers,  \* runs of the native-recovery command
  Nobody

ASSUME ProcessAssumption ==
  /\ Servers \cap Recoverers = {}
  /\ Nobody \notin Servers \cup Recoverers

VARIABLES
  proc,      \* life of each server: "off", "claiming", "serving" or "dead"
  lock,      \* holder of the device's flocks
  \* memory of the serving process
  op,        \* where the SIM operation under the device's gate stands
  kind,      \* its transport: "qmi", "at" or "external"
  ledger,    \* NativeDevice.sim_ledger
  conn,      \* what the QMI connection believes of its channel
  \* the receipt directory
  receipt,   \* the receipt file: "none", "partial", "open" or "confirmed"
  rowner,    \* the instance that a readable receipt names
  rext,      \* its owner.external_channels_unknown
  tmp,       \* instances whose temporary file was left behind
  archive,   \* instances whose receipt was archived as resolved
  \* the card and the line to it
  clients,   \* UIM clients allocated
  channels,  \* logical channels open
  helper,    \* the eSIM helper: "none", "running", "holding" or "leaked"
  wire,      \* requests sent that the card has not executed
  reply,     \* answer to the request the operation waits for
  \* the recovery command
  rpc,       \* progress of each run
  seen       \* the receipt each run planned for, by its owner

procVars == <<proc, lock>>
memVars  == <<op, kind, ledger, conn>>
fileVars == <<receipt, rowner, rext>>
diskVars == <<receipt, rowner, rext, tmp, archive>>
cardVars == <<clients, channels, helper>>
lineVars == <<wire, reply>>
toolVars == <<rpc, seen>>
vars == <<proc, lock, op, kind, ledger, conn, receipt, rowner, rext, tmp,
          archive, clients, channels, helper, wire, reply, rpc, seen>>

Requests == {"allocate", "open", "close", "release"}

\* While op is a request the operation waits for its answer.
Ops == Requests \cup
       {"idle", "begun", "client", "opened", "after", "helper",
        "clear", "remove", "drop"}

\* Steps of a lease that still has everything to account for.
Leased == Ops \ {"idle", "remove", "drop"}

Fresh == [owned |-> FALSE, client |-> FALSE, channel |-> FALSE,
          state |-> "none", fenced |-> FALSE]
NoChannel == [channel |-> FALSE, uncertain |-> FALSE]

LedgerType ==
  [owned : BOOLEAN, client : BOOLEAN, channel : BOOLEAN,
   state : {"none", "open_pending", "client_open", "open", "closed",
            "external_operation", "outcome_unconfirmed"},
   fenced : BOOLEAN]

ProcType ==
  /\ proc \in [Servers -> {"off", "claiming", "serving", "dead"}]
  /\ lock \in Servers \cup Recoverers \cup {Nobody}

MemType ==
  /\ op \in Ops
  /\ kind \in {"qmi", "at", "external"}
  /\ ledger \in LedgerType
  /\ conn \in [channel : BOOLEAN, uncertain : BOOLEAN]

DiskType ==
  /\ receipt \in {"none", "partial", "open", "confirmed"}
  /\ rowner \in Servers \cup {Nobody}
  /\ (rowner = Nobody) <=> (receipt \in {"none", "partial"})
  /\ rext \in BOOLEAN
  /\ tmp \subseteq Servers
  /\ archive \subseteq Servers

CardType ==
  /\ clients \in Nat
  /\ channels \in Nat
  /\ helper \in {"none", "running", "holding", "leaked"}
  /\ wire \subseteq Requests
  /\ reply \in {"none", "ok", "failed"}

ToolType ==
  /\ rpc \in [Recoverers ->
                {"idle", "planned", "locked", "checked", "linked", "retiring"}]
  /\ seen \in [Recoverers -> Servers \cup {Nobody}]

TypeOK == ProcType /\ MemType /\ DiskType /\ CardType /\ ToolType

Init ==
  /\ proc = [s \in Servers |-> "off"]
  /\ lock = Nobody
  /\ op = "idle" /\ kind = "qmi" /\ ledger = Fresh /\ conn = NoChannel
  /\ receipt = "none" /\ rowner = Nobody /\ rext = FALSE
  /\ tmp = {} /\ archive = {}
  /\ clients = 0 /\ channels = 0 /\ helper = "none"
  /\ wire = {} /\ reply = "none"
  /\ rpc = [r \in Recoverers |-> "idle"]
  /\ seen = [r \in Recoverers |-> Nobody]

-----------------------------------------------------------------------------
(* Claiming the device.                                                    *)

\* Any session- file, readable or not, blocks a start.
Pending == receipt # "none" \/ tmp # {}

\* The flocks come first ...
Lock(s) ==
  /\ proc[s] = "off"
  /\ lock = Nobody
  /\ lock' = s
  /\ proc' = [proc EXCEPT ![s] = "claiming"]
  /\ UNCHANGED <<memVars, diskVars, cardVars, lineVars, toolVars>>

\* ... and the receipts are read under them.  A claim that fails, for this or
\* for another check, drops them.
Claim(s) ==
  /\ proc[s] = "claiming"
  /\ \/ /\ ~Pending
        /\ proc' = [proc EXCEPT ![s] = "serving"]
        /\ op' = "idle" /\ ledger' = Fresh
        /\ UNCHANGED lock
     \/ /\ proc' = [proc EXCEPT ![s] = "off"]
        /\ lock' = Nobody
        /\ UNCHANGED <<op, ledger>>
  /\ UNCHANGED <<kind, conn, diskVars, cardVars, lineVars, toolVars>>

\* A process that ends loses its memory and its flocks.  The card, the line
\* to it, the files and a running helper stay as they are.
Crash(s) ==
  /\ proc[s] \in {"claiming", "serving"}
  /\ proc' = [proc EXCEPT ![s] = "dead"]
  /\ lock' = Nobody
  /\ op' = "idle" /\ ledger' = Fresh /\ conn' = NoChannel /\ reply' = "none"
  /\ UNCHANGED <<kind, diskVars, cardVars, wire, toolVars>>

-----------------------------------------------------------------------------
(* Saving a receipt.                                                       *)

\* save_owned refuses a missing, foreign or confirmed record; write_record
\* refuses while this process's temporary file exists.
CanSave(s) == receipt = "open" /\ rowner = s /\ s \notin tmp

\* The record on disk keeps its owner and its verdict.
Saved(s) == CanSave(s) /\ UNCHANGED tmp

\* An I/O error may leave the temporary file behind.
SaveFails(s) == UNCHANGED tmp \/ (CanSave(s) /\ tmp' = tmp \cup {s})

\* A save whose result the caller ignores.
SaveTried(s) == Saved(s) \/ SaveFails(s)

At(s, o) == proc[s] = "serving" /\ op = o

-----------------------------------------------------------------------------
(* The lease.                                                              *)

Owner(k) ==
  [Fresh EXCEPT !.owned = TRUE,
                !.state = IF k = "external" THEN "external_operation"
                                            ELSE "open_pending"]

\* The intent is on disk before the operation sends anything.
Begin(s, k) ==
  /\ At(s, "idle")
  /\ ~ledger.owned /\ ~ledger.fenced
  /\ receipt = "none"
  /\ receipt' = "open" /\ rowner' = s /\ rext' = (k = "external")
  /\ op' = "begun" /\ kind' = k /\ ledger' = Owner(k) /\ conn' = NoChannel
  /\ UNCHANGED <<procVars, tmp, archive, cardVars, lineVars, toolVars>>

\* The file may already be there, or be left incomplete or complete by the
\* error; the ledger stays owned and fenced and no lease is returned.
BeginFails(s, k) ==
  /\ At(s, "idle")
  /\ ~ledger.owned /\ ~ledger.fenced
  /\ \/ UNCHANGED fileVars
     \/ receipt = "none" /\ receipt' = "partial" /\ UNCHANGED <<rowner, rext>>
     \/ /\ receipt = "none" /\ receipt' = "open"
        /\ rowner' = s /\ rext' = (k = "external")
  /\ ledger' = [Owner(k) EXCEPT !.fenced = TRUE]
  /\ UNCHANGED <<procVars, op, kind, conn, tmp, archive, cardVars, lineVars,
                 toolVars>>

\* A lease that goes out of scope unfinished: the ledger is fenced, the
\* receipt stays, and nothing is sent to the card.
Drop(s) ==
  /\ At(s, "drop")
  /\ ledger' = [ledger EXCEPT !.fenced = TRUE,
                              !.state = "outcome_unconfirmed"]
  /\ SaveTried(s)
  /\ op' = "idle"
  /\ UNCHANGED <<procVars, kind, conn, fileVars, archive, cardVars, lineVars,
                 toolVars>>

\* clear_owned first records that the cleanup is confirmed ...
ConfirmCleanup(s) ==
  /\ At(s, "clear")
  /\ \/ /\ CanSave(s)
        /\ receipt' = "confirmed"
        /\ op' = "remove"
        /\ UNCHANGED tmp
     \/ /\ SaveFails(s)
        /\ op' = "drop"
        /\ UNCHANGED receipt
     \/ /\ CanSave(s)              \* renamed, but the directory sync failed
        /\ receipt' = "confirmed"
        /\ op' = "drop"
        /\ UNCHANGED tmp
  /\ UNCHANGED <<procVars, kind, ledger, conn, rowner, rext, archive,
                 cardVars, lineVars, toolVars>>

\* ... then removes the file; only then is the ledger free again.
RemoveReceipt(s) ==
  /\ At(s, "remove")
  /\ \/ /\ receipt' = "none" /\ rowner' = Nobody
        /\ op' = "idle" /\ ledger' = Fresh
     \/ /\ \/ UNCHANGED <<receipt, rowner>>
           \/ receipt' = "none" /\ rowner' = Nobody
        /\ op' = "drop"
        /\ UNCHANGED ledger
  /\ UNCHANGED <<procVars, kind, conn, rext, tmp, archive, cardVars, lineVars,
                 toolVars>>

-----------------------------------------------------------------------------
(* Exchanges with the card.                                                *)

Send(r) == wire' = wire \cup {r} /\ reply' = "none" /\ op' = r

\* The card executes or refuses a request, however late; the answer reaches
\* only the exchange that still waits for it, and may be lost.
CardExecutes(r) ==
  /\ r \in wire
  /\ wire' = wire \ {r}
  /\ \/ r = "allocate" /\ clients' = clients + 1 /\ UNCHANGED channels
     \/ r = "open" /\ channels' = channels + 1 /\ UNCHANGED clients
     \/ r = "close" /\ channels > 0 /\ channels' = channels - 1
        /\ UNCHANGED clients
     \/ r = "release" /\ clients > 0 /\ clients' = clients - 1
        /\ UNCHANGED channels
  /\ reply' \in {reply} \cup (IF op = r THEN {"ok"} ELSE {})
  /\ UNCHANGED <<procVars, memVars, diskVars, helper, toolVars>>

CardRefuses(r) ==
  /\ r \in wire
  /\ wire' = wire \ {r}
  /\ reply' \in {reply} \cup (IF op = r THEN {"failed"} ELSE {})
  /\ UNCHANGED <<procVars, memVars, diskVars, cardVars, toolVars>>

\* A refusal that proves that nothing was allocated: only the QMI paths
\* tell it from a lost answer.
Explicit == kind = "qmi" /\ reply = "failed" /\ op \in {"allocate", "open"}

\* Mutant: only an answer ends the wait.
Fails_WaitsForever == ~Explicit /\ reply # "none"

\* Timeout, I/O error, unreadable answer, or a refusal without that meaning;
\* the request may still be on its way.
Fails == ~Explicit

\* Mutant: a lost answer to an allocation is taken for a refusal.
AfterFailure_Refusal ==
  CASE op = "allocate" -> "clear"
    [] kind = "qmi" /\ op \in {"open", "close"} -> "after"
    [] OTHER -> "drop"

\* Mutant: an allocation without an answer is retried.
AfterFailure_Reallocates ==
  CASE op = "allocate" -> "begun"
    [] kind = "qmi" /\ op \in {"open", "close"} -> "after"
    [] OTHER -> "drop"

\* Mutant: a close without an answer is repeated.
AfterFailure_Recloses ==
  CASE op = "close" -> "opened"
    [] kind = "qmi" /\ op = "open" -> "after"
    [] OTHER -> "drop"

\* A QMI caller still tries the cleanups; everything else drops the lease.
AfterFailure ==
  IF kind = "qmi" /\ op \in {"open", "close"} THEN "after" ELSE "drop"

ExchangeFails(s) ==
  /\ proc[s] = "serving" /\ op \in Requests
  /\ Fails
  /\ op' = AfterFailure
  /\ reply' = "none"
  /\ UNCHANGED <<procVars, kind, ledger, conn, diskVars, cardVars, wire,
                 toolVars>>

-----------------------------------------------------------------------------
(* QMI: a client, then a channel on it; AT: a channel only.                *)

SendAllocate(s) ==
  /\ At(s, "begun") /\ kind = "qmi"
  /\ Send("allocate")
  /\ UNCHANGED <<procVars, kind, ledger, conn, diskVars, cardVars, toolVars>>

Allocated(s) ==
  /\ At(s, "allocate") /\ reply = "ok"
  /\ ledger' = [ledger EXCEPT !.client = TRUE, !.state = "client_open"]
  /\ \/ Saved(s) /\ op' = "client"
     \/ SaveFails(s) /\ op' = "drop"
  /\ reply' = "none"
  /\ UNCHANGED <<procVars, kind, conn, fileVars, archive, cardVars, wire,
                 toolVars>>

AllocateRefused(s) ==
  /\ At(s, "allocate") /\ Explicit
  /\ op' = IF ledger.client \/ ledger.channel THEN "drop" ELSE "clear"
  /\ reply' = "none"
  /\ UNCHANGED <<procVars, kind, ledger, conn, diskVars, cardVars, wire,
                 toolVars>>

\* The ledger says open_pending before anything is sent, and keeps saying so
\* when that could not be saved.  AT opened its receipt in that state.
OpenChannel(s) ==
  /\ \/ /\ At(s, "client")
        /\ ledger' = [ledger EXCEPT !.state = "open_pending"]
        /\ \/ /\ Saved(s)
              /\ conn' = [conn EXCEPT !.uncertain = TRUE]
              /\ Send("open")
           \/ SaveFails(s) /\ op' = "after" /\ UNCHANGED <<conn, lineVars>>
     \/ /\ At(s, "begun") /\ kind = "at"
        /\ Send("open")
        /\ UNCHANGED <<ledger, conn, tmp>>
  /\ UNCHANGED <<procVars, kind, fileVars, archive, cardVars, toolVars>>

\* Nothing is opened: the caller wants the client only, or the application
\* could not be resolved.
SkipChannel(s) ==
  /\ At(s, "client")
  /\ op' = "after"
  /\ UNCHANGED <<procVars, kind, ledger, conn, diskVars, cardVars, lineVars,
                 toolVars>>

\* The channel id is known, so it will be closed, whether or not it could be
\* saved.
Opened(s) ==
  /\ At(s, "open") /\ reply = "ok"
  /\ conn' = [channel |-> TRUE, uncertain |-> FALSE]
  /\ ledger' = [ledger EXCEPT !.client = (kind = "qmi"), !.channel = TRUE,
                              !.state = "open"]
  /\ SaveTried(s)
  /\ op' = "opened" /\ reply' = "none"
  /\ UNCHANGED <<procVars, kind, fileVars, archive, cardVars, wire, toolVars>>

OpenRefused(s) ==
  /\ At(s, "open") /\ Explicit
  /\ conn' = [conn EXCEPT !.uncertain = FALSE]
  /\ ledger' = [ledger EXCEPT !.state = "client_open"]
  /\ SaveTried(s)
  /\ op' = "after" /\ reply' = "none"
  /\ UNCHANGED <<procVars, kind, fileVars, archive, cardVars, wire, toolVars>>

CloseChannel(s) ==
  /\ At(s, "opened")
  /\ Send("close")
  /\ UNCHANGED <<procVars, kind, ledger, conn, diskVars, cardVars, toolVars>>

\* QMI keeps its client and goes on to release it even if this could not be
\* saved; an AT close ends the lease.
Closed(s) ==
  /\ At(s, "close") /\ reply = "ok"
  /\ \/ /\ kind = "qmi"
        /\ conn' = NoChannel
        /\ ledger' = [ledger EXCEPT !.channel = FALSE, !.state = "client_open"]
        /\ SaveTried(s)
        /\ op' = "after"
     \/ /\ kind = "at"
        /\ op' = IF ledger.client THEN "drop" ELSE "clear"
        /\ UNCHANGED <<conn, ledger, tmp>>
  /\ reply' = "none"
  /\ UNCHANGED <<procVars, kind, fileVars, archive, cardVars, wire, toolVars>>

\* release_uim_cid sends nothing while a channel is, or may be, open.
Release(s) ==
  /\ At(s, "after")
  /\ ~conn.channel /\ ~conn.uncertain
  /\ Send("release")
  /\ UNCHANGED <<procVars, kind, ledger, conn, diskVars, cardVars, toolVars>>

\* The release is refused, or a caller returns without trying it.
Abandon(s) ==
  /\ At(s, "after")
  /\ op' = "drop"
  /\ UNCHANGED <<procVars, kind, ledger, conn, diskVars, cardVars, lineVars,
                 toolVars>>

Released(s) ==
  /\ At(s, "release") /\ reply = "ok"
  /\ \/ /\ ledger.channel \/ ledger.state # "client_open"
        /\ op' = "drop"
        /\ UNCHANGED <<ledger, tmp>>
     \/ /\ ~ledger.channel /\ ledger.state = "client_open"
        /\ ledger' = [ledger EXCEPT !.client = FALSE, !.state = "closed"]
        /\ \/ Saved(s) /\ op' = "clear"
           \/ SaveFails(s) /\ op' = "drop"
  /\ reply' = "none"
  /\ UNCHANGED <<procVars, kind, conn, fileVars, archive, cardVars, wire,
                 toolVars>>

-----------------------------------------------------------------------------
(* The eSIM helper, which opens and closes channels of its own.            *)

RunHelper(s) ==
  /\ At(s, "begun") /\ kind = "external"
  /\ op' = "helper" /\ helper' = "running"
  /\ UNCHANGED <<procVars, kind, ledger, conn, diskVars, clients, channels,
                 lineVars, toolVars>>

\* A helper that reports success has closed its channels.
HelperSucceeds(s) ==
  /\ At(s, "helper") /\ helper = "running"
  /\ op' = "clear" /\ helper' = "none"
  /\ UNCHANGED <<procVars, kind, ledger, conn, diskVars, clients, channels,
                 lineVars, toolVars>>

\* It fails, or is killed at its timeout with whatever it holds.
HelperFails(s) ==
  /\ At(s, "helper")
  /\ op' = "drop"
  /\ helper' = IF helper = "holding" THEN "leaked" ELSE "none"
  /\ UNCHANGED <<procVars, kind, ledger, conn, diskVars, clients, channels,
                 lineVars, toolVars>>

HelperWorks ==
  /\ \/ helper = "running" /\ helper' = "holding"
     \/ helper = "holding" /\ helper' = "running"
  /\ UNCHANGED <<procVars, memVars, diskVars, clients, channels, lineVars,
                 toolVars>>

-----------------------------------------------------------------------------
(* The recovery command.                                                   *)

\* Mutant: the external-helper blocker is forgotten.
Eligible_AnyKind ==
  /\ receipt = "confirmed"
  /\ proc[rowner] = "dead"

\* evaluate: no blocker.  An owner is alive until its process ends.
Eligible ==
  /\ receipt = "confirmed"
  /\ ~rext
  /\ proc[rowner] = "dead"

\* The exact bytes, hence the revision, that were planned for.
Unchanged(r) == receipt = "confirmed" /\ rowner = seen[r]

Plan(r) ==
  /\ rpc[r] = "idle"
  /\ Eligible
  /\ seen' = [seen EXCEPT ![r] = rowner]
  /\ rpc' = [rpc EXCEPT ![r] = "planned"]
  /\ UNCHANGED <<procVars, memVars, diskVars, cardVars, lineVars>>

\* Mutant: the flocks are not taken.
ApplyLock_Unlocked(r) ==
  /\ rpc[r] = "planned"
  /\ Eligible /\ Unchanged(r)
  /\ rpc' = [rpc EXCEPT ![r] = "locked"]
  /\ UNCHANGED <<procVars, seen, memVars, diskVars, cardVars, lineVars>>

ApplyLock(r) ==
  /\ rpc[r] = "planned"
  /\ Eligible /\ Unchanged(r)
  /\ lock = Nobody
  /\ lock' = r
  /\ rpc' = [rpc EXCEPT ![r] = "locked"]
  /\ UNCHANGED <<proc, seen, memVars, diskVars, cardVars, lineVars>>

\* The plan is made again under the flocks.
Recheck(r) ==
  /\ rpc[r] = "locked"
  /\ Eligible /\ Unchanged(r)
  /\ rpc' = [rpc EXCEPT ![r] = "checked"]
  /\ UNCHANGED <<procVars, seen, memVars, diskVars, cardVars, lineVars>>

\* archive_exact: evidence and a hard link first ...
Archive(r) ==
  /\ rpc[r] = "checked"
  /\ Unchanged(r)
  /\ archive' = archive \cup {seen[r]}
  /\ rpc' = [rpc EXCEPT ![r] = "linked"]
  /\ UNCHANGED <<procVars, seen, memVars, fileVars, tmp, cardVars, lineVars>>

\* ... then the receipt is compared once more ...
Compare(r) ==
  /\ rpc[r] = "linked"
  /\ Unchanged(r)
  /\ rpc' = [rpc EXCEPT ![r] = "retiring"]
  /\ UNCHANGED <<procVars, seen, memVars, diskVars, cardVars, lineVars>>

\* ... and whatever is at that path is removed.
Retire(r) ==
  /\ rpc[r] = "retiring"
  /\ receipt' = "none" /\ rowner' = Nobody
  /\ rpc' = [rpc EXCEPT ![r] = "idle"]
  /\ lock' = IF lock = r THEN Nobody ELSE lock
  /\ UNCHANGED <<proc, seen, memVars, rext, tmp, archive, cardVars, lineVars>>

\* A check fails, or the command is interrupted; its flocks go with it.
GiveUp(r) ==
  /\ rpc[r] # "idle"
  /\ rpc' = [rpc EXCEPT ![r] = "idle"]
  /\ lock' = IF lock = r THEN Nobody ELSE lock
  /\ UNCHANGED <<proc, seen, memVars, diskVars, cardVars, lineVars>>

\* The device-specific review that an unconfirmed receipt asks for: an
\* operator resets the idle device and removes what is left on disk.
ManualReview ==
  /\ lock = Nobody
  /\ Pending
  /\ receipt' = "none" /\ rowner' = Nobody /\ rext' = FALSE /\ tmp' = {}
  /\ clients' = 0 /\ channels' = 0 /\ helper' = "none" /\ wire' = {}
  /\ UNCHANGED <<procVars, memVars, archive, reply, toolVars>>

-----------------------------------------------------------------------------
\* What the SIM operation in progress does on its own account.
Operate(s) ==
  \/ Drop(s) \/ ConfirmCleanup(s) \/ RemoveReceipt(s) \/ ExchangeFails(s)
  \/ SendAllocate(s) \/ Allocated(s) \/ AllocateRefused(s)
  \/ OpenChannel(s) \/ SkipChannel(s) \/ Opened(s) \/ OpenRefused(s)
  \/ CloseChannel(s) \/ Closed(s)
  \/ Release(s) \/ Abandon(s) \/ Released(s)
  \/ RunHelper(s) \/ HelperSucceeds(s) \/ HelperFails(s)

Serve(s) ==
  \/ Lock(s) \/ Claim(s) \/ Crash(s)
  \/ \E k \in {"qmi", "at", "external"} : Begin(s, k) \/ BeginFails(s, k)
  \/ Operate(s)

Card == HelperWorks \/ \E r \in Requests : CardExecutes(r) \/ CardRefuses(r)

Recover(r) ==
  \/ Plan(r) \/ ApplyLock(r) \/ Recheck(r) \/ Archive(r) \/ Compare(r)
  \/ Retire(r) \/ GiveUp(r)

Next ==
  \/ \E s \in Servers : Serve(s)
  \/ \E r \in Recoverers : Recover(r)
  \/ Card
  \/ ManualReview

Spec == Init /\ [][Next]_vars

\* The blocking worker of an operation keeps running, and its reads have
\* timeouts: nothing is assumed of the card, the helper or the operator.
FairSpec == Spec /\ WF_vars(\E s \in Servers : Operate(s))

-----------------------------------------------------------------------------
(* Properties.                                                             *)

\* The card holds, or may still come to hold, something of ours.
Busy == \/ clients > 0 \/ channels > 0 \/ helper # "none"
        \/ wire \cap {"allocate", "open"} # {}

\* Nothing is forgotten: while the card holds or may yet allocate a client or
\* a channel, an unconfirmed receipt is on disk, so that whichever process
\* starts next refuses the device (sim_ledger.rs:55, qmi_uim.rs:1606).
NothingForgotten == Busy => receipt = "open"

\* No process, however it came after crashes, recoveries and late answers,
\* opens a second client or channel on top of one that is still held
\* ("one exclusive physical transaction", sim_ledger.rs:2).
SingleHolder == clients <= 1 /\ channels <= 1

\* A lease that still has something to account for never loses its receipt to
\* another process or to a recovery (recovery.rs apply, archive_exact).
LeaseCovered == op \in Leased => receipt = "open" /\ rowner = lock

SendsForHeld ==
  /\ wire' \ wire = {"close"} => channels = 1
  /\ wire' \ wire = {"release"} => clients = 1 /\ channels = 0

\* A close or a release is only sent for what the card still holds: an id is
\* never closed twice, where it may by then be somebody else's (sim.rs:196
\* "No automatic duplicate close on an ambiguous result").
NoBlindClose == [][SendsForHeld]_vars

RetiresResolved ==
  (lock \in Recoverers /\ receipt' # receipt) =>
    (/\ receipt = "confirmed" /\ ~rext
     /\ proc[rowner] = "dead" /\ rowner \in archive)

\* A recovery only ever removes a receipt that is confirmed, of a native
\* operation, of a dead owner, and archived (recovery.rs archive_exact).
RetiredWithEvidence == [][RetiresResolved]_vars

\* Every SIM operation ends and gives the device's gate back, whatever the
\* card, the helper and the disk do (sim.rs:39, native.rs:139).
OperationEnds == (op # "idle") ~> (op = "idle")

\* "A crash after this fsync leaves a recoverable terminal record"
\* (recovery.rs:278): what a dead owner confirmed can be archived.
ConfirmedIsRecoverable ==
  receipt = "confirmed" /\ proc[rowner] = "dead" => Eligible
=============================================================================
