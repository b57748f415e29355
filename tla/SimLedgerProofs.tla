--------------------------- MODULE SimLedgerProofs ---------------------------
(***************************************************************************)
(* Proofs about SimLedger, for any number of processes and recovery runs.  *)
(***************************************************************************)
EXTENDS SimLedger, TLAPS

\* The flocks have one holder: the claiming or serving process, or the
\* recovery that applies a plan.
LockInv ==
  /\ \A s \in Servers : proc[s] \in {"claiming", "serving"} <=> lock = s
  /\ \A r \in Recoverers :
       rpc[r] \in {"locked", "checked", "linked", "retiring"} <=> lock = r
  /\ op # "idle" => lock \in Servers /\ proc[lock] = "serving"

\* A lease has its receipt until the receipt says that all is released.
ReceiptInv ==
  /\ LeaseCovered
  /\ op = "remove" => receipt = "confirmed" /\ rowner = lock

\* What a recovery checked under the flocks still holds when it acts.
RecoveryInv ==
  \A r \in Recoverers :
    /\ rpc[r] \in {"checked", "linked", "retiring"} =>
         Eligible /\ rowner = seen[r]
    /\ rpc[r] \in {"linked", "retiring"} => seen[r] \in archive

Clean == clients = 0 /\ channels = 0 /\ helper = "none" /\ wire = {}

\* Nothing is held twice, not even by a request still on its way, and
\* without an unconfirmed receipt nothing is held at all.
HeldInv ==
  /\ clients <= 1 /\ ("allocate" \in wire => clients = 0)
  /\ channels <= 1 /\ ("open" \in wire => channels = 0)
  /\ receipt # "open" => Clean

\* What the card holds at each step of an operation.
Held(k, n, m) ==
  kind \in k /\ clients = n /\ channels = m /\ helper = "none"

StepInv ==
  /\ op \in {"begun", "clear", "remove"} => Clean
  /\ op = "allocate" =>
       /\ channels = 0 /\ helper = "none" /\ wire \subseteq {"allocate"}
       /\ reply # "none" => wire = {}
       /\ reply = "ok" => clients = 1
       /\ reply = "failed" => clients = 0
       /\ kind = "qmi"
  /\ op = "client" =>
       Held({"qmi"}, 1, 0) /\ wire = {}
  /\ op = "open" =>
       /\ kind \in {"qmi", "at"} /\ helper = "none" /\ wire \subseteq {"open"}
       /\ clients = (IF kind = "qmi" THEN 1 ELSE 0)
       /\ reply # "none" => wire = {}
       /\ reply = "ok" => channels = 1
       /\ reply = "failed" => channels = 0
       /\ kind = "qmi" => conn.uncertain
  /\ op = "opened" =>
       /\ Held({"qmi", "at"}, IF kind = "qmi" THEN 1 ELSE 0, 1) /\ wire = {}
       /\ conn.channel
  /\ op = "close" =>
       /\ kind \in {"qmi", "at"} /\ helper = "none" /\ wire \subseteq {"close"}
       /\ clients = (IF kind = "qmi" THEN 1 ELSE 0)
       /\ "close" \in wire => channels = 1
       /\ reply # "none" => wire = {}
       /\ reply = "ok" => channels = 0
       /\ conn.channel
  /\ op = "after" =>
       /\ kind = "qmi"
       /\ ~conn.channel /\ ~conn.uncertain =>
            Held({"qmi"}, 1, 0) /\ wire = {}
  /\ op = "release" =>
       /\ kind = "qmi" /\ channels = 0 /\ helper = "none"
       /\ wire \subseteq {"release"}
       /\ reply # "none" => wire = {}
       /\ reply = "ok" => clients = 0
  /\ op = "helper" =>
       clients = 0 /\ channels = 0 /\ wire = {}

IInv == TypeOK /\ LockInv /\ ReceiptInv /\ RecoveryInv /\ HeldInv /\ StepInv

-----------------------------------------------------------------------------
USE ProcessAssumption
USE DEF procVars, memVars, fileVars, diskVars, cardVars, lineVars, toolVars

\* The values a ledger and a connection start from.
LEMMA InitialValues ==
  /\ Fresh \in LedgerType
  /\ NoChannel \in [channel : BOOLEAN, uncertain : BOOLEAN]
BY DEF Fresh, LedgerType, NoChannel

\* Each part of the type invariant looks at its own variables.
LEMMA InitType == Init => TypeOK
<1> SUFFICES ASSUME Init PROVE TypeOK
  OBVIOUS
<1>1. ProcType
  BY DEF Init, ProcType
<1>2. MemType
  BY InitialValues DEF Init, MemType, Ops
<1>3. DiskType
  BY DEF Init, DiskType
<1>4. CardType /\ ToolType
  BY DEF Init, CardType, ToolType
<1> QED
  BY <1>1, <1>2, <1>3, <1>4 DEF TypeOK

\* The inductive invariant holds initially.
LEMMA InitInv == Init => IInv
BY InitType
   DEF Init, IInv, LockInv, ReceiptInv, RecoveryInv, HeldInv, StepInv,
       LeaseCovered, Leased, Clean, Held

\* Claiming the device and the end of a process (io.rs claim).
\* These steps keep the types ...
LEMMA ClaimStepType ==
  ASSUME TypeOK, NEW s \in Servers,
         \/ Lock(s)
         \/ Claim(s)
         \/ Crash(s)
  PROVE  TypeOK'
<1> USE DEF TypeOK
<1>1. CASE Lock(s)
  <2>1. ProcType'
    BY <1>1 DEF ProcType, Lock
  <2> QED
    BY <1>1, <2>1 DEF MemType, DiskType, CardType, ToolType, Lock
<1>2. CASE Claim(s)
  <2>1. ProcType'
    BY <1>2 DEF ProcType, Claim, Pending
  <2>2. MemType'
    BY <1>2, InitialValues DEF MemType, Claim, Pending, Ops
  <2> QED
    BY <1>2, <2>1, <2>2 DEF DiskType, CardType, ToolType, Claim
<1>3. CASE Crash(s)
  <2>1. ProcType'
    BY <1>3 DEF ProcType, Crash
  <2>2. MemType'
    BY <1>3, InitialValues DEF MemType, Crash, Ops
  <2>3. CardType'
    BY <1>3 DEF CardType, Crash, Requests
  <2> QED
    BY <1>3, <2>1, <2>2, <2>3 DEF DiskType, ToolType, Crash
<1> QED
  BY <1>1, <1>2, <1>3

\* ... and the same steps preserve the inductive invariant.
LEMMA ClaimStepInv ==
  ASSUME IInv, NEW s \in Servers,
         \/ Lock(s)
         \/ Claim(s)
         \/ Crash(s)
  PROVE  IInv'
<1> USE DEF IInv, TypeOK, ProcType, MemType, DiskType, CardType, ToolType,
           LockInv, ReceiptInv, LeaseCovered, Leased, Ops, Requests
<1>1. TypeOK'
  BY ClaimStepType
<1>2. CASE Lock(s)
  <2>1. LockInv' /\ ReceiptInv' /\ RecoveryInv'
    BY <1>2 DEF RecoveryInv, Eligible, Lock
  <2>2. HeldInv' /\ StepInv'
    BY <1>2 DEF HeldInv, StepInv, Clean, Held, Lock
  <2> QED
    BY <1>1, <2>1, <2>2
<1>3. CASE Claim(s)
  <2>1. LockInv' /\ ReceiptInv' /\ RecoveryInv'
    BY <1>3 DEF RecoveryInv, Eligible, Claim, Pending
  <2>2. HeldInv' /\ StepInv'
    BY <1>3 DEF HeldInv, StepInv, Clean, Held, Claim, Pending
  <2> QED
    BY <1>1, <2>1, <2>2
<1>4. CASE Crash(s)
  <2>1. LockInv' /\ ReceiptInv' /\ RecoveryInv'
    BY <1>4 DEF RecoveryInv, Eligible, Crash
  <2>2. HeldInv' /\ StepInv'
    BY <1>4 DEF HeldInv, StepInv, Clean, Held, Crash
  <2> QED
    BY <1>1, <2>1, <2>2
<1> QED
  BY <1>2, <1>3, <1>4

\* Beginning, dropping and clearing a lease (sim_ledger.rs, recovery.rs).
\* These steps keep the types ...
LEMMA LeaseStepType ==
  ASSUME TypeOK, NEW s \in Servers,
         \/ \E k \in {"qmi", "at", "external"} : Begin(s, k)
         \/ \E k \in {"qmi", "at", "external"} : BeginFails(s, k)
         \/ Drop(s)
         \/ ConfirmCleanup(s)
         \/ RemoveReceipt(s)
  PROVE  TypeOK'
<1> USE DEF TypeOK
<1>1. ASSUME NEW k \in {"qmi", "at", "external"}, Begin(s, k)
      PROVE  TypeOK'
  <2>1. MemType'
    BY <1>1, InitialValues DEF MemType, Begin, At, Owner, Fresh, LedgerType,
           Ops, Requests
  <2>2. DiskType'
    BY <1>1 DEF DiskType, Begin, At
  <2> QED
    BY <1>1, <2>1, <2>2 DEF ProcType, CardType, ToolType, Begin
<1>2. ASSUME NEW k \in {"qmi", "at", "external"}, BeginFails(s, k)
      PROVE  TypeOK'
  <2>1. MemType'
    BY <1>2, InitialValues DEF MemType, BeginFails, At, Owner, Fresh,
           LedgerType, Ops, Requests
  <2>2. DiskType'
    BY <1>2 DEF DiskType, BeginFails, At
  <2> QED
    BY <1>2, <2>1, <2>2 DEF ProcType, CardType, ToolType, BeginFails
<1>3. CASE Drop(s)
  <2>1. MemType'
    BY <1>3 DEF MemType, Drop, At, SaveTried, Saved, SaveFails, CanSave,
           LedgerType, Ops, Requests
  <2>2. DiskType'
    BY <1>3 DEF DiskType, Drop, At, SaveTried, Saved, SaveFails, CanSave
  <2> QED
    BY <1>3, <2>1, <2>2 DEF ProcType, CardType, ToolType, Drop
<1>4. CASE ConfirmCleanup(s)
  <2>1. MemType'
    BY <1>4 DEF MemType, ConfirmCleanup, At, SaveFails, CanSave, LedgerType,
           Ops, Requests
  <2>2. DiskType'
    BY <1>4 DEF DiskType, ConfirmCleanup, At, SaveFails, CanSave
  <2> QED
    BY <1>4, <2>1, <2>2 DEF ProcType, CardType, ToolType, ConfirmCleanup
<1>5. CASE RemoveReceipt(s)
  <2>1. MemType'
    BY <1>5, InitialValues DEF MemType, RemoveReceipt, At, Ops
  <2>2. DiskType'
    BY <1>5 DEF DiskType, RemoveReceipt, At
  <2> QED
    BY <1>5, <2>1, <2>2 DEF ProcType, CardType, ToolType, RemoveReceipt
<1> QED
  BY <1>1, <1>2, <1>3, <1>4, <1>5

\* ... and the same steps preserve the inductive invariant.
LEMMA LeaseStepInv ==
  ASSUME IInv, NEW s \in Servers,
         \/ \E k \in {"qmi", "at", "external"} : Begin(s, k)
         \/ \E k \in {"qmi", "at", "external"} : BeginFails(s, k)
         \/ Drop(s)
         \/ ConfirmCleanup(s)
         \/ RemoveReceipt(s)
  PROVE  IInv'
<1> USE DEF IInv, TypeOK, ProcType, MemType, DiskType, CardType, ToolType,
           LockInv, ReceiptInv, LeaseCovered, Leased, Ops, Requests
<1>1. TypeOK'
  BY LeaseStepType
<1>2. ASSUME NEW k \in {"qmi", "at", "external"}, Begin(s, k)
      PROVE  IInv'
  <2>1. LockInv' /\ ReceiptInv' /\ RecoveryInv'
    BY <1>2 DEF RecoveryInv, Eligible, Begin, At
  <2>2. HeldInv' /\ StepInv'
    BY <1>2 DEF HeldInv, StepInv, Clean, Held, Begin, At
  <2> QED
    BY <1>1, <2>1, <2>2
<1>3. ASSUME NEW k \in {"qmi", "at", "external"}, BeginFails(s, k)
      PROVE  IInv'
  <2>1. LockInv' /\ ReceiptInv' /\ RecoveryInv'
    BY <1>3 DEF RecoveryInv, Eligible, BeginFails, At
  <2>2. HeldInv' /\ StepInv'
    BY <1>3 DEF HeldInv, StepInv, Clean, Held, BeginFails, At
  <2> QED
    BY <1>1, <2>1, <2>2
<1>4. CASE Drop(s)
  <2>1. LockInv' /\ ReceiptInv' /\ RecoveryInv'
    BY <1>4 DEF RecoveryInv, Eligible, Drop, At, SaveTried, Saved, SaveFails,
           CanSave
  <2>2. HeldInv' /\ StepInv'
    BY <1>4 DEF HeldInv, StepInv, Clean, Held, Drop, At, SaveTried, Saved,
           SaveFails, CanSave
  <2> QED
    BY <1>1, <2>1, <2>2
<1>5. CASE ConfirmCleanup(s)
  <2>1. LockInv' /\ ReceiptInv' /\ RecoveryInv'
    BY <1>5 DEF RecoveryInv, Eligible, ConfirmCleanup, At, SaveFails, CanSave
  <2>2. HeldInv' /\ StepInv'
    BY <1>5 DEF HeldInv, StepInv, Clean, Held, ConfirmCleanup, At, SaveFails,
           CanSave
  <2> QED
    BY <1>1, <2>1, <2>2
<1>6. CASE RemoveReceipt(s)
  <2>1. LockInv' /\ ReceiptInv' /\ RecoveryInv'
    BY <1>6 DEF RecoveryInv, Eligible, RemoveReceipt, At
  <2>2. HeldInv' /\ StepInv'
    BY <1>6 DEF HeldInv, StepInv, Clean, Held, RemoveReceipt, At
  <2> QED
    BY <1>1, <2>1, <2>2
<1> QED
  BY <1>2, <1>3, <1>4, <1>5, <1>6

\* The client of a QMI operation (qmi_uim.rs, sim_ledger.rs).
\* These steps keep the types ...
LEMMA QmiClientStepType ==
  ASSUME TypeOK, NEW s \in Servers,
         \/ SendAllocate(s)
         \/ Allocated(s)
         \/ AllocateRefused(s)
         \/ Release(s)
         \/ Abandon(s)
         \/ Released(s)
  PROVE  TypeOK'
<1> USE DEF TypeOK
<1>1. CASE SendAllocate(s)
  <2>1. MemType'
    BY <1>1 DEF MemType, SendAllocate, At, Send, LedgerType, Ops, Requests
  <2>2. CardType'
    BY <1>1 DEF CardType, SendAllocate, Send, Requests
  <2> QED
    BY <1>1, <2>1, <2>2 DEF ProcType, DiskType, ToolType, SendAllocate
<1>2. CASE Allocated(s)
  <2>1. MemType'
    BY <1>2 DEF MemType, Allocated, At, Saved, SaveFails, CanSave,
           LedgerType, Ops, Requests
  <2>2. DiskType'
    BY <1>2 DEF DiskType, Allocated, At, Saved, SaveFails, CanSave
  <2>3. CardType'
    BY <1>2 DEF CardType, Allocated, Requests
  <2> QED
    BY <1>2, <2>1, <2>2, <2>3 DEF ProcType, ToolType, Allocated
<1>3. CASE AllocateRefused(s)
  <2>1. MemType'
    BY <1>3 DEF MemType, AllocateRefused, At, Explicit, LedgerType, Ops,
           Requests
  <2>2. CardType'
    BY <1>3 DEF CardType, AllocateRefused, Requests
  <2> QED
    BY <1>3, <2>1, <2>2 DEF ProcType, DiskType, ToolType, AllocateRefused
<1>4. CASE Release(s)
  <2>1. MemType'
    BY <1>4 DEF MemType, Release, At, Send, LedgerType, Ops, Requests
  <2>2. CardType'
    BY <1>4 DEF CardType, Release, Send, Requests
  <2> QED
    BY <1>4, <2>1, <2>2 DEF ProcType, DiskType, ToolType, Release
<1>5. CASE Abandon(s)
  <2>1. MemType'
    BY <1>5 DEF MemType, Abandon, At, LedgerType, Ops, Requests
  <2> QED
    BY <1>5, <2>1 DEF ProcType, DiskType, CardType, ToolType, Abandon
<1>6. CASE Released(s)
  <2>1. MemType'
    BY <1>6 DEF MemType, Released, At, Saved, SaveFails, CanSave, LedgerType,
           Ops, Requests
  <2>2. DiskType'
    BY <1>6 DEF DiskType, Released, At, Saved, SaveFails, CanSave
  <2>3. CardType'
    BY <1>6 DEF CardType, Released, Requests
  <2> QED
    BY <1>6, <2>1, <2>2, <2>3 DEF ProcType, ToolType, Released
<1> QED
  BY <1>1, <1>2, <1>3, <1>4, <1>5, <1>6

\* ... and the same steps preserve the inductive invariant.
LEMMA QmiClientStepInv ==
  ASSUME IInv, NEW s \in Servers,
         \/ SendAllocate(s)
         \/ Allocated(s)
         \/ AllocateRefused(s)
         \/ Release(s)
         \/ Abandon(s)
         \/ Released(s)
  PROVE  IInv'
<1> USE DEF IInv, TypeOK, ProcType, MemType, DiskType, CardType, ToolType,
           LockInv, ReceiptInv, LeaseCovered, Leased, Ops, Requests
<1>1. TypeOK'
  BY QmiClientStepType
<1>2. CASE SendAllocate(s)
  <2>1. LockInv' /\ ReceiptInv' /\ RecoveryInv'
    BY <1>2 DEF RecoveryInv, Eligible, SendAllocate, At, Send
  <2>2. HeldInv' /\ StepInv'
    BY <1>2 DEF HeldInv, StepInv, Clean, Held, SendAllocate, At, Send
  <2> QED
    BY <1>1, <2>1, <2>2
<1>3. CASE Allocated(s)
  <2>1. LockInv' /\ ReceiptInv' /\ RecoveryInv'
    BY <1>3 DEF RecoveryInv, Eligible, Allocated, At, Saved, SaveFails,
           CanSave
  <2>2. HeldInv' /\ StepInv'
    BY <1>3 DEF HeldInv, StepInv, Clean, Held, Allocated, At, Saved,
           SaveFails, CanSave
  <2> QED
    BY <1>1, <2>1, <2>2
<1>4. CASE AllocateRefused(s)
  <2>1. LockInv' /\ ReceiptInv' /\ RecoveryInv'
    BY <1>4 DEF RecoveryInv, Eligible, AllocateRefused, At, Explicit
  <2>2. HeldInv' /\ StepInv'
    BY <1>4 DEF HeldInv, StepInv, Clean, Held, AllocateRefused, At, Explicit
  <2> QED
    BY <1>1, <2>1, <2>2
<1>5. CASE Release(s)
  <2>1. LockInv' /\ ReceiptInv' /\ RecoveryInv'
    BY <1>5 DEF RecoveryInv, Eligible, Release, At, Send
  <2>2. HeldInv' /\ StepInv'
    BY <1>5 DEF HeldInv, StepInv, Clean, Held, Release, At, Send
  <2> QED
    BY <1>1, <2>1, <2>2
<1>6. CASE Abandon(s)
  <2>1. LockInv' /\ ReceiptInv' /\ RecoveryInv'
    BY <1>6 DEF RecoveryInv, Eligible, Abandon, At
  <2>2. HeldInv' /\ StepInv'
    BY <1>6 DEF HeldInv, StepInv, Clean, Held, Abandon, At
  <2> QED
    BY <1>1, <2>1, <2>2
<1>7. CASE Released(s)
  <2>1. LockInv' /\ ReceiptInv' /\ RecoveryInv'
    BY <1>7 DEF RecoveryInv, Eligible, Released, At, Saved, SaveFails,
           CanSave
  <2>2. HeldInv' /\ StepInv'
    BY <1>7 DEF HeldInv, StepInv, Clean, Held, Released, At, Saved,
           SaveFails, CanSave
  <2> QED
    BY <1>1, <2>1, <2>2
<1> QED
  BY <1>2, <1>3, <1>4, <1>5, <1>6, <1>7

\* The logical channel of a QMI or AT operation (qmi_uim.rs, sim.rs).
\* These steps keep the types ...
LEMMA ChannelStepType ==
  ASSUME TypeOK, NEW s \in Servers,
         \/ OpenChannel(s)
         \/ SkipChannel(s)
         \/ Opened(s)
         \/ OpenRefused(s)
         \/ CloseChannel(s)
         \/ Closed(s)
         \/ ExchangeFails(s)
  PROVE  TypeOK'
<1> USE DEF TypeOK
<1>1. CASE OpenChannel(s)
  <2>1. MemType'
    BY <1>1 DEF MemType, OpenChannel, At, Saved, SaveFails, CanSave, Send,
           LedgerType, Ops, Requests
  <2>2. DiskType'
    BY <1>1 DEF DiskType, OpenChannel, At, Saved, SaveFails, CanSave
  <2>3. CardType'
    BY <1>1 DEF CardType, OpenChannel, Send, Requests
  <2> QED
    BY <1>1, <2>1, <2>2, <2>3 DEF ProcType, ToolType, OpenChannel
<1>2. CASE SkipChannel(s)
  <2>1. MemType'
    BY <1>2 DEF MemType, SkipChannel, At, LedgerType, Ops, Requests
  <2> QED
    BY <1>2, <2>1 DEF ProcType, DiskType, CardType, ToolType, SkipChannel
<1>3. CASE Opened(s)
  <2>1. MemType'
    BY <1>3 DEF MemType, Opened, At, SaveTried, Saved, SaveFails, CanSave,
           LedgerType, Ops, Requests
  <2>2. DiskType'
    BY <1>3 DEF DiskType, Opened, At, SaveTried, Saved, SaveFails, CanSave
  <2>3. CardType'
    BY <1>3 DEF CardType, Opened, Requests
  <2> QED
    BY <1>3, <2>1, <2>2, <2>3 DEF ProcType, ToolType, Opened
<1>4. CASE OpenRefused(s)
  <2>1. MemType'
    BY <1>4 DEF MemType, OpenRefused, At, SaveTried, Saved, SaveFails,
           CanSave, Explicit, LedgerType, Ops, Requests
  <2>2. DiskType'
    BY <1>4 DEF DiskType, OpenRefused, At, SaveTried, Saved, SaveFails,
           CanSave
  <2>3. CardType'
    BY <1>4 DEF CardType, OpenRefused, Requests
  <2> QED
    BY <1>4, <2>1, <2>2, <2>3 DEF ProcType, ToolType, OpenRefused
<1>5. CASE CloseChannel(s)
  <2>1. MemType'
    BY <1>5 DEF MemType, CloseChannel, At, Send, LedgerType, Ops, Requests
  <2>2. CardType'
    BY <1>5 DEF CardType, CloseChannel, Send, Requests
  <2> QED
    BY <1>5, <2>1, <2>2 DEF ProcType, DiskType, ToolType, CloseChannel
<1>6. CASE Closed(s)
  <2>1. MemType'
    <3>1. ledger' \in LedgerType
      BY <1>6 DEF MemType, LedgerType, Closed
    <3> QED
      BY <1>6, <3>1, InitialValues DEF MemType, Ops, Closed
  <2>2. DiskType'
    BY <1>6 DEF DiskType, Closed, At, SaveTried, Saved, SaveFails, CanSave
  <2>3. CardType'
    BY <1>6 DEF CardType, Closed, Requests
  <2> QED
    BY <1>6, <2>1, <2>2, <2>3 DEF ProcType, ToolType, Closed
<1>7. CASE ExchangeFails(s)
  <2>1. MemType'
    BY <1>7 DEF MemType, ExchangeFails, AfterFailure, LedgerType, Ops,
           Requests
  <2>2. CardType'
    BY <1>7 DEF CardType, ExchangeFails, Requests
  <2> QED
    BY <1>7, <2>1, <2>2 DEF ProcType, DiskType, ToolType, ExchangeFails
<1> QED
  BY <1>1, <1>2, <1>3, <1>4, <1>5, <1>6, <1>7

\* ... and the same steps preserve the inductive invariant.
LEMMA ChannelStepInv ==
  ASSUME IInv, NEW s \in Servers,
         \/ OpenChannel(s)
         \/ SkipChannel(s)
         \/ Opened(s)
         \/ OpenRefused(s)
         \/ CloseChannel(s)
         \/ Closed(s)
         \/ ExchangeFails(s)
  PROVE  IInv'
<1> USE DEF IInv, TypeOK, ProcType, MemType, DiskType, CardType, ToolType,
           LockInv, ReceiptInv, LeaseCovered, Leased, Ops, Requests
<1>1. TypeOK'
  BY ChannelStepType
<1>2. CASE OpenChannel(s)
  <2>1. LockInv' /\ ReceiptInv' /\ RecoveryInv'
    BY <1>2 DEF RecoveryInv, Eligible, OpenChannel, At, Saved, SaveFails,
           CanSave, Send
  <2>2. HeldInv' /\ StepInv'
    BY <1>2 DEF HeldInv, StepInv, Clean, Held, OpenChannel, At, Saved,
           SaveFails, CanSave, Send
  <2> QED
    BY <1>1, <2>1, <2>2
<1>3. CASE SkipChannel(s)
  <2>1. LockInv' /\ ReceiptInv' /\ RecoveryInv'
    BY <1>3 DEF RecoveryInv, Eligible, SkipChannel, At
  <2>2. HeldInv' /\ StepInv'
    BY <1>3 DEF HeldInv, StepInv, Clean, Held, SkipChannel, At
  <2> QED
    BY <1>1, <2>1, <2>2
<1>4. CASE Opened(s)
  <2>1. LockInv' /\ ReceiptInv' /\ RecoveryInv'
    BY <1>4 DEF RecoveryInv, Eligible, Opened, At, SaveTried, Saved,
           SaveFails, CanSave
  <2>2. HeldInv' /\ StepInv'
    BY <1>4 DEF HeldInv, StepInv, Clean, Held, Opened, At, SaveTried, Saved,
           SaveFails, CanSave
  <2> QED
    BY <1>1, <2>1, <2>2
<1>5. CASE OpenRefused(s)
  <2>1. LockInv' /\ ReceiptInv' /\ RecoveryInv'
    BY <1>5 DEF RecoveryInv, Eligible, OpenRefused, At, SaveTried, Saved,
           SaveFails, CanSave, Explicit
  <2>2. HeldInv' /\ StepInv'
    BY <1>5 DEF HeldInv, StepInv, Clean, Held, OpenRefused, At, SaveTried,
           Saved, SaveFails, CanSave, Explicit
  <2> QED
    BY <1>1, <2>1, <2>2
<1>6. CASE CloseChannel(s)
  <2>1. LockInv' /\ ReceiptInv' /\ RecoveryInv'
    BY <1>6 DEF RecoveryInv, Eligible, CloseChannel, At, Send
  <2>2. HeldInv' /\ StepInv'
    BY <1>6 DEF HeldInv, StepInv, Clean, Held, CloseChannel, At, Send
  <2> QED
    BY <1>1, <2>1, <2>2
<1>7. CASE Closed(s)
  <2>1. LockInv' /\ ReceiptInv' /\ RecoveryInv'
    BY <1>7 DEF RecoveryInv, Eligible, Closed, At, SaveTried, Saved,
           SaveFails, CanSave
  <2>2. HeldInv' /\ StepInv'
    BY <1>7 DEF HeldInv, StepInv, Clean, Held, Closed, At, SaveTried, Saved,
           SaveFails, CanSave
  <2> QED
    BY <1>1, <2>1, <2>2
<1>8. CASE ExchangeFails(s)
  <2>1. LockInv' /\ ReceiptInv' /\ RecoveryInv'
    BY <1>8 DEF RecoveryInv, Eligible, ExchangeFails, AfterFailure
  <2>2. HeldInv' /\ StepInv'
    BY <1>8 DEF HeldInv, StepInv, Clean, Held, ExchangeFails, AfterFailure
  <2> QED
    BY <1>1, <2>1, <2>2
<1> QED
  BY <1>2, <1>3, <1>4, <1>5, <1>6, <1>7, <1>8

\* The eSIM helper (esim.rs).
\* These steps keep the types ...
LEMMA HelperStepType ==
  ASSUME TypeOK, NEW s \in Servers,
         \/ RunHelper(s)
         \/ HelperSucceeds(s)
         \/ HelperFails(s)
  PROVE  TypeOK'
<1> USE DEF TypeOK
<1>1. CASE RunHelper(s)
  <2>1. MemType'
    BY <1>1 DEF MemType, RunHelper, At, LedgerType, Ops, Requests
  <2>2. CardType'
    BY <1>1 DEF CardType, RunHelper, Requests
  <2> QED
    BY <1>1, <2>1, <2>2 DEF ProcType, DiskType, ToolType, RunHelper
<1>2. CASE HelperSucceeds(s)
  <2>1. MemType'
    BY <1>2 DEF MemType, HelperSucceeds, At, LedgerType, Ops, Requests
  <2>2. CardType'
    BY <1>2 DEF CardType, HelperSucceeds, Requests
  <2> QED
    BY <1>2, <2>1, <2>2 DEF ProcType, DiskType, ToolType, HelperSucceeds
<1>3. CASE HelperFails(s)
  <2>1. MemType'
    BY <1>3 DEF MemType, HelperFails, At, LedgerType, Ops, Requests
  <2>2. CardType'
    BY <1>3 DEF CardType, HelperFails, Requests
  <2> QED
    BY <1>3, <2>1, <2>2 DEF ProcType, DiskType, ToolType, HelperFails
<1> QED
  BY <1>1, <1>2, <1>3

\* ... and the same steps preserve the inductive invariant.
LEMMA HelperStepInv ==
  ASSUME IInv, NEW s \in Servers,
         \/ RunHelper(s)
         \/ HelperSucceeds(s)
         \/ HelperFails(s)
  PROVE  IInv'
<1> USE DEF IInv, TypeOK, ProcType, MemType, DiskType, CardType, ToolType,
           LockInv, ReceiptInv, LeaseCovered, Leased, Ops, Requests
<1>1. TypeOK'
  BY HelperStepType
<1>2. CASE RunHelper(s)
  <2>1. LockInv' /\ ReceiptInv' /\ RecoveryInv'
    BY <1>2 DEF RecoveryInv, Eligible, RunHelper, At
  <2>2. HeldInv' /\ StepInv'
    BY <1>2 DEF HeldInv, StepInv, Clean, Held, RunHelper, At
  <2> QED
    BY <1>1, <2>1, <2>2
<1>3. CASE HelperSucceeds(s)
  <2>1. LockInv' /\ ReceiptInv' /\ RecoveryInv'
    BY <1>3 DEF RecoveryInv, Eligible, HelperSucceeds, At
  <2>2. HeldInv' /\ StepInv'
    BY <1>3 DEF HeldInv, StepInv, Clean, Held, HelperSucceeds, At
  <2> QED
    BY <1>1, <2>1, <2>2
<1>4. CASE HelperFails(s)
  <2>1. LockInv' /\ ReceiptInv' /\ RecoveryInv'
    BY <1>4 DEF RecoveryInv, Eligible, HelperFails, At
  <2>2. HeldInv' /\ StepInv'
    BY <1>4 DEF HeldInv, StepInv, Clean, Held, HelperFails, At
  <2> QED
    BY <1>1, <2>1, <2>2
<1> QED
  BY <1>2, <1>3, <1>4

\* The card, the helper's own work and the operator's review.
\* These steps keep the types ...
LEMMA CardStepType ==
  ASSUME TypeOK, NEW r \in Requests,
         \/ HelperWorks
         \/ CardExecutes(r)
         \/ CardRefuses(r)
         \/ ManualReview
  PROVE  TypeOK'
<1> USE DEF TypeOK
<1>1. CASE HelperWorks
  <2>1. CardType'
    BY <1>1 DEF CardType, HelperWorks, Requests
  <2> QED
    BY <1>1, <2>1 DEF ProcType, MemType, DiskType, ToolType, HelperWorks
<1>2. CASE CardExecutes(r)
  <2>1. CardType'
    BY <1>2 DEF CardType, CardExecutes, Requests
  <2> QED
    BY <1>2, <2>1 DEF ProcType, MemType, DiskType, ToolType, CardExecutes
<1>3. CASE CardRefuses(r)
  <2>1. CardType'
    BY <1>3 DEF CardType, CardRefuses, Requests
  <2> QED
    BY <1>3, <2>1 DEF ProcType, MemType, DiskType, ToolType, CardRefuses
<1>4. CASE ManualReview
  <2>1. DiskType'
    BY <1>4 DEF DiskType, ManualReview
  <2>2. CardType'
    BY <1>4 DEF CardType, ManualReview, Requests
  <2> QED
    BY <1>4, <2>1, <2>2 DEF ProcType, MemType, ToolType, ManualReview
<1> QED
  BY <1>1, <1>2, <1>3, <1>4

\* ... and the same steps preserve the inductive invariant.
LEMMA CardStepInv ==
  ASSUME IInv, NEW r \in Requests,
         \/ HelperWorks
         \/ CardExecutes(r)
         \/ CardRefuses(r)
         \/ ManualReview
  PROVE  IInv'
<1> USE DEF IInv, TypeOK, ProcType, MemType, DiskType, CardType, ToolType,
           LockInv, ReceiptInv, LeaseCovered, Leased, Ops, Requests
<1>1. TypeOK'
  BY CardStepType
<1>2. CASE HelperWorks
  <2>1. LockInv' /\ ReceiptInv' /\ RecoveryInv'
    BY <1>2 DEF RecoveryInv, Eligible, HelperWorks
  <2>2. HeldInv' /\ StepInv'
    BY <1>2 DEF HeldInv, StepInv, Clean, Held, HelperWorks
  <2> QED
    BY <1>1, <2>1, <2>2
<1>3. CASE CardExecutes(r)
  <2>1. LockInv' /\ ReceiptInv' /\ RecoveryInv'
    BY <1>3 DEF RecoveryInv, Eligible, CardExecutes
  <2>2. HeldInv' /\ StepInv'
    BY <1>3 DEF HeldInv, StepInv, Clean, Held, CardExecutes
  <2> QED
    BY <1>1, <2>1, <2>2
<1>4. CASE CardRefuses(r)
  <2>1. LockInv' /\ ReceiptInv' /\ RecoveryInv'
    BY <1>4 DEF RecoveryInv, Eligible, CardRefuses
  <2>2. HeldInv' /\ StepInv'
    BY <1>4 DEF HeldInv, StepInv, Clean, Held, CardRefuses
  <2> QED
    BY <1>1, <2>1, <2>2
<1>5. CASE ManualReview
  <2>1. LockInv' /\ ReceiptInv' /\ RecoveryInv'
    BY <1>5 DEF RecoveryInv, Eligible, ManualReview, Pending
  <2>2. HeldInv' /\ StepInv'
    BY <1>5 DEF HeldInv, StepInv, Clean, Held, ManualReview, Pending
  <2> QED
    BY <1>1, <2>1, <2>2
<1> QED
  BY <1>2, <1>3, <1>4, <1>5

\* The recovery command (recovery.rs).
\* These steps keep the types ...
LEMMA RecoverStepType ==
  ASSUME TypeOK, NEW r \in Recoverers,
         \/ Plan(r)
         \/ ApplyLock(r)
         \/ Recheck(r)
         \/ Archive(r)
         \/ Compare(r)
         \/ Retire(r)
         \/ GiveUp(r)
  PROVE  TypeOK'
<1> USE DEF TypeOK
<1>1. CASE Plan(r)
  <2>1. ToolType'
    BY <1>1 DEF ToolType, Plan, DiskType
  <2> QED
    BY <1>1, <2>1 DEF ProcType, MemType, DiskType, CardType, Plan
<1>2. CASE ApplyLock(r)
  <2>1. ProcType'
    BY <1>2 DEF ProcType, ApplyLock
  <2>2. ToolType'
    BY <1>2 DEF ToolType, ApplyLock
  <2> QED
    BY <1>2, <2>1, <2>2 DEF MemType, DiskType, CardType, ApplyLock
<1>3. CASE Recheck(r)
  <2>1. ToolType'
    BY <1>3 DEF ToolType, Recheck
  <2> QED
    BY <1>3, <2>1 DEF ProcType, MemType, DiskType, CardType, Recheck
<1>4. CASE Archive(r)
  <2>1. DiskType'
    BY <1>4 DEF DiskType, Archive, Unchanged
  <2>2. ToolType'
    BY <1>4 DEF ToolType, Archive
  <2> QED
    BY <1>4, <2>1, <2>2 DEF ProcType, MemType, CardType, Archive
<1>5. CASE Compare(r)
  <2>1. ToolType'
    BY <1>5 DEF ToolType, Compare
  <2> QED
    BY <1>5, <2>1 DEF ProcType, MemType, DiskType, CardType, Compare
<1>6. CASE Retire(r)
  <2>1. ProcType'
    BY <1>6 DEF ProcType, Retire
  <2>2. DiskType'
    BY <1>6 DEF DiskType, Retire
  <2>3. ToolType'
    BY <1>6 DEF ToolType, Retire
  <2> QED
    BY <1>6, <2>1, <2>2, <2>3 DEF MemType, CardType, Retire
<1>7. CASE GiveUp(r)
  <2>1. ProcType'
    BY <1>7 DEF ProcType, GiveUp
  <2>2. ToolType'
    BY <1>7 DEF ToolType, GiveUp
  <2> QED
    BY <1>7, <2>1, <2>2 DEF MemType, DiskType, CardType, GiveUp
<1> QED
  BY <1>1, <1>2, <1>3, <1>4, <1>5, <1>6, <1>7

\* ... and the same steps preserve the inductive invariant.
LEMMA RecoverStepInv ==
  ASSUME IInv, NEW r \in Recoverers,
         \/ Plan(r)
         \/ ApplyLock(r)
         \/ Recheck(r)
         \/ Archive(r)
         \/ Compare(r)
         \/ Retire(r)
         \/ GiveUp(r)
  PROVE  IInv'
<1> USE DEF IInv, TypeOK, ProcType, MemType, DiskType, CardType, ToolType,
           LockInv, ReceiptInv, LeaseCovered, Leased, Ops, Requests
<1>1. TypeOK'
  BY RecoverStepType
<1>2. CASE Plan(r)
  <2>1. LockInv' /\ ReceiptInv' /\ RecoveryInv'
    BY <1>2 DEF RecoveryInv, Eligible, Plan, Unchanged
  <2>2. HeldInv' /\ StepInv'
    BY <1>2 DEF HeldInv, StepInv, Clean, Held, Plan, Unchanged, RecoveryInv,
           Eligible
  <2> QED
    BY <1>1, <2>1, <2>2
<1>3. CASE ApplyLock(r)
  <2>1. LockInv' /\ ReceiptInv' /\ RecoveryInv'
    BY <1>3 DEF RecoveryInv, Eligible, ApplyLock, Unchanged
  <2>2. HeldInv' /\ StepInv'
    BY <1>3 DEF HeldInv, StepInv, Clean, Held, ApplyLock, Unchanged,
           RecoveryInv, Eligible
  <2> QED
    BY <1>1, <2>1, <2>2
<1>4. CASE Recheck(r)
  <2>1. LockInv' /\ ReceiptInv' /\ RecoveryInv'
    BY <1>4 DEF RecoveryInv, Eligible, Recheck, Unchanged
  <2>2. HeldInv' /\ StepInv'
    BY <1>4 DEF HeldInv, StepInv, Clean, Held, Recheck, Unchanged,
           RecoveryInv, Eligible
  <2> QED
    BY <1>1, <2>1, <2>2
<1>5. CASE Archive(r)
  <2>1. LockInv' /\ ReceiptInv' /\ RecoveryInv'
    BY <1>5 DEF RecoveryInv, Eligible, Archive, Unchanged
  <2>2. HeldInv' /\ StepInv'
    BY <1>5 DEF HeldInv, StepInv, Clean, Held, Archive, Unchanged,
           RecoveryInv, Eligible
  <2> QED
    BY <1>1, <2>1, <2>2
<1>6. CASE Compare(r)
  <2>1. LockInv' /\ ReceiptInv' /\ RecoveryInv'
    BY <1>6 DEF RecoveryInv, Eligible, Compare, Unchanged
  <2>2. HeldInv' /\ StepInv'
    BY <1>6 DEF HeldInv, StepInv, Clean, Held, Compare, Unchanged,
           RecoveryInv, Eligible
  <2> QED
    BY <1>1, <2>1, <2>2
<1>7. CASE Retire(r)
  <2>1. LockInv' /\ ReceiptInv' /\ RecoveryInv'
    BY <1>7 DEF RecoveryInv, Eligible, Retire
  <2>2. HeldInv' /\ StepInv'
    BY <1>7 DEF HeldInv, StepInv, Clean, Held, Retire, RecoveryInv, Eligible
  <2> QED
    BY <1>1, <2>1, <2>2
<1>8. CASE GiveUp(r)
  <2>1. LockInv' /\ ReceiptInv' /\ RecoveryInv'
    BY <1>8 DEF RecoveryInv, Eligible, GiveUp
  <2>2. HeldInv' /\ StepInv'
    BY <1>8 DEF HeldInv, StepInv, Clean, Held, GiveUp, RecoveryInv, Eligible
  <2> QED
    BY <1>1, <2>1, <2>2
<1> QED
  BY <1>2, <1>3, <1>4, <1>5, <1>6, <1>7, <1>8

-----------------------------------------------------------------------------
\* Every step preserves the inductive invariant.
LEMMA StepPreserves == IInv /\ [Next]_vars => IInv'
<1> SUFFICES ASSUME IInv, [Next]_vars PROVE IInv'
  OBVIOUS
<1>1. ASSUME NEW s \in Servers, Serve(s) PROVE IInv'
  BY <1>1, ClaimStepInv, LeaseStepInv, QmiClientStepInv, ChannelStepInv,
     HelperStepInv
     DEF Serve, Operate
<1>2. ASSUME NEW r \in Recoverers, Recover(r) PROVE IInv'
  BY <1>2, RecoverStepInv DEF Recover
<1>3. CASE Card \/ ManualReview
  BY <1>3, CardStepInv DEF Card, Requests
<1>4. CASE UNCHANGED vars
  BY <1>4 DEF vars, IInv, TypeOK, ProcType, MemType, DiskType, CardType,
              ToolType, LockInv, ReceiptInv, LeaseCovered, RecoveryInv,
              Eligible, HeldInv, StepInv, Clean, Held
<1> QED
  BY <1>1, <1>2, <1>3, <1>4 DEF Next

\* The inductive invariant holds in every reachable state.
THEOREM Invariance == Spec => []IInv
BY InitInv, StepPreserves, PTL DEF Spec

\* Type correctness.
THEOREM TypeCorrect == Spec => []TypeOK
<1>1. IInv => TypeOK
  BY DEF IInv
<1> QED
  BY <1>1, Invariance, PTL

\* NothingForgotten for any number of processes: whatever the card holds or
\* may yet allocate is covered by an unconfirmed receipt on disk.
THEOREM NeverForgotten == Spec => []NothingForgotten
<1>1. IInv => NothingForgotten
  BY DEF IInv, HeldInv, Clean, NothingForgotten, Busy
<1> QED
  BY <1>1, Invariance, PTL

\* SingleHolder for any number of processes: no second client or channel.
THEOREM HeldOnce == Spec => []SingleHolder
<1>1. IInv => SingleHolder
  BY DEF IInv, HeldInv, SingleHolder
<1> QED
  BY <1>1, Invariance, PTL

\* LeaseCovered for any number of recoveries: none takes a live receipt.
THEOREM Covered == Spec => []LeaseCovered
<1>1. IInv => LeaseCovered
  BY DEF IInv, ReceiptInv
<1> QED
  BY <1>1, Invariance, PTL

\* Only CloseChannel and Release put a close or a release on the line.
LEMMA SendsStep == IInv /\ [Next]_vars => SendsForHeld
<1> SUFFICES ASSUME IInv, [Next]_vars PROVE SendsForHeld
  OBVIOUS
<1>1. ASSUME NEW s \in Servers, CloseChannel(s) PROVE SendsForHeld
  BY <1>1 DEF IInv, StepInv, Held, CloseChannel, At, Send, SendsForHeld
<1>2. ASSUME NEW s \in Servers, Release(s) PROVE SendsForHeld
  BY <1>2 DEF IInv, StepInv, Held, Release, At, Send, SendsForHeld
<1>3. ASSUME NEW s \in Servers, SendAllocate(s) \/ OpenChannel(s)
      PROVE  SendsForHeld
  BY <1>3 DEF SendAllocate, OpenChannel, Send, SendsForHeld
<1>4. ASSUME wire' \subseteq wire PROVE SendsForHeld
  BY <1>4 DEF SendsForHeld
<1>5. ASSUME NEW s \in Servers, Serve(s), ~CloseChannel(s), ~Release(s),
             ~SendAllocate(s), ~OpenChannel(s)
      PROVE  wire' \subseteq wire
  BY <1>5 DEF Serve, Operate, Lock, Claim, Crash, Begin, BeginFails, Drop,
              ConfirmCleanup, RemoveReceipt, ExchangeFails, Allocated,
              AllocateRefused, SkipChannel, Opened, OpenRefused, Closed,
              Abandon, Released, RunHelper, HelperSucceeds, HelperFails
<1>6. ASSUME NEW r \in Recoverers, Recover(r) PROVE wire' \subseteq wire
  BY <1>6 DEF Recover, Plan, ApplyLock, Recheck, Archive, Compare, Retire,
              GiveUp
<1>7. CASE Card \/ ManualReview
  <2>1. wire' \subseteq wire
    BY <1>7 DEF Card, HelperWorks, CardExecutes, CardRefuses, ManualReview
  <2> QED
    BY <2>1, <1>4
<1>8. CASE UNCHANGED vars
  BY <1>8, <1>4 DEF vars
<1> QED
  BY <1>1, <1>2, <1>3, <1>4, <1>5, <1>6, <1>7, <1>8 DEF Next

\* NoBlindClose for any number of processes: no id is closed or released
\* that the card does not hold.
THEOREM NeverBlind == Spec => NoBlindClose
BY SendsStep, Invariance, PTL DEF Spec, NoBlindClose

\* While a recovery holds the flocks no process does, so the receipt changes
\* only in the recovery's own last step.
LEMMA RetiresStep == IInv /\ [Next]_vars => RetiresResolved
<1> SUFFICES ASSUME IInv, [Next]_vars, lock \in Recoverers,
                    receipt' # receipt
             PROVE  Eligible /\ rowner \in archive
  BY DEF RetiresResolved, Eligible
<1> USE DEF IInv, TypeOK, ProcType, ToolType, LockInv
<1>1. ASSUME NEW s \in Servers, Serve(s) PROVE FALSE
  <2>1. proc[s] \notin {"claiming", "serving"}
    OBVIOUS
  <2> QED
    BY <1>1, <2>1
       DEF Serve, Operate, At, Lock, Claim, Crash, Begin, BeginFails, Drop,
           ConfirmCleanup, RemoveReceipt, ExchangeFails, SendAllocate,
           Allocated, AllocateRefused, OpenChannel, SkipChannel, Opened,
           OpenRefused, CloseChannel, Closed, Release, Abandon, Released,
           RunHelper, HelperSucceeds, HelperFails
<1>2. ASSUME NEW r \in Recoverers, Recover(r)
      PROVE  Eligible /\ rowner \in archive
  <2>1. Retire(r)
    BY <1>2 DEF Recover, Plan, ApplyLock, Recheck, Archive, Compare, GiveUp
  <2> QED
    BY <2>1 DEF Retire, RecoveryInv
<1>3. ~Card /\ ~ManualReview /\ ~UNCHANGED vars
  BY DEF Card, HelperWorks, CardExecutes, CardRefuses, ManualReview, vars
<1> QED
  BY <1>1, <1>2, <1>3 DEF Next

\* RetiredWithEvidence for any number of processes and recoveries.
THEOREM RetiredSafely == Spec => RetiredWithEvidence
BY RetiresStep, Invariance, PTL DEF Spec, RetiredWithEvidence
=============================================================================
