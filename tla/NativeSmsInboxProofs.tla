------------------------- MODULE NativeSmsInboxProofs -------------------------
(***************************************************************************)
(* Proofs about NativeSmsInbox, for any cards, PDUs, messages, limits,     *)
(* deliveries, faults and exchanges of the card.                           *)
(***************************************************************************)
EXTENDS NativeSmsInbox, SequenceTheorems, TLAPS

Entry == [token : Nat, pdu : Pdus, key : Cards, live : BOOLEAN, fresh : BOOLEAN]

RouterType == [queue : Seq(Entry), key : Cards \cup {NoCard}, blocked : BOOLEAN,
               next : Nat]

CapType == [pc : {"idle", "bind", "poll", "direct", "commit", "scan", "stored",
                  "recheck", "reread", "delete", "promote"},
            key : Cards \cup {NoCard}, batch : Seq(Entry),
            list : SUBSET (Slots \X Pdus), committed : SUBSET (Slots \X Pdus),
            service : {"0", "1", "unknown"}]

TypeOK ==
  /\ service \in {"0", "1"}
  /\ card \in Cards
  /\ storage \in [Cards -> [Slots -> Pdus \cup {NoPdu}]]
  /\ awaiting \in Pdus \cup {NoPdu}
  /\ wire \in Seq(Pdus \cup {"cpin"})
  /\ router \in RouterType
  /\ cap \in CapType
  /\ rows \in [Cards -> [Pdus -> {"absent", "pending", "done"}]]
  /\ shown \in [Messages -> Nat]
  /\ released \subseteq Pdus

\* A capture has the card it began with, it only commits a PDU of its batch, and
\* the service it knows is the modem's unless the query failed.
CaptureInv ==
  /\ cap.pc # "idle" => cap.key \in Cards
  /\ cap.pc = "commit" => cap.batch # <<>>
  /\ cap.service \in {"unknown", service}

-----------------------------------------------------------------------------
(* What CNMA may be about.                                                 *)

CardChanging == \E i \in 1 .. Len(wire) : wire[i] = "cpin"

Acknowledgeable(e) == e.live /\ e.fresh

\* On a modem that wants CNMA, a PDU may only be the first of the unread lines,
\* and what the modem waits for is the last PDU it sent; it waits for nothing
\* while the announcement of another card is unread.
WireInv ==
  /\ \A i \in 1 .. Len(wire) : wire[i] # "cpin" => i = 1
  /\ CardChanging => awaiting = NoPdu
  /\ wire # <<>> /\ ~CardChanging => Head(wire) = awaiting

\* A PDU of the queue for which CNMA may be sent is the one the modem waits for,
\* and has no other PDU behind it.
QueueInv ==
  ~CardChanging =>
    \A i \in 1 .. Len(router.queue) :
      Acknowledgeable(router.queue[i]) =>
        router.queue[i].pdu = awaiting /\ wire = <<>>

CnmaInv == service = "1" => WireInv /\ QueueInv

\* No token occurs twice.
Distinct(q) == \A i, j \in 1 .. Len(q) : q[i].token = q[j].token => i = j

Names(e, f) == e.token = f.token => e.pdu = f.pdu

\* A token names one PDU, in the queue and in the batch of the capture.
TokenInv ==
  /\ Distinct(router.queue)
  /\ \A i \in 1 .. Len(router.queue) : router.queue[i].token < router.next
  /\ cap.pc \in {"direct", "commit"} =>
       \A i \in 1 .. Len(cap.batch) :
         /\ cap.batch[i].token < router.next
         /\ \A j \in 1 .. Len(router.queue) :
              Names(router.queue[j], cap.batch[i])

\* What a capture settles is durable.
StagedInv ==
  /\ At("commit") => Staged(Head(cap.batch).pdu)
  /\ \A e \in cap.committed : cap.pc # "idle" /\ Staged(e[2])

IInv == TypeOK /\ CaptureInv /\ CnmaInv /\ TokenInv /\ StagedInv

-----------------------------------------------------------------------------
(* One card.                                                               *)

\* A message was shown if and only if its fingerprint was recorded.
ShownInv ==
  \A m \in Messages, c \in Cards :
    shown[m] = IF <<c, {m}>> \in received THEN 1 ELSE 0

\* What is about to be deleted is what was kept.
DeleteInv ==
  At("delete") => \A e \in cap.committed : storage[card][e[1]] = e[2]
-----------------------------------------------------------------------------
(* Types.                                                                  *)

\* The place of an entry that is taken out closes up.
LEMMA WithoutProperties ==
  ASSUME NEW S, NEW q \in Seq(S), NEW i \in 1 .. Len(q)
  PROVE  /\ Without(q, i) \in Seq(S)
         /\ Len(Without(q, i)) = Len(q) - 1
         /\ \A j \in 1 .. Len(q) - 1 :
              Without(q, i)[j] = IF j < i THEN q[j] ELSE q[j + 1]
<1> DEFINE a == SubSeq(q, 1, i - 1)
           b == SubSeq(q, i + 1, Len(q))
<1>0. Len(q) \in Nat /\ i \in Int /\ \A j \in 1 .. Len(q) : q[j] \in S
  BY ElementOfSeq
<1>1. /\ a \in Seq(S) /\ Len(a) = i - 1
      /\ \A j \in 1 .. i - 1 : a[j] = q[j]
  <2>1. \A j \in 1 .. i - 1 : q[j] \in S
    BY <1>0
  <2> QED
    BY <1>0, <2>1, SubSeqProperties
<1>2. /\ b \in Seq(S) /\ Len(b) = Len(q) - i
      /\ \A j \in 1 .. Len(q) - i : b[j] = q[i + j]
  <2>1. \A j \in i + 1 .. Len(q) : q[j] \in S
    BY <1>0
  <2>2. /\ b \in Seq(S)
        /\ Len(b) = IF i + 1 <= Len(q) THEN Len(q) - (i + 1) + 1 ELSE 0
        /\ \A j \in 1 .. Len(q) - (i + 1) + 1 : b[j] = q[i + 1 + j - 1]
    BY <1>0, <2>1, SubSeqProperties
  <2> QED
    BY <1>0, <2>2
<1>3. Without(q, i) = a \o b
  BY DEF Without
<1> HIDE DEF a, b
<1>4. /\ a \o b \in Seq(S)
      /\ Len(a \o b) = Len(a) + Len(b)
      /\ \A j \in 1 .. Len(a) + Len(b) :
           (a \o b)[j] = IF j <= Len(a) THEN a[j] ELSE b[j - Len(a)]
  BY <1>1, <1>2, ConcatProperties
<1> QED
  BY <1>0, <1>1, <1>2, <1>3, <1>4

\* Entries that are no longer live are otherwise what they were.
LEMMA NoLongerLiveProperties ==
  ASSUME NEW q \in Seq(Entry)
  PROVE  /\ NoLongerLive(q) \in Seq(Entry)
         /\ Len(NoLongerLive(q)) = Len(q)
         /\ \A i \in 1 .. Len(q) :
              /\ NoLongerLive(q)[i].token = q[i].token
              /\ NoLongerLive(q)[i].pdu = q[i].pdu
              /\ ~NoLongerLive(q)[i].live
<1> DEFINE f(i) == [q[i] EXCEPT !.live = FALSE]
<1>1. \A i \in 1 .. Len(q) : q[i] \in Entry
  OBVIOUS
<1>2. \A i \in 1 .. Len(q) :
        /\ f(i) \in Entry /\ f(i).token = q[i].token /\ f(i).pdu = q[i].pdu
        /\ ~f(i).live
  BY <1>1 DEF Entry
<1>3. NoLongerLive(q) = [i \in 1 .. Len(q) |-> f(i)]
  BY DEF NoLongerLive
<1>4. Len(q) \in Nat
  OBVIOUS
<1> HIDE DEF f
<1>5. NoLongerLive(q) \in Seq(Entry) /\ Len(NoLongerLive(q)) = Len(q)
  BY <1>2, <1>3, <1>4
<1> QED
  BY <1>2, <1>3, <1>5

\* The initial state is typed.
LEMMA TypeInit == Init => TypeOK
BY InboxAssumption DEF Init, TypeOK, Fresh, Idle, RouterType, CapType

\* The capture between two captures.
LEMMA IdleType ==
  /\ Idle \in CapType
  /\ Idle.pc = "idle" /\ Idle.committed = {} /\ Idle.service = "unknown"
BY DEF Idle, CapType

Pcs == {"idle", "bind", "poll", "direct", "commit", "scan", "stored", "recheck",
        "reread", "delete", "promote"}

\* A capture that goes on keeps what it knows.
LEMMA GotoType ==
  ASSUME cap \in CapType, NEW pc \in Pcs, Goto(pc)
  PROVE  /\ cap' \in CapType
         /\ cap'.pc = pc /\ cap'.key = cap.key /\ cap'.batch = cap.batch
         /\ cap'.list = cap.list /\ cap'.committed = cap.committed
         /\ cap'.service = cap.service
BY DEF CapType, Goto, Pcs

\* The PDU a capture is about.
LEMMA HeadEntry ==
  ASSUME cap \in CapType, cap.batch # <<>>
  PROVE  Head(cap.batch) \in Entry /\ Head(cap.batch).pdu \in Pdus
<1>1. cap.batch \in Seq(Entry)
  BY DEF CapType
<1>2. Head(cap.batch) \in Entry
  BY <1>1, HeadTailProperties
<1> QED
  BY <1>2 DEF Entry

\* Every step keeps the capture typed.
LEMMA CapStep ==
  ASSUME TypeOK, CaptureInv, [Next]_vars
  PROVE  cap' \in CapType /\ CaptureInv'
<1>0. service' = service
  BY DEF Next, Capture, Environment, ReadSim, BindSim, Poll, StageDirect, Commit,
         Scan, StageStored, Recheck, Reread, Delete, Promote, EndCapture, Route,
         DeliverDirect, DeliverStored, Deliver, GiveUp, Swap, Grow, Reset,
         CommandFails, Restart, Suspend, Admit, modemVars, vars
<1> USE <1>0 DEF TypeOK, CaptureInv
<1>1. CASE UNCHANGED cap
  BY <1>1
<1>2. CASE Abandon
  BY <1>2, IdleType DEF Abandon
<1>3. ASSUME NEW pc \in Pcs, Goto(pc), cap.pc # "idle",
             pc = "commit" => cap.batch # <<>>
      PROVE  cap' \in CapType /\ CaptureInv'
  BY <1>3, GotoType
<1>4. CASE ReadSim
  BY <1>4, IdleType DEF ReadSim, CapType
<1>5. CASE Poll
  BY <1>5 DEF Poll, At, CapType, RouterType
<1>6. CASE BindSim
  BY <1>2, <1>3, <1>6 DEF BindSim, At, Pcs
<1>7. CASE StageDirect
  BY <1>2, <1>3, <1>7 DEF StageDirect, At, Deferred, Pcs
<1>8. CASE Commit
  <2>1. Tail(cap.batch) \in Seq(Entry)
    BY <1>8, HeadTailProperties DEF Commit, At, CapType
  <2> QED
    BY <1>8, <2>1 DEF Commit, NextDirect, At, CapType
<1>9. CASE Scan
  <2>1. Listed \in SUBSET (Slots \X Pdus)
    BY DEF Listed
  <2> QED
    BY <1>3, <1>9, <2>1 DEF Scan, At, CapType, Pcs
<1>10. CASE StageStored
  <2>1. ASSUME NEW e \in cap.list,
               cap' = [cap EXCEPT !.list = @ \ {e}, !.committed = @ \cup {e}]
        PROVE  cap' \in CapType /\ CaptureInv'
    BY <1>10, <2>1 DEF StageStored, At, CapType
  <2> QED
    BY <1>3, <1>10, <2>1 DEF StageStored, At, Deferred, Pcs
<1>11. CASE Recheck \/ EndCapture \/ CommandFails \/ Restart
  BY <1>2, <1>3, <1>11
     DEF Recheck, EndCapture, CommandFails, Restart, Abandon, At, Pcs
<1>12. CASE Reread
  BY <1>12 DEF Reread, At, CapType, Unchanged
<1>13. CASE Delete
  <2>1. ASSUME NEW e, cap' = [cap EXCEPT !.committed = @ \ {e}]
        PROVE  cap' \in CapType /\ CaptureInv'
    BY <1>13, <2>1 DEF Delete, At, CapType
  <2> QED
    BY <1>3, <1>13, <2>1 DEF Delete, At, Pcs
<1> QED
  BY <1>1, <1>4, <1>5, <1>6, <1>7, <1>8, <1>9, <1>10, <1>11, <1>12, <1>13
     DEF Next, Capture, Environment, Promote, Route, DeliverDirect, DeliverStored,
         Deliver, GiveUp, Swap, Grow, Reset, Suspend, Admit, vars
-----------------------------------------------------------------------------
(* The router's queue.                                                     *)

\* An entry of the queue, which may have aged.
Aged(e, f) ==
  /\ e.token = f.token /\ e.pdu = f.pdu
  /\ Acknowledgeable(f) => Acknowledgeable(e)

\* r is what is left of q.
Shrinks(q, r) ==
  /\ r \in Seq(Entry)
  /\ \A j \in 1 .. Len(r) : \E i \in 1 .. Len(q) : Aged(q[i], r[j])
  /\ Distinct(q) => Distinct(r)

\* A queue that stays as it is, that is cleared, that loses an entry, whose
\* entries are no longer live, or one of which ages.
LEMMA ShrinksSame == ASSUME NEW q \in Seq(Entry) PROVE Shrinks(q, q)
BY DEF Shrinks, Aged

\* A queue that is cleared.
LEMMA ShrinksEmpty == ASSUME NEW q \in Seq(Entry) PROVE Shrinks(q, <<>>)
BY DEF Shrinks, Distinct

\* A queue that loses an entry.
LEMMA ShrinksWithout ==
  ASSUME NEW q \in Seq(Entry), NEW i \in 1 .. Len(q)
  PROVE  Shrinks(q, Without(q, i))
<1> DEFINE r == Without(q, i)
<1>1. /\ Len(q) \in Nat
      /\ r \in Seq(Entry) /\ Len(r) = Len(q) - 1
      /\ \A j \in 1 .. Len(q) - 1 : r[j] = IF j < i THEN q[j] ELSE q[j + 1]
  BY WithoutProperties
<1> HIDE DEF r
<1> DEFINE k(j) == IF j < i THEN j ELSE j + 1
<1>2. \A j \in 1 .. Len(r) : k(j) \in 1 .. Len(q) /\ r[j] = q[k(j)]
  BY <1>1
<1>3. \A j, l \in 1 .. Len(r) : k(j) = k(l) => j = l
  BY <1>1
<1> HIDE DEF k
<1>4. \A j \in 1 .. Len(r) : \E l \in 1 .. Len(q) : Aged(q[l], r[j])
  BY <1>2 DEF Aged
<1>5. ASSUME Distinct(q) PROVE Distinct(r)
  BY <1>2, <1>3, <1>5 DEF Distinct
<1> QED
  BY <1>1, <1>4, <1>5 DEF Shrinks, r

\* A queue whose entries are no longer live.
LEMMA ShrinksNoLongerLive ==
  ASSUME NEW q \in Seq(Entry) PROVE Shrinks(q, NoLongerLive(q))
<1> DEFINE r == NoLongerLive(q)
<1>1. /\ r \in Seq(Entry) /\ Len(r) = Len(q)
      /\ \A i \in 1 .. Len(q) :
           r[i].token = q[i].token /\ r[i].pdu = q[i].pdu /\ ~r[i].live
  BY NoLongerLiveProperties
<1> QED
  BY <1>1 DEF Shrinks, Aged, Acknowledgeable, Distinct

\* A queue in which an entry ages.
LEMMA ShrinksGrow ==
  ASSUME NEW q \in Seq(Entry), NEW i \in 1 .. Len(q)
  PROVE  Shrinks(q, [q EXCEPT ![i].fresh = FALSE])
<1> DEFINE e == [q[i] EXCEPT !.fresh = FALSE]
           r == [q EXCEPT ![i] = e]
<1>1. e \in Entry /\ e.token = q[i].token /\ e.pdu = q[i].pdu /\ ~e.fresh
  <2>1. q[i] \in Entry
    BY ElementOfSeq
  <2> QED
    BY <2>1 DEF Entry
<1>2. r = [q EXCEPT ![i].fresh = FALSE]
  OBVIOUS
<1> HIDE DEF e
<1>3. /\ r \in Seq(Entry) /\ Len(r) = Len(q)
      /\ \A j \in 1 .. Len(q) : r[j] = IF j = i THEN e ELSE q[j]
  BY <1>1, ExceptSeq
<1> HIDE DEF r
<1>4. Shrinks(q, r)
  BY <1>1, <1>3 DEF Shrinks, Aged, Acknowledgeable, Distinct
<1> QED
  BY <1>2, <1>4
\* The router keeps its tokens and loses entries at most.
Loses == router'.next = router.next /\ Shrinks(router.queue, router'.queue)

NewEntry == [token |-> router.next, pdu |-> Head(wire), key |-> router.key,
             live |-> TRUE, fresh |-> TRUE]

\* The router reads a PDU and gives it a new token.
Gains ==
  /\ wire # <<>> /\ Head(wire) # "cpin" /\ NewEntry \in Entry
  /\ router'.queue = Append(router.queue, NewEntry)
  /\ router'.next = router.next + 1

\* The ways in which the router is written.
LEMMA SetQueue ==
  ASSUME router \in RouterType, NEW r, Shrinks(router.queue, r),
         router' = [router EXCEPT !.queue = r]
  PROVE  router' \in RouterType /\ Loses
BY DEF RouterType, Loses, Shrinks

\* The queue and the block are written together.
LEMMA SetQueueBlocked ==
  ASSUME router \in RouterType, NEW r, Shrinks(router.queue, r),
         NEW b \in BOOLEAN, router' = [router EXCEPT !.queue = r, !.blocked = b]
  PROVE  router' \in RouterType /\ Loses
BY DEF RouterType, Loses, Shrinks

\* The router is blocked.
LEMMA SetBlocked ==
  ASSUME router \in RouterType, router' = [router EXCEPT !.blocked = TRUE]
  PROVE  router' \in RouterType /\ Loses
<1>1. router' \in RouterType /\ router'.queue = router.queue
  BY DEF RouterType
<1>2. router'.next = router.next /\ router.queue \in Seq(Entry)
  BY DEF RouterType
<1> QED
  BY <1>1, <1>2, ShrinksSame DEF Loses

\* The router is cleared, for the same card or for another.
LEMMA SetCleared ==
  ASSUME router \in RouterType
  PROVE  /\ router' = Cleared(router) => router' \in RouterType /\ Loses
         /\ \A k \in Cards : router' = [Cleared(router) EXCEPT !.key = k] =>
                               router' \in RouterType /\ Loses
<1> DEFINE c == Cleared(router)
<1>1. c \in RouterType /\ c.queue = <<>> /\ c.next = router.next
  <2> DEFINE none == <<>>
  <2>1. none \in Seq(Entry)
    OBVIOUS
  <2>2. c = [router EXCEPT !.queue = none, !.key = NoCard, !.blocked = FALSE]
    BY DEF Cleared
  <2> HIDE DEF none, c
  <2>3. c \in RouterType /\ c.queue = none /\ c.next = router.next
    BY <2>1, <2>2 DEF RouterType
  <2> QED
    BY <2>3 DEF none
<1>2. Shrinks(router.queue, <<>>)
  BY ShrinksEmpty DEF RouterType
<1> HIDE DEF c
<1>3. ASSUME NEW k \in Cards, router' = [c EXCEPT !.key = k]
      PROVE  router' \in RouterType /\ Loses
  <2>1. router' \in RouterType /\ router'.queue = <<>> /\ router'.next = router.next
    BY <1>1, <1>3 DEF RouterType
  <2> QED
    BY <1>2, <2>1 DEF Loses
<1>4. router' = c => router' \in RouterType /\ Loses
  BY <1>1, <1>2 DEF Loses
<1> QED
  BY <1>3, <1>4 DEF c

\* Reading a line.
LEMMA RouterRoute ==
  ASSUME TypeOK, Route
  PROVE  /\ router' \in RouterType /\ (Loses \/ Gains)
         /\ Head(wire) = "cpin" => router'.queue = <<>>
<1> DEFINE q == router.queue
           n == router.next
<1> USE DEF TypeOK
<1>0. q \in Seq(Entry) /\ router.key \in Cards \cup {NoCard} /\ n \in Nat
  BY DEF RouterType
<1>1. CASE Head(wire) = "cpin"
  <2>1. router' = Cleared(router)
    BY <1>1 DEF Route
  <2>2. router'.queue = <<>>
    BY <2>1 DEF Cleared, RouterType
  <2> QED
    BY <2>1, <2>2, SetCleared
<1>2. CASE Head(wire) # "cpin" /\ router' = [router EXCEPT !.blocked = TRUE]
  BY <1>2, SetBlocked
<1>3. CASE /\ Head(wire) # "cpin" /\ router.key # NoCard
           /\ router' = [router EXCEPT !.queue = Append(@, NewEntry), !.next = @ + 1]
  <2>1. wire # <<>> /\ NewEntry \in Entry
    BY <1>0, <1>3, HeadTailProperties DEF Route, NewEntry, Entry
  <2> DEFINE r == Append(q, NewEntry)
  <2>2. router' = [router EXCEPT !.queue = r, !.next = n + 1]
    BY <1>3
  <2>3. r \in Seq(Entry) /\ n + 1 \in Nat
    BY <1>0, <2>1
  <2> HIDE DEF r
  <2>4. router' \in RouterType /\ router'.queue = r /\ router'.next = n + 1
    BY <2>2, <2>3 DEF RouterType
  <2> QED
    BY <1>3, <2>1, <2>4 DEF Gains, r
<1> QED
  BY <1>1, <1>2, <1>3 DEF Route, NewEntry

\* Every step that is not a restart makes the router lose entries or read one.
LEMMA RouterStep ==
  ASSUME TypeOK, CaptureInv, [Next]_vars
  PROVE  router' \in RouterType /\ (Loses \/ (Route /\ Gains) \/ Restart)
<1> DEFINE Good == router' \in RouterType /\ (Loses \/ (Route /\ Gains) \/ Restart)
           q == router.queue
           n == router.next
<1> USE DEF TypeOK
<1>0. /\ q \in Seq(Entry) /\ router.key \in Cards \cup {NoCard}
      /\ router.blocked \in BOOLEAN /\ n \in Nat
  BY DEF RouterType
<1>1. CASE UNCHANGED router
  BY <1>0, <1>1, ShrinksSame DEF Loses
<1>3. CASE BindSim
  <2>1. cap.key \in Cards
    BY <1>3 DEF BindSim, At, CaptureInv
  <2> QED
    BY <1>1, <1>3, <2>1, SetCleared DEF BindSim
<1>4. CASE Commit
  <2>1. Shrinks(q, NoLongerLive(q))
    BY <1>0, ShrinksNoLongerLive
  <2>2. CASE router' = [router EXCEPT !.blocked = TRUE]
    BY <2>2, SetBlocked
  <2>3. CASE \E b \in BOOLEAN :
               router' = [router EXCEPT !.queue = NoLongerLive(q), !.blocked = b]
    BY <2>1, <2>3, SetQueueBlocked
  <2>4. ASSUME NEW i \in 1 .. Len(q), Take(i) \/ TakeBlocked(i)
        PROVE  Good
    <3>1. Shrinks(q, Without(q, i))
      BY <1>0, ShrinksWithout
    <3> QED
      BY <2>4, <3>1, SetQueue, SetQueueBlocked DEF Take, TakeBlocked
  <2> QED
    BY <1>0, <1>4, <2>2, <2>3, <2>4 DEF Commit
<1>5. CASE Route
  BY <1>5, RouterRoute
<1>6. ASSUME NEW i \in 1 .. QueueLimit, Grow(i) PROVE Good
  <2> DEFINE r == [q EXCEPT ![i].fresh = FALSE]
  <2>1. router' = [router EXCEPT !.queue = r]
    BY <1>6 DEF Grow
  <2>2. Shrinks(q, r)
    BY <1>0, <1>6, ShrinksGrow DEF Grow
  <2> HIDE DEF r
  <2> QED
    BY <2>1, <2>2, SetQueue
<1>7. CASE Reset
  <2> DEFINE r == NoLongerLive(q)
  <2>1. Shrinks(q, r)
    BY <1>0, ShrinksNoLongerLive
  <2>2. PICK b \in BOOLEAN : router' = [router EXCEPT !.queue = r, !.blocked = b]
    BY <1>0, <1>7 DEF Reset
  <2> HIDE DEF r
  <2> QED
    BY <2>1, <2>2, SetQueueBlocked
<1>8. CASE Restart
  BY <1>8 DEF Restart, Fresh, RouterType
<1> QED
  BY <1>1, <1>3, <1>4, <1>5, <1>6, <1>7, <1>8
     DEF Next, Capture, Environment, ReadSim, Poll, StageDirect, Scan, StageStored,
         Recheck, Reread, Delete, Promote, EndCapture, DeliverDirect,
         DeliverStored, Deliver, GiveUp, Swap, CommandFails, Suspend, Admit, vars
-----------------------------------------------------------------------------
(* The inbox.                                                              *)

RowsType == [Cards -> [Pdus -> {"absent", "pending", "done"}]]

\* A PDU that was staged stays in the inbox.
Kept ==
  \A c \in Cards, p \in Pdus : rows[c][p] # "absent" => rows'[c][p] # "absent"

\* Staging writes one row at most.
LEMMA StageRows ==
  ASSUME TypeOK, NEW p \in Pdus, cap.key \in Cards, Stage(p)
  PROVE  /\ rows' \in RowsType
         /\ \A c \in Cards, q \in Pdus :
              rows'[c][q] = IF c = cap.key /\ q = p /\ rows[c][q] = "absent"
                            THEN "pending" ELSE rows[c][q]
<1> DEFINE k == cap.key
           r == [rows[k] EXCEPT ![p] = "pending"]
<1>1. /\ r \in [Pdus -> {"absent", "pending", "done"}]
      /\ \A q \in Pdus : r[q] = IF q = p THEN "pending" ELSE rows[k][q]
  BY DEF TypeOK
<1>2. rows' = IF rows[k][p] # "absent" THEN rows ELSE [rows EXCEPT ![k] = r]
  BY DEF Stage, Staged
<1> HIDE DEF r
<1> QED
  BY <1>1, <1>2 DEF TypeOK, RowsType

\* Promotion marks the rows of one message.
LEMMA PromoteRows ==
  ASSUME TypeOK, CaptureInv, NEW m \in Messages, Promote(m)
  PROVE  /\ rows' \in RowsType
         /\ \A c \in Cards, q \in Pdus :
              rows'[c][q] = IF c = cap.key /\ q \in PendingOf(m)
                            THEN "done" ELSE rows[c][q]
<1> DEFINE k == cap.key
           r == [q \in Pdus |-> IF q \in PendingOf(m) THEN "done" ELSE rows[k][q]]
<1>0. k \in Cards
  BY DEF CaptureInv, Promote, At
<1>1. /\ r \in [Pdus -> {"absent", "pending", "done"}]
      /\ \A q \in Pdus : r[q] = IF q \in PendingOf(m) THEN "done" ELSE rows[k][q]
  BY <1>0 DEF TypeOK
<1>2. rows' = [rows EXCEPT ![k] = r]
  BY DEF Promote
<1> HIDE DEF r
<1> QED
  BY <1>0, <1>1, <1>2 DEF TypeOK, RowsType

\* Every step keeps the inbox typed and what is in it.
LEMMA RowsStep ==
  ASSUME TypeOK, CaptureInv, [Next]_vars
  PROVE  rows' \in RowsType /\ Kept
<1>1. CASE UNCHANGED rows
  BY <1>1 DEF TypeOK, RowsType, Kept
<1>2. ASSUME NEW p \in Pdus, cap.key \in Cards, Stage(p)
      PROVE  rows' \in RowsType /\ Kept
  BY <1>2, StageRows DEF Kept
<1>3. CASE StageDirect
  <2>1. cap.key \in Cards /\ (cap.batch # <<>> => Head(cap.batch).pdu \in Pdus)
    BY <1>3, HeadEntry DEF StageDirect, At, CaptureInv, TypeOK
  <2> QED
    BY <1>1, <1>2, <1>3, <2>1 DEF StageDirect
<1>4. CASE StageStored
  <2>1. cap.key \in Cards /\ \A e \in cap.list : e[2] \in Pdus
    BY <1>4 DEF StageStored, At, CaptureInv, TypeOK, CapType
  <2> QED
    BY <1>1, <1>2, <1>4, <2>1 DEF StageStored
<1>5. ASSUME NEW m \in Messages, Promote(m) PROVE rows' \in RowsType /\ Kept
  BY <1>5, PromoteRows DEF Kept, PendingOf
<1> QED
  BY <1>1, <1>3, <1>4, <1>5
     DEF Next, Capture, Environment, ReadSim, BindSim, Poll, Commit, Scan, Recheck,
         Reread, Delete, EndCapture, Route, DeliverDirect, DeliverStored, Deliver,
         GiveUp, Swap, Grow, Reset, CommandFails, Restart, Suspend, Admit,
         inboxVars, vars

\* No lines are lines.
LEMMA NoLines ==
  ASSUME wire \in Seq(Pdus \cup {"cpin"}), wire' \in {wire, <<>>}
  PROVE  wire' \in Seq(Pdus \cup {"cpin"})
<1>1. CASE wire' = wire
  BY <1>1
<1>2. CASE wire' = <<>>
  BY <1>2, EmptySeq
<1> QED
  BY <1>1, <1>2

\* Every step keeps the variables typed.
LEMMA TypeStep ==
  TypeOK /\ CaptureInv /\ [Next]_vars => TypeOK' /\ CaptureInv'
<1> SUFFICES ASSUME TypeOK, CaptureInv, [Next]_vars PROVE TypeOK' /\ CaptureInv'
  OBVIOUS
<1>0. /\ cap' \in CapType /\ CaptureInv'
      /\ router' \in RouterType
      /\ rows' \in [Cards -> [Pdus -> {"absent", "pending", "done"}]]
  BY CapStep, RouterStep, RowsStep DEF RowsType
<1> USE <1>0, InboxAssumption DEF TypeOK, modemVars, inboxVars, boundVars
<1>1. CASE \/ ReadSim \/ BindSim \/ Poll \/ StageDirect \/ Scan \/ StageStored
           \/ Recheck \/ Reread \/ EndCapture \/ CommandFails \/ Suspend \/ Admit
  BY <1>1 DEF ReadSim, BindSim, Poll, StageDirect, Scan, StageStored, Recheck,
              Reread, EndCapture, CommandFails, Suspend, Admit
<1>2. CASE Commit
  <2>1. wire' \in {wire, <<>>}
    BY <1>2 DEF Commit
  <2>2. \/ UNCHANGED <<awaiting, released>>
        \/ awaiting' = NoPdu /\ released' = released \cup ({awaiting} \ {NoPdu})
    BY <1>2 DEF Commit, Acknowledge
  <2>3. wire' \in Seq(Pdus \cup {"cpin"})
    BY <2>1, NoLines
  <2>4. awaiting' \in Pdus \cup {NoPdu} /\ released' \subseteq Pdus
    BY <2>2
  <2> QED
    BY <1>2, <2>3, <2>4 DEF Commit
<1>3. CASE Delete
  <2>1. CASE UNCHANGED <<storage, released>>
    BY <1>3, <2>1 DEF Delete
  <2>2. ASSUME NEW e \in cap.committed,
               storage' = [storage EXCEPT ![card][e[1]] = NoPdu],
               released' = released \cup ({storage[card][e[1]]} \ {NoPdu})
        PROVE  TypeOK' /\ CaptureInv'
    <3>1. e[1] \in Slots
      BY DEF CapType
    <3> DEFINE r == [storage[card] EXCEPT ![e[1]] = NoPdu]
    <3>2. r \in [Slots -> Pdus \cup {NoPdu}]
      OBVIOUS
    <3>3. storage' = [storage EXCEPT ![card] = r]
      BY <2>2
    <3> HIDE DEF r
    <3>4. storage' \in [Cards -> [Slots -> Pdus \cup {NoPdu}]]
      BY <3>2, <3>3
    <3>5. released' \subseteq Pdus
      BY <2>2, <3>1
    <3> QED
      BY <1>3, <3>4, <3>5 DEF Delete
  <2> QED
    BY <1>3, <2>1, <2>2 DEF Delete
<1>4. ASSUME NEW m \in Messages, Promote(m) PROVE TypeOK' /\ CaptureInv'
  BY <1>4 DEF Promote
<1>5. CASE Route
  BY <1>5, HeadTailProperties DEF Route
<1>6. ASSUME NEW p \in Pdus, DeliverDirect(p) PROVE TypeOK' /\ CaptureInv'
  BY <1>6 DEF DeliverDirect, Deliver
<1>7. ASSUME NEW p \in Pdus, NEW s \in Slots, DeliverStored(p, s)
      PROVE  TypeOK' /\ CaptureInv'
  BY <1>7 DEF DeliverStored, Deliver
<1>8. CASE GiveUp \/ Reset \/ Restart
  <2>1. wire' \in {wire, <<>>}
    BY <1>8 DEF GiveUp, Reset, Restart
  <2>2. wire' \in Seq(Pdus \cup {"cpin"})
    BY <2>1, NoLines
  <2> QED
    BY <1>8, <2>2 DEF GiveUp, Reset, Restart
<1>9. ASSUME NEW c \in Cards, Swap(c) PROVE TypeOK' /\ CaptureInv'
  BY <1>9 DEF Swap
<1>10. ASSUME NEW i \in 1 .. QueueLimit, Grow(i) PROVE TypeOK' /\ CaptureInv'
  BY <1>10 DEF Grow
<1>11. CASE UNCHANGED vars
  BY <1>11 DEF vars
<1> QED
  BY <1>1, <1>2, <1>3, <1>4, <1>5, <1>6, <1>7, <1>8, <1>9, <1>10, <1>11
     DEF Next, Capture, Environment
-----------------------------------------------------------------------------
(* CNMA.                                                                   *)

\* Lines of the modem: what is read first, and what is left.
LEMMA WireHead ==
  ASSUME TypeOK, wire # <<>>
  PROVE  /\ Len(wire) \in Nat \ {0} /\ Head(wire) = wire[1]
         /\ wire[1] \in Pdus \cup {"cpin"}
         /\ ~CardChanging => wire[1] \in Pdus
BY DEF TypeOK, CardChanging

\* Losing entries leaves no PDU that CNMA could be mistaken for.
LEMMA CnmaKept ==
  ASSUME TypeOK, CnmaInv, UNCHANGED <<service, awaiting, wire>>, Loses
  PROVE  CnmaInv'
<1> SUFFICES ASSUME service = "1" PROVE WireInv' /\ QueueInv'
  BY DEF CnmaInv
<1>1. WireInv /\ QueueInv
  BY DEF CnmaInv
<1>2. WireInv'
  BY <1>1 DEF WireInv, CardChanging
<1>3. QueueInv'
  BY <1>1 DEF QueueInv, CardChanging, Loses, Shrinks, Aged
<1> QED
  BY <1>2, <1>3

\* An empty wire and a queue with nothing to acknowledge are in order.
LEMMA CnmaQuiet ==
  ASSUME wire' = <<>>,
         \A i \in 1 .. Len(router'.queue) : ~Acknowledgeable(router'.queue[i])
  PROVE  CnmaInv'
<1>1. ~CardChanging'
  BY DEF CardChanging
<1>2. WireInv'
  BY <1>1 DEF WireInv
<1> QED
  BY <1>2 DEF CnmaInv, QueueInv, Acknowledgeable

\* Reading a line.
LEMMA CnmaRoute ==
  ASSUME TypeOK, CaptureInv, CnmaInv, Route, service = "1"
  PROVE  CnmaInv'
<1>0. /\ wire # <<>> /\ wire' = Tail(wire) /\ UNCHANGED <<service, awaiting>>
      /\ WireInv /\ QueueInv /\ (Loses \/ Gains)
      /\ Head(wire) = "cpin" => router'.queue = <<>>
  BY RouterRoute DEF CnmaInv, Route, modemVars
<1>1. /\ Len(wire) \in Nat \ {0} /\ Head(wire) = wire[1]
      /\ Len(wire') = Len(wire) - 1
      /\ \A i \in 1 .. Len(wire') : wire'[i] = wire[i + 1]
      /\ wire' = <<>> <=> Len(wire) = 1
  <2>1. Len(wire) \in Nat \ {0} /\ Head(wire) = wire[1]
    BY <1>0, WireHead
  <2>2. /\ wire' \in Seq(Pdus \cup {"cpin"}) /\ Len(wire') = Len(wire) - 1
        /\ \A i \in 1 .. Len(wire') : wire'[i] = wire[i + 1]
    BY <1>0, HeadTailProperties DEF TypeOK
  <2>3. wire' = <<>> <=> Len(wire') = 0
    BY <2>2, EmptySeq
  <2> QED
    BY <2>1, <2>2, <2>3
<1>2. \A i \in 1 .. Len(wire') : wire'[i] = "cpin"
  BY <1>0, <1>1 DEF WireInv
<1>3. CardChanging' <=> wire' # <<>>
  BY <1>1, <1>2 DEF CardChanging
<1>4. CardChanging' => CardChanging
  BY <1>1 DEF CardChanging
<1>5. WireInv'
  BY <1>0, <1>2, <1>3, <1>4, InboxAssumption DEF WireInv
<1>6. QueueInv'
  <2> SUFFICES ASSUME ~CardChanging', NEW j \in 1 .. Len(router'.queue),
                      Acknowledgeable(router'.queue[j])
               PROVE  router'.queue[j].pdu = awaiting' /\ wire' = <<>>
    BY DEF QueueInv
  <2>1. wire' = <<>> /\ Len(wire) = 1
    BY <1>1, <1>3
  <2>2. wire[1] # "cpin"
    BY <1>0, <1>1
  <2>3. ~CardChanging /\ wire[1] = awaiting
    BY <1>0, <1>1, <2>1, <2>2 DEF CardChanging, WireInv
  <2>4. \A i \in 1 .. Len(router.queue) : ~Acknowledgeable(router.queue[i])
    BY <1>0, <2>3 DEF QueueInv
  <2>5. CASE Loses
    BY <2>4, <2>5 DEF Loses, Shrinks, Aged
  <2>6. CASE Gains
    <3>1. router.queue \in Seq(Entry) /\ NewEntry \in Entry
      BY <2>6 DEF Gains, TypeOK, RouterType
    <3>2. \/ j \in 1 .. Len(router.queue) /\ router'.queue[j] = router.queue[j]
          \/ router'.queue[j] = NewEntry
      BY <2>6, <3>1, AppendProperties DEF Gains
    <3>3. router'.queue[j] = NewEntry
      BY <2>4, <3>2
    <3> QED
      BY <1>0, <1>1, <2>1, <2>3, <3>3 DEF NewEntry
  <2> QED
    BY <1>0, <2>5, <2>6
<1> QED
  BY <1>5, <1>6 DEF CnmaInv

\* The modem hands a PDU over.
LEMMA CnmaDeliver ==
  ASSUME TypeOK, CnmaInv, service = "1", NEW p \in Pdus, DeliverDirect(p)
  PROVE  CnmaInv'
<1>1. /\ awaiting = NoPdu /\ awaiting' = p /\ wire' = Append(wire, p)
      /\ UNCHANGED router /\ ~CardChanging /\ WireInv /\ QueueInv
  BY DEF DeliverDirect, Deliver, CardChanging, CnmaInv
<1>2. wire = <<>>
  BY <1>1, WireHead, InboxAssumption DEF WireInv
<1>3. wire' = <<p>> /\ Len(wire') = 1 /\ wire'[1] = p /\ Head(wire') = p
  BY <1>1, <1>2
<1>4. ~CardChanging' /\ WireInv'
  BY <1>1, <1>3, InboxAssumption DEF CardChanging, WireInv
<1>5. \A i \in 1 .. Len(router.queue) : router.queue[i].pdu \in Pdus
  <2>1. router.queue \in Seq(Entry)
    BY DEF TypeOK, RouterType
  <2>2. \A i \in 1 .. Len(router.queue) : router.queue[i] \in Entry
    BY <2>1, ElementOfSeq
  <2> QED
    BY <2>2 DEF Entry
<1>6. QueueInv'
  BY <1>1, <1>5, InboxAssumption DEF QueueInv
<1> QED
  BY <1>4, <1>6 DEF CnmaInv

\* The modem gives a PDU up.
LEMMA CnmaGiveUp ==
  ASSUME TypeOK, CnmaInv, service = "1", GiveUp
  PROVE  CnmaInv'
<1>1. /\ awaiting # NoPdu /\ UNCHANGED <<wire, router>> /\ WireInv /\ QueueInv
      /\ \A i \in 1 .. Len(wire) : wire[i] # awaiting
      /\ \A i \in 1 .. Len(router.queue) :
           router.queue[i].pdu = awaiting => ~router.queue[i].fresh
  BY DEF GiveUp, CnmaInv
<1>2. ~CardChanging
  BY <1>1 DEF WireInv
<1>3. wire = <<>>
  BY <1>1, <1>2, WireHead DEF WireInv
<1>4. \A i \in 1 .. Len(router.queue) : ~Acknowledgeable(router.queue[i])
  BY <1>1, <1>2 DEF QueueInv, Acknowledgeable
<1> QED
  BY <1>1, <1>3, <1>4, CnmaQuiet

\* Another card is announced.
LEMMA CnmaSwap ==
  ASSUME TypeOK, CnmaInv, service = "1", NEW c \in Cards, Swap(c)
  PROVE  CnmaInv'
<1>1. awaiting' = NoPdu /\ wire' = Append(wire, "cpin") /\ WireInv
  BY DEF Swap, CnmaInv
<1>2. /\ Len(wire) \in Nat /\ Len(wire') = Len(wire) + 1
      /\ \A i \in 1 .. Len(wire) : wire'[i] = wire[i]
      /\ wire'[Len(wire) + 1] = "cpin"
  BY <1>1, AppendProperties DEF TypeOK
<1>3. CardChanging'
  BY <1>2 DEF CardChanging
<1>4. WireInv'
  BY <1>1, <1>2, <1>3 DEF WireInv
<1> QED
  BY <1>3, <1>4 DEF CnmaInv, QueueInv

\* A PDU is settled.
LEMMA CnmaCommit ==
  ASSUME TypeOK, CaptureInv, CnmaInv, service = "1", Commit, Loses
  PROVE  CnmaInv'
<1>0. /\ service' = service /\ router.queue \in Seq(Entry) /\ WireInv /\ QueueInv
  BY DEF Commit, CnmaInv, TypeOK, RouterType
<1>1. CASE UNCHANGED <<awaiting, wire>>
  BY <1>0, <1>1, CnmaKept
<1>2. CASE wire' = <<>> /\ \E b \in BOOLEAN :
             router' = [router EXCEPT !.queue = NoLongerLive(@), !.blocked = b]
  <2>1. router'.queue = NoLongerLive(router.queue)
    BY <1>2 DEF TypeOK, RouterType
  <2> QED
    BY <1>0, <1>2, <2>1, NoLongerLiveProperties, CnmaQuiet DEF Acknowledgeable
<1>3. ASSUME NEW i \in 1 .. Len(router.queue), MayAcknowledge(i), Take(i),
             awaiting' = NoPdu, UNCHANGED wire
      PROVE  CnmaInv'
  <2>1. Len(router.queue) = 1 /\ i = 1 /\ Acknowledgeable(router.queue[1])
    BY <1>0, <1>3 DEF MayAcknowledge, Acknowledgeable
  <2>2. router'.queue = Without(router.queue, i)
    BY <1>3 DEF Take, TypeOK, RouterType
  <2>3. Len(router'.queue) = 0
    BY <1>0, <2>1, <2>2, WithoutProperties
  <2>4. ~CardChanging => wire = <<>>
    BY <1>0, <2>1 DEF QueueInv
  <2>5. WireInv'
    BY <1>0, <1>3, <2>4 DEF WireInv, CardChanging
  <2>6. QueueInv'
    BY <2>3 DEF QueueInv
  <2> QED
    BY <2>5, <2>6 DEF CnmaInv
<1> QED
  BY <1>1, <1>2, <1>3 DEF Commit, Acknowledge

\* Every step keeps in order what CNMA may be about.
LEMMA CnmaStep ==
  ASSUME TypeOK, CaptureInv, CnmaInv, [Next]_vars
  PROVE  CnmaInv'
<1>0. service' = service
  BY DEF Next, Capture, Environment, ReadSim, BindSim, Poll, StageDirect, Commit,
         Scan, StageStored, Recheck, Reread, Delete, Promote, EndCapture, Route,
         DeliverDirect, DeliverStored, Deliver, GiveUp, Swap, Grow, Reset,
         CommandFails, Restart, Suspend, Admit, modemVars, vars
<1> SUFFICES ASSUME service = "1" PROVE CnmaInv'
  BY <1>0 DEF CnmaInv
<1>1. CASE Route
  BY <1>1, CnmaRoute
<1>2. CASE Restart
  <2>1. router'.queue = <<>> /\ UNCHANGED awaiting /\ wire' \in {wire, <<>>}
    BY <1>2 DEF Restart, Fresh, modemVars
  <2>2. QueueInv'
    BY <2>1 DEF QueueInv
  <2>3. CASE wire' = wire
    BY <2>1, <2>2, <2>3 DEF CnmaInv, WireInv, CardChanging
  <2>4. CASE wire' = <<>>
    BY <2>1, <2>4, CnmaQuiet
  <2> QED
    BY <2>1, <2>3, <2>4
<1>3. CASE Loses
  <2>1. CASE UNCHANGED <<awaiting, wire>>
    BY <1>0, <1>3, <2>1, CnmaKept
  <2>2. CASE Commit
    BY <1>3, <2>2, CnmaCommit
  <2>3. CASE Reset
    <3>1. /\ wire' = <<>> /\ router.queue \in Seq(Entry)
          /\ router'.queue = NoLongerLive(router.queue)
      BY <2>3 DEF Reset, TypeOK, RouterType
    <3> QED
      BY <3>1, NoLongerLiveProperties, CnmaQuiet DEF Acknowledgeable
  <2>4. CASE GiveUp
    BY <2>4, CnmaGiveUp
  <2>5. ASSUME NEW p \in Pdus, DeliverDirect(p) PROVE CnmaInv'
    BY <2>5, CnmaDeliver
  <2>6. ASSUME NEW c \in Cards, Swap(c) PROVE CnmaInv'
    BY <2>6, CnmaSwap
  <2> QED
    BY <1>1, <1>2, <2>1, <2>2, <2>3, <2>4, <2>5, <2>6
       DEF Next, Capture, Environment, ReadSim, BindSim, Poll, StageDirect, Scan,
           StageStored, Recheck, Reread, Delete, Promote, EndCapture,
           DeliverStored, Grow, CommandFails, Suspend, Admit, modemVars, vars
<1> QED
  BY <1>1, <1>2, <1>3, RouterStep
-----------------------------------------------------------------------------
(* Tokens, and what a capture has staged.                                  *)

\* A capture that handles PDUs has the batch it had, or less of it.
SameBatch ==
  cap'.pc \in {"direct", "commit"} =>
    /\ cap.pc \in {"direct", "commit"}
    /\ \A j \in 1 .. Len(cap'.batch) :
         \E i \in 1 .. Len(cap.batch) : cap'.batch[j] = cap.batch[i]

\* It only ever polls a new one.
LEMMA BatchStep ==
  ASSUME TypeOK, CaptureInv, [Next]_vars
  PROVE  SameBatch \/ Poll
<1> USE DEF TypeOK
<1>1. CASE UNCHANGED cap
  BY <1>1 DEF SameBatch
<1>2. CASE Abandon \/ ReadSim
  BY <1>2, IdleType DEF Abandon, ReadSim, SameBatch, CapType
<1>3. ASSUME NEW pc \in Pcs, Goto(pc),
             pc \in {"direct", "commit"} => cap.pc \in {"direct", "commit"}
      PROVE  SameBatch
  BY <1>3, GotoType DEF SameBatch
<1>4. CASE StageDirect
  BY <1>2, <1>3, <1>4 DEF StageDirect, At, Deferred, Pcs
<1>5. CASE Commit
  <2>1. cap.batch \in Seq(Entry) /\ cap.batch # <<>>
    BY <1>5 DEF Commit, At, CaptureInv, CapType
  <2>2. /\ Len(cap.batch) \in Nat
        /\ Len(Tail(cap.batch)) = Len(cap.batch) - 1
        /\ \A i \in 1 .. Len(Tail(cap.batch)) : Tail(cap.batch)[i] = cap.batch[i + 1]
    BY <2>1, HeadTailProperties
  <2>3. cap'.batch = Tail(cap.batch) /\ cap.pc = "commit"
    BY <1>5 DEF Commit, At, NextDirect, CapType
  <2> QED
    BY <2>2, <2>3 DEF SameBatch
<1>6. CASE BindSim
  BY <1>2, <1>3, <1>6 DEF BindSim, Pcs
<1>7. CASE Scan \/ StageStored \/ Reread \/ Delete
  BY <1>3, <1>7 DEF Scan, StageStored, Reread, Delete, Deferred, At, SameBatch,
                    CapType, Pcs
<1>8. CASE Recheck \/ EndCapture \/ CommandFails \/ Restart
  BY <1>2, <1>3, <1>8
     DEF Recheck, EndCapture, CommandFails, Restart, Abandon, Pcs
<1> QED
  BY <1>1, <1>2, <1>4, <1>5, <1>6, <1>7, <1>8
     DEF Next, Capture, Environment, Promote, Route, DeliverDirect, DeliverStored,
         Deliver, GiveUp, Swap, Grow, Reset, Suspend, Admit, vars

\* Every step keeps a token the name of one PDU.
LEMMA TokenStep ==
  ASSUME TypeOK, CaptureInv, TokenInv, [Next]_vars
  PROVE  TokenInv'
<1>0. /\ router.queue \in Seq(Entry) /\ router.next \in Nat
      /\ cap.batch \in Seq(Entry)
  BY DEF TypeOK, RouterType, CapType
<1>1. CASE Poll
  <2>1. UNCHANGED router /\ cap'.batch = router.queue
    BY <1>1 DEF Poll, TypeOK, CapType
  <2> QED
    BY <2>1 DEF TokenInv, Distinct, Names
<1>2. CASE Restart
  <2>1. cap'.pc = "idle" /\ router'.queue = <<>>
    BY <1>2 DEF Restart, Idle, Fresh
  <2> QED
    BY <2>1 DEF TokenInv, Distinct
<1>3. CASE Loses /\ SameBatch
  <2>1. Distinct(router'.queue)
    BY <1>3 DEF Loses, Shrinks, TokenInv
  <2>2. \A j \in 1 .. Len(router'.queue) : \E i \in 1 .. Len(router.queue) :
          /\ router'.queue[j].token = router.queue[i].token
          /\ router'.queue[j].pdu = router.queue[i].pdu
    BY <1>3 DEF Loses, Shrinks, Aged
  <2>3. router'.next = router.next
    BY <1>3 DEF Loses
  <2>4. \A j \in 1 .. Len(router'.queue) : router'.queue[j].token < router'.next
    BY <2>2, <2>3 DEF TokenInv
  <2>5. ASSUME cap'.pc \in {"direct", "commit"}, NEW i \in 1 .. Len(cap'.batch)
        PROVE  /\ cap'.batch[i].token < router'.next
               /\ \A j \in 1 .. Len(router'.queue) :
                    Names(router'.queue[j], cap'.batch[i])
    <3>1. cap.pc \in {"direct", "commit"}
      BY <1>3, <2>5 DEF SameBatch
    <3>2. PICK k \in 1 .. Len(cap.batch) : cap'.batch[i] = cap.batch[k]
      BY <1>3, <2>5 DEF SameBatch
    <3>3. cap.batch[k].token < router.next
      BY <3>1 DEF TokenInv
    <3>4. \A j \in 1 .. Len(router.queue) : Names(router.queue[j], cap.batch[k])
      BY <3>1 DEF TokenInv
    <3> QED
      BY <2>2, <2>3, <3>2, <3>3, <3>4 DEF Names
  <2> QED
    BY <2>1, <2>4, <2>5 DEF TokenInv
<1>4. CASE Route /\ Gains
  <2>1. UNCHANGED cap /\ NewEntry \in Entry
    BY <1>4 DEF Route, Gains
  <2> DEFINE q == router.queue
             r == router'.queue
  <2>2. /\ Len(q) \in Nat /\ Len(r) = Len(q) + 1
        /\ \A i \in 1 .. Len(q) : r[i] = q[i]
        /\ r[Len(q) + 1] = NewEntry
    BY <1>0, <1>4, <2>1, AppendProperties DEF Gains
  <2>3. NewEntry.token = router.next /\ router'.next = router.next + 1
    BY <1>4 DEF Gains, NewEntry
  <2>4. \A i \in 1 .. Len(q) : q[i].token \in Nat /\ q[i].token < router.next
    <3>1. \A i \in 1 .. Len(q) : q[i] \in Entry
      BY <1>0, ElementOfSeq
    <3> QED
      BY <3>1 DEF TokenInv, Entry
  <2>5. \A i \in 1 .. Len(cap.batch) : cap.batch[i].token \in Nat
    <3>1. \A i \in 1 .. Len(cap.batch) : cap.batch[i] \in Entry
      BY <1>0, ElementOfSeq
    <3> QED
      BY <3>1 DEF Entry
  <2>6. \A i \in 1 .. Len(q) : Names(NewEntry, q[i]) /\ q[i].token # NewEntry.token
    BY <1>0, <2>3, <2>4 DEF Names
  <2> HIDE DEF q, r
  <2>7. Distinct(r)
    <3>1. Distinct(q)
      BY DEF TokenInv, q
    <3> QED
      BY <2>2, <2>6, <3>1 DEF Distinct
  <2>8. \A i \in 1 .. Len(r) : r[i].token < router'.next
    BY <1>0, <2>2, <2>3, <2>4
  <2>9. ASSUME cap.pc \in {"direct", "commit"}, NEW i \in 1 .. Len(cap.batch)
        PROVE  /\ cap.batch[i].token < router'.next
               /\ \A j \in 1 .. Len(r) : Names(r[j], cap.batch[i])
    <3>1. cap.batch[i].token \in Nat /\ cap.batch[i].token < router.next
      BY <2>5, <2>9 DEF TokenInv
    <3>2. \A j \in 1 .. Len(q) : Names(q[j], cap.batch[i])
      BY <2>9 DEF TokenInv, q
    <3>3. Names(NewEntry, cap.batch[i])
      BY <1>0, <2>3, <3>1 DEF Names
    <3>4. \A j \in 1 .. Len(r) : j \in 1 .. Len(q) \/ j = Len(q) + 1
      BY <2>2
    <3>5. \A j \in 1 .. Len(r) : Names(r[j], cap.batch[i])
      BY <2>2, <3>2, <3>3, <3>4
    <3> QED
      BY <1>0, <2>3, <3>1, <3>5
  <2> QED
    BY <2>1, <2>7, <2>8, <2>9 DEF TokenInv, r
<1> QED
  BY <1>1, <1>2, <1>3, <1>4, RouterStep, BatchStep
\* What a capture settles was staged by it.
LEMMA StagedStep ==
  ASSUME TypeOK, CaptureInv, StagedInv, [Next]_vars
  PROVE  StagedInv'
<1> USE DEF At
<1>0. /\ Kept /\ cap \in CapType /\ cap' \in CapType /\ CaptureInv'
      /\ cap.pc # "idle" => cap.key \in Cards
  BY RowsStep, CapStep DEF TypeOK, CaptureInv
<1>1. ASSUME cap'.key = cap.key, cap'.pc # "idle", cap.pc # "idle",
             cap'.pc # "commit", cap'.committed \subseteq cap.committed
      PROVE  StagedInv'
  <2>1. \A e \in cap'.committed : e \in cap.committed /\ e[2] \in Pdus
    BY <1>0, <1>1 DEF CapType
  <2>2. \A e \in cap'.committed : rows'[cap'.key][e[2]] # "absent"
    BY <1>0, <1>1, <2>1 DEF StagedInv, Staged, Kept
  <2> QED
    BY <1>1, <2>2 DEF StagedInv, Staged
<1>2. CASE UNCHANGED cap
  <2>1. CASE cap.pc = "idle"
    BY <1>2, <2>1 DEF StagedInv
  <2>2. CASE cap.pc = "commit"
    <3>1. Head(cap.batch).pdu \in Pdus
      BY <1>0, <2>2, HeadEntry DEF CaptureInv
    <3>2. rows'[cap.key][Head(cap.batch).pdu] # "absent"
      BY <1>0, <2>2, <3>1 DEF StagedInv, Staged, Kept
    <3>3. \A e \in cap.committed : rows'[cap.key][e[2]] # "absent"
      BY <1>0, <2>2 DEF StagedInv, Staged, Kept, CapType
    <3> QED
      BY <1>2, <2>2, <3>2, <3>3 DEF StagedInv, Staged
  <2>3. CASE cap.pc # "idle" /\ cap.pc # "commit"
    BY <1>1, <1>2, <2>3
  <2> QED
    BY <2>1, <2>2, <2>3
<1>3. CASE Abandon
  BY <1>3, IdleType DEF Abandon, StagedInv
<1>4. ASSUME NEW pc \in Pcs \ {"idle", "commit"}, Goto(pc), cap.pc # "idle"
      PROVE  StagedInv'
  BY <1>0, <1>1, <1>4, GotoType
<1>5. CASE ReadSim
  <2>1. cap'.pc = "bind" /\ cap'.committed = {}
    BY <1>5, IdleType DEF ReadSim, CapType
  <2> QED
    BY <2>1 DEF StagedInv
<1>6. CASE Poll
  <2>1. /\ cap'.pc = "direct" /\ cap'.key = cap.key /\ cap.pc = "poll"
        /\ cap'.committed = cap.committed
    BY <1>0, <1>6 DEF Poll, CapType
  <2> QED
    BY <1>1, <2>1
<1>7. CASE StageDirect
  <2>1. CASE Goto("commit") /\ Stage(Head(cap.batch).pdu) /\ cap.batch # <<>>
    <3> DEFINE p == Head(cap.batch).pdu
    <3>1. /\ cap'.key = cap.key /\ cap'.batch = cap.batch
          /\ cap'.committed = cap.committed
      BY <1>0, <2>1, GotoType DEF Pcs
    <3>2. p \in Pdus /\ cap.pc = "direct" /\ cap.key \in Cards
      BY <1>0, <1>7, <2>1, HeadEntry DEF StageDirect
    <3>3. rows'[cap.key][p] # "absent"
      BY <2>1, <3>2, StageRows
    <3>4. \A e \in cap.committed : rows'[cap.key][e[2]] # "absent"
      BY <1>0, <3>2 DEF StagedInv, Staged, Kept, CapType
    <3> HIDE DEF p
    <3>5. cap'.pc # "idle"
      BY <1>0, <2>1, GotoType DEF Pcs
    <3> QED
      BY <3>1, <3>3, <3>4, <3>5 DEF StagedInv, Staged, p
  <2> QED
    BY <1>3, <1>4, <1>7, <2>1 DEF StageDirect, Deferred, Pcs
<1>8. CASE Commit
  <2>1. /\ cap'.pc = "direct" /\ cap'.key = cap.key /\ cap.pc = "commit"
        /\ cap'.committed = cap.committed
    BY <1>0, <1>8 DEF Commit, NextDirect, CapType
  <2> QED
    BY <1>1, <2>1
<1>9. CASE Scan
  <2>1. ASSUME cap' = [cap EXCEPT !.pc = "stored", !.list = Listed]
        PROVE  StagedInv'
    <3>1. /\ cap'.pc = "stored" /\ cap'.key = cap.key /\ cap.pc = "scan"
          /\ cap'.committed = cap.committed
      BY <1>0, <1>9, <2>1 DEF Scan, CapType
    <3> QED
      BY <1>1, <3>1
  <2> QED
    BY <1>4, <1>9, <2>1 DEF Scan, Pcs
<1>10. CASE StageStored
  <2>1. ASSUME NEW e \in cap.list, Stage(e[2]),
               cap' = [cap EXCEPT !.list = @ \ {e}, !.committed = @ \cup {e}]
        PROVE  StagedInv'
    <3>1. /\ cap'.pc = "stored" /\ cap'.key = cap.key /\ cap.pc = "stored"
          /\ cap'.committed = cap.committed \cup {e}
      BY <1>0, <1>10, <2>1 DEF StageStored, CapType
    <3>2. cap.key \in Cards /\ e[2] \in Pdus
      BY <1>0, <3>1 DEF CapType
    <3>3. rows'[cap.key][e[2]] # "absent"
      BY <2>1, <3>2, StageRows
    <3>4. \A f \in cap.committed : rows'[cap.key][f[2]] # "absent"
      BY <1>0, <3>2 DEF StagedInv, Staged, Kept, CapType
    <3> QED
      BY <3>1, <3>3, <3>4 DEF StagedInv, Staged
  <2> QED
    BY <1>4, <1>10, <2>1 DEF StageStored, Deferred, Pcs
<1>11. CASE Reread
  <2>1. /\ cap'.pc \in {"delete", "promote"} /\ cap'.key = cap.key
        /\ cap.pc = "reread" /\ cap'.committed \subseteq cap.committed
    BY <1>0, <1>11 DEF Reread, Unchanged, CapType
  <2> QED
    BY <1>1, <2>1
<1>12. CASE Delete
  <2>1. ASSUME NEW e, cap' = [cap EXCEPT !.committed = @ \ {e}]
        PROVE  StagedInv'
    <3>1. /\ cap'.pc = "delete" /\ cap'.key = cap.key /\ cap.pc = "delete"
          /\ cap'.committed \subseteq cap.committed
      BY <1>0, <1>12, <2>1 DEF Delete, CapType
    <3> QED
      BY <1>1, <3>1
  <2> QED
    BY <1>4, <1>12, <2>1 DEF Delete, Pcs
<1>13. CASE BindSim
  BY <1>3, <1>4, <1>13 DEF BindSim, Pcs
<1>14. CASE Recheck \/ EndCapture \/ CommandFails \/ Restart
  BY <1>3, <1>4, <1>14 DEF Recheck, EndCapture, CommandFails, Restart, Abandon, Pcs
<1> QED
  BY <1>2, <1>5, <1>6, <1>7, <1>8, <1>9, <1>10, <1>11, <1>12, <1>13, <1>14
     DEF Next, Capture, Environment, Promote, Route, DeliverDirect, DeliverStored,
         Deliver, GiveUp, Swap, Grow, Reset, Suspend, Admit, vars

\* The invariant holds in every state.
LEMMA InboxInvariant == Spec => []IInv
<1>1. Init => IInv
  <2> SUFFICES ASSUME Init PROVE IInv
    OBVIOUS
  <2>1. TypeOK
    BY TypeInit
  <2>2. /\ cap.pc = "idle" /\ cap.service = "unknown" /\ cap.committed = {}
        /\ router.queue = <<>> /\ wire = <<>>
    BY DEF Init, Idle, Fresh
  <2>3. CaptureInv /\ TokenInv /\ StagedInv
    BY <2>2 DEF CaptureInv, TokenInv, StagedInv, Distinct, At
  <2>4. CnmaInv
    BY <2>2 DEF CnmaInv, WireInv, QueueInv, CardChanging
  <2> QED
    BY <2>1, <2>3, <2>4 DEF IInv
<1>2. IInv /\ [Next]_vars => IInv'
  BY TypeStep, CnmaStep, TokenStep, StagedStep DEF IInv
<1> QED
  BY <1>1, <1>2, PTL DEF Spec
-----------------------------------------------------------------------------
(* Acknowledgements.                                                       *)

\* What a commit makes the modem forget is in the inbox.
LEMMA CommitDurable ==
  ASSUME IInv, Commit, released' # released
  PROVE  released' = released \cup {awaiting} /\ awaiting \in DurablePdus
<1> USE DEF IInv
<1>1. PICK i \in 1 .. Len(router.queue) :
        /\ router.queue[i].token = Head(cap.batch).token
        /\ MayAcknowledge(i) /\ cap.service = "1"
        /\ released' = released \cup ({awaiting} \ {NoPdu})
  BY DEF Commit, Acknowledge
<1>2. /\ cap.pc = "commit" /\ service = "1" /\ cap.key \in Cards
      /\ awaiting \in Pdus /\ cap.batch # <<>>
  BY <1>1 DEF Commit, At, CaptureInv, TypeOK
<1>3. router.queue \in Seq(Entry) /\ cap.batch \in Seq(Entry)
  BY DEF TypeOK, RouterType, CapType
<1>4. Head(cap.batch) = cap.batch[1] /\ 1 \in 1 .. Len(cap.batch)
  BY <1>2, <1>3
<1>5. router.queue[i].pdu = Head(cap.batch).pdu
  BY <1>1, <1>2, <1>4 DEF TokenInv, Names
<1>6. ~CardChanging
  BY <1>2, InboxAssumption DEF CnmaInv, WireInv
<1>7. router.queue[i].pdu = awaiting
  BY <1>1, <1>2, <1>6 DEF CnmaInv, QueueInv, MayAcknowledge, Acknowledgeable
<1>8. rows[cap.key][awaiting] # "absent"
  BY <1>2, <1>5, <1>7 DEF StagedInv, Staged, At
<1> QED
  BY <1>1, <1>2, <1>8, InboxAssumption DEF DurablePdus

\* Only a commit, or the deletion of what a card stores, relieves anyone of a PDU.
LEMMA ReleaseStep ==
  ASSUME [Next]_vars, released' # released
  PROVE  Commit \/ (Delete /\ UNCHANGED awaiting)
BY DEF Next, Capture, Environment, ReadSim, BindSim, Poll, StageDirect, Scan,
       StageStored, Recheck, Reread, Delete, Promote, EndCapture, Route,
       DeliverDirect, DeliverStored, Deliver, GiveUp, Swap, Grow, Reset,
       CommandFails, Restart, Suspend, Admit, vars

\* For any number of cards, exchanged at any moment: the PDU of which AT+CNMA
\* relieves the modem is one the inbox holds.  CNMA names no message, so this
\* rests on take_direct (at_urc.rs:144): a queue of one live and fresh PDU under
\* the card the capture began with, and no doubt recorded against it.
THEOREM InboxAcknowledges == Spec => AcknowledgedIsDurable
<1>1. IInv /\ [Next]_vars => [AcknowledgesDurable]_vars
  <2> SUFFICES ASSUME IInv, [Next]_vars, ~UNCHANGED vars PROVE AcknowledgesDurable
    OBVIOUS
  <2> SUFFICES ASSUME awaiting' # awaiting, awaiting \in released' \ released
               PROVE  awaiting \in DurablePdus
    BY DEF AcknowledgesDurable
  <2> QED
    BY ReleaseStep, CommitDurable
<1> QED
  BY <1>1, InboxInvariant, PTL DEF AcknowledgedIsDurable, Spec

-----------------------------------------------------------------------------
(* Reception implements the mailbox.                                       *)

OneCard == \A c, d \in Cards : c = d

\* Nothing but a promotion shows a message, and it shows a message once.
LEMMA ShownStep ==
  ASSUME OneCard, Dedupe, TypeOK, CaptureInv, ShownInv, [Next]_vars
  PROVE  ShownInv'
<1>1. CASE UNCHANGED <<shown, received>>
  BY <1>1 DEF ShownInv
<1>2. ASSUME NEW m \in Messages, Promote(m) PROVE ShownInv'
  <2> DEFINE k == <<cap.key, {m}>>
  <2>1. cap.key \in Cards /\ received' = received \cup {k}
    BY <1>2 DEF Promote, At, CaptureInv, DedupKey
  <2>2. \A c \in Cards : c = cap.key
    BY <2>1 DEF OneCard
  <2>3. shown' = IF k \in received THEN shown ELSE [shown EXCEPT ![m] = @ + 1]
    BY <1>2 DEF Promote, Known, DedupKey
  <2>4. shown[m] = IF k \in received THEN 1 ELSE 0
    BY <2>1 DEF ShownInv
  <2>5. ASSUME NEW n \in Messages, NEW c \in Cards
        PROVE  shown'[n] = IF <<c, {n}>> \in received' THEN 1 ELSE 0
    <3>1. CASE n = m
      BY <2>1, <2>2, <2>3, <2>4, <3>1 DEF TypeOK
    <3>2. CASE n # m
      <4>1. <<c, {n}>> # k
        BY <3>2
      <4>2. shown'[n] = shown[n]
        BY <2>3, <3>2 DEF TypeOK
      <4> QED
        BY <2>1, <4>1, <4>2 DEF ShownInv
    <3> QED
      BY <3>1, <3>2
  <2> QED
    BY <2>5 DEF ShownInv
<1> QED
  BY <1>1, <1>2
     DEF Next, Capture, Environment, ReadSim, BindSim, Poll, StageDirect, Commit,
         Scan, StageStored, Recheck, Reread, Delete, EndCapture, Route,
         DeliverDirect, DeliverStored, Deliver, GiveUp, Swap, Grow, Reset,
         CommandFails, Restart, Suspend, Admit, inboxVars, vars

\* Until they are deleted, the places a capture is about to delete hold what it
\* found there.
LEMMA DeleteStep ==
  ASSUME OneCard, TypeOK, CaptureInv, DeleteInv, [Next]_vars
  PROVE  DeleteInv'
<1> USE DEF At
<1>0. cap \in CapType /\ card \in Cards
  BY DEF TypeOK
<1>1. CASE UNCHANGED <<cap, card, storage>>
  BY <1>1 DEF DeleteInv
<1>2. CASE cap'.pc # "delete"
  BY <1>2 DEF DeleteInv
<1>3. ASSUME NEW p \in Pdus, NEW s \in Slots, DeliverStored(p, s)
      PROVE  DeleteInv'
  <2>1. /\ storage[card][s] = NoPdu /\ UNCHANGED <<cap, card>>
        /\ storage' = [storage EXCEPT ![card][s] = p]
    BY <1>3 DEF DeliverStored, Deliver
  <2> SUFFICES ASSUME cap.pc = "delete", NEW e \in cap.committed
               PROVE  storage'[card][e[1]] = e[2]
    BY <2>1 DEF DeleteInv
  <2>2. e[1] \in Slots /\ e[2] \in Pdus /\ storage[card][e[1]] = e[2]
    BY <1>0 DEF CapType, DeleteInv
  <2>3. e[1] # s
    BY <2>1, <2>2, InboxAssumption
  <2> QED
    BY <1>0, <2>1, <2>2, <2>3 DEF TypeOK
<1>4. CASE Reread
  <2>1. /\ cap'.pc = "delete" => cap'.committed \subseteq Listed
        /\ UNCHANGED <<card, storage>>
    BY <1>0, <1>4 DEF Reread, Unchanged, CapType, modemVars
  <2> QED
    BY <2>1 DEF DeleteInv, Listed
<1>5. CASE Delete
  <2>1. CASE Goto("promote")
    BY <1>0, <1>2, <2>1, GotoType DEF Pcs
  <2>2. ASSUME NEW e \in cap.committed,
               cap' = [cap EXCEPT !.committed = @ \ {e}],
               storage' \in {storage, [storage EXCEPT ![card][e[1]] = NoPdu]}
        PROVE  DeleteInv'
    <3>1. card' = card /\ cap.pc = "delete" /\ cap'.committed = cap.committed \ {e}
      BY <1>0, <1>5, <2>2 DEF Delete, CapType
    <3> SUFFICES ASSUME NEW f \in cap.committed, f # e
                 PROVE  storage'[card][f[1]] = f[2]
      BY <3>1 DEF DeleteInv
    <3>2. /\ e \in Slots \X Pdus /\ f \in Slots \X Pdus
          /\ storage[card][e[1]] = e[2] /\ storage[card][f[1]] = f[2]
      BY <1>0, <3>1 DEF CapType, DeleteInv
    <3>3. f[1] # e[1]
      BY <3>2
    <3> QED
      BY <1>0, <2>2, <3>2, <3>3 DEF TypeOK
  <2> QED
    BY <1>5, <2>1, <2>2 DEF Delete
<1>6. ASSUME NEW c \in Cards, Swap(c) PROVE DeleteInv'
  BY <1>0, <1>6 DEF Swap, OneCard
<1>7. CASE Abandon
  BY <1>2, <1>7, IdleType DEF Abandon
<1>8. ASSUME NEW pc \in Pcs \ {"delete"}, Goto(pc) PROVE DeleteInv'
  BY <1>0, <1>2, <1>8, GotoType
<1>9. CASE ReadSim \/ Poll \/ Commit
  BY <1>0, <1>2, <1>9, IdleType DEF ReadSim, Poll, Commit, NextDirect, CapType
<1>10. CASE StageDirect \/ BindSim \/ Recheck \/ EndCapture \/ CommandFails
            \/ Restart
  BY <1>7, <1>8, <1>10
     DEF StageDirect, BindSim, Recheck, EndCapture, CommandFails, Restart, Abandon,
         Deferred, Pcs
<1>11. CASE Scan
  BY <1>0, <1>2, <1>8, <1>11 DEF Scan, Pcs, CapType
<1>12. CASE StageStored
  <2>1. ASSUME NEW e, cap' = [cap EXCEPT !.list = @ \ {e}, !.committed = @ \cup {e}]
        PROVE  DeleteInv'
    BY <1>0, <1>2, <1>12, <2>1 DEF StageStored, CapType
  <2> QED
    BY <1>8, <1>12, <2>1 DEF StageStored, Deferred, Pcs
<1> QED
  BY <1>1, <1>3, <1>4, <1>5, <1>6, <1>9, <1>10, <1>11, <1>12
     DEF Next, Capture, Environment, Promote, Route, DeliverDirect, Deliver, GiveUp,
         Grow, Reset, Suspend, Admit, modemVars, vars

CardInv == IInv /\ ShownInv /\ DeleteInv

\* The invariant of a line with one card holds in every state.
LEMMA OneCardInvariant == ASSUME OneCard, Dedupe PROVE Spec => []CardInv
<1>1. Init => ShownInv /\ DeleteInv
  BY DEF Init, ShownInv, DeleteInv, At, Idle
<1>2. IInv /\ CardInv /\ [Next]_vars => (ShownInv /\ DeleteInv)'
  BY ShownStep, DeleteStep DEF CardInv, IInv
<1>3. ShownInv /\ DeleteInv /\ IInv => CardInv
  BY DEF CardInv
<1>4. CardInv => IInv /\ ShownInv /\ DeleteInv
  BY DEF CardInv
<1> QED
  BY <1>1, <1>2, <1>3, <1>4, InboxInvariant, PTL DEF Spec
\* On a line with one card and deduplication, a message does not reach the table
\* twice, whatever its PDUs went through: promote_native_sms records the
\* fingerprint and inserts the row in one transaction (native_sms_inbox.rs:172).
THEOREM InboxShownOnce == ASSUME OneCard, Dedupe PROVE Spec => []ShownOnce
<1>1. CardInv => ShownOnce
  <2> SUFFICES ASSUME CardInv, NEW m \in Messages PROVE shown[m] <= 1
    BY DEF ShownOnce
  <2>1. card \in Cards
    BY DEF CardInv, IInv, TypeOK
  <2>2. shown[m] = IF <<card, {m}>> \in received THEN 1 ELSE 0
    BY <2>1 DEF CardInv, ShownInv
  <2> QED
    BY <2>2
<1> QED
  BY <1>1, OneCardInvariant, PTL

\* An empty inbox is an empty mailbox.
LEMMA MailboxInit == Init => Mailbox!Init
BY DEF Init, Mailbox!Init, DurablePdus

\* Staging keeps one more PDU, or none.
LEMMA MailboxStage ==
  ASSUME IInv, NEW p \in Pdus, cap.key \in Cards, Stage(p),
         UNCHANGED <<released, shown>>
  PROVE  [Mailbox!Next]_(Mailbox!vars)
<1>1. \A c \in Cards, q \in Pdus :
        rows'[c][q] = IF c = cap.key /\ q = p /\ rows[c][q] = "absent"
                      THEN "pending" ELSE rows[c][q]
  BY StageRows DEF IInv
<1>2. CASE rows[cap.key][p] = "absent"
  <2>1. rows'[cap.key][p] # "absent"
    BY <1>1, <1>2
  <2>2. \A c \in Cards, q \in Pdus :
          rows'[c][q] # "absent" <=> rows[c][q] # "absent" \/ (c = cap.key /\ q = p)
    BY <1>1, <2>1
  <2>3. DurablePdus' = DurablePdus \cup {p}
    BY <2>2 DEF DurablePdus
  <2> QED
    BY <2>3 DEF Mailbox!Next, Mailbox!Keep
<1>3. CASE rows[cap.key][p] # "absent"
  <2>1. DurablePdus' = DurablePdus
    BY <1>1, <1>3 DEF DurablePdus
  <2> QED
    BY <2>1 DEF Mailbox!vars
<1> QED
  BY <1>2, <1>3

\* Every step of the reception is a step of the mailbox, or none.
LEMMA MailboxStep ==
  ASSUME OneCard, Dedupe, CardInv, [Next]_vars
  PROVE  [Mailbox!Next]_(Mailbox!vars)
<1> USE DEF CardInv
<1>0. TypeOK /\ CaptureInv /\ cap \in CapType
  BY DEF IInv, TypeOK
<1>1. CASE UNCHANGED <<rows, released, shown>>
  BY <1>1 DEF Mailbox!vars, DurablePdus
<1>2. CASE StageDirect
  <2>1. ASSUME cap.batch # <<>>, Stage(Head(cap.batch).pdu)
        PROVE  [Mailbox!Next]_(Mailbox!vars)
    <3>1. /\ Head(cap.batch).pdu \in Pdus /\ cap.key \in Cards
          /\ UNCHANGED <<released, shown>>
      BY <1>0, <1>2, <2>1, HeadEntry DEF StageDirect, At, CaptureInv
    <3> QED
      BY <2>1, <3>1, MailboxStage
  <2> QED
    BY <1>1, <1>2, <2>1 DEF StageDirect
<1>3. CASE StageStored
  <2>1. ASSUME NEW e \in cap.list, Stage(e[2])
        PROVE  [Mailbox!Next]_(Mailbox!vars)
    <3>1. e[2] \in Pdus /\ cap.key \in Cards /\ UNCHANGED <<released, shown>>
      BY <1>0, <1>3 DEF StageStored, At, CaptureInv, CapType
    <3> QED
      BY <2>1, <3>1, MailboxStage
  <2> QED
    BY <1>1, <1>3, <2>1 DEF StageStored
<1>4. CASE Commit /\ released' # released
  <2>1. released' = released \cup {awaiting} /\ awaiting \in DurablePdus
    BY <1>4, CommitDurable
  <2>2. UNCHANGED <<DurablePdus, shown>> /\ awaiting \in Pdus
    BY <1>4, <2>1 DEF Commit, inboxVars, DurablePdus
  <2> QED
    BY <2>1, <2>2 DEF Mailbox!Next, Mailbox!Release
<1>5. CASE Delete /\ released' # released
  <2>1. PICK e \in cap.committed :
          released' = released \cup ({storage[card][e[1]]} \ {NoPdu})
    BY <1>5 DEF Delete
  <2>2. /\ storage[card][e[1]] = e[2] /\ e[2] \in Pdus /\ cap.key \in Cards
        /\ rows[cap.key][e[2]] # "absent"
    BY <1>0, <1>5
       DEF Delete, At, DeleteInv, CaptureInv, CapType, IInv, StagedInv, Staged
  <2>3. released' = released \cup {e[2]} /\ e[2] \in DurablePdus
    BY <2>1, <2>2, InboxAssumption DEF DurablePdus
  <2>4. UNCHANGED <<DurablePdus, shown>>
    BY <1>5 DEF Delete, inboxVars, DurablePdus
  <2> QED
    BY <2>2, <2>3, <2>4 DEF Mailbox!Next, Mailbox!Release
<1>6. ASSUME NEW m \in Messages, Promote(m)
      PROVE  [Mailbox!Next]_(Mailbox!vars)
  <2>1. \A c \in Cards, q \in Pdus :
          rows'[c][q] = IF c = cap.key /\ q \in PendingOf(m)
                        THEN "done" ELSE rows[c][q]
    BY <1>0, <1>6, PromoteRows
  <2>2. DurablePdus' = DurablePdus
    BY <2>1 DEF DurablePdus, PendingOf
  <2>3. UNCHANGED released /\ cap.key \in Cards /\ IsWhole(m, PendingOf(m))
    BY <1>0, <1>6 DEF Promote, At, CaptureInv, Ready
  <2>4. CASE Known(m)
    BY <1>6, <2>2, <2>3, <2>4 DEF Promote, Mailbox!vars
  <2>5. CASE ~Known(m)
    <3>1. shown' = [shown EXCEPT ![m] = @ + 1] /\ shown[m] = 0
      BY <1>6, <2>3, <2>5 DEF Promote, Known, DedupKey, ShownInv
    <3>2. shown' = [shown EXCEPT ![m] = 1]
      BY <1>0, <3>1 DEF TypeOK
    <3>3. \A q \in PendingOf(m) : q \in DurablePdus /\ MessageOf[q] = m
      BY <2>3 DEF PendingOf, DurablePdus
    <3>4. Mailbox!Whole(m, DurablePdus)
      BY <2>3, <3>3 DEF Mailbox!Whole, IsWhole
    <3> QED
      BY <2>2, <2>3, <3>1, <3>2, <3>4 DEF Mailbox!Next, Mailbox!Show
  <2> QED
    BY <2>4, <2>5
<1> QED
  BY <1>1, <1>2, <1>3, <1>4, <1>5, <1>6
     DEF Next, Capture, Environment, ReadSim, BindSim, Poll, Commit, Scan, Recheck,
         Reread, Delete, EndCapture, Route, DeliverDirect, DeliverStored, Deliver,
         GiveUp, Swap, Grow, Reset, CommandFails, Restart, Suspend, Admit,
         inboxVars, vars

\* On a line with one card and deduplication, the reception implements the
\* mailbox: "Commit precedes transport ACK/deletion" (native_sms_inbox.rs:1), and
\* what is shown is whole and shown once.
THEOREM InboxImplements == ASSUME OneCard, Dedupe PROVE Spec => ImplementsMailbox
<1>1. CardInv /\ [Next]_vars => [Mailbox!Next]_(Mailbox!vars)
  BY MailboxStep
<1> QED
  BY <1>1, MailboxInit, OneCardInvariant, PTL
     DEF Spec, ImplementsMailbox, Mailbox!Spec
=============================================================================
