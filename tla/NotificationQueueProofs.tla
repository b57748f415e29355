----------------------- MODULE NotificationQueueProofs -----------------------
(***************************************************************************)
(* Proofs about NotificationQueue, for any notifications, tasks, attempts, *)
(* limits, requests and restarts.                                          *)
(***************************************************************************)
EXTENDS NotificationQueue, FiniteSetTheorems, TLAPS

\* A task has a notification as long as it does something.
TaskInv ==
  \A t \in Tasks : task[t].pc # "idle" => task[t].item \in Items

\* A notification has neither row nor task before its first attempt has ended.
FirstInv ==
  /\ \A i \in Items : first[i] # "done" => status[i] = "absent"
  /\ \A t \in Tasks : task[t].pc # "idle" => first[task[t].item] = "done"

\* The tasks that have taken the row and have no success to show yet.
InFlight(i) ==
  {t \in Tasks : /\ task[t].item = i
                 /\ task[t].pc \in {"claimed", "sending", "error"}}

\* A further attempt may begin.
MayStart(i) == first[i] # "done" \/ status[i] \in Claimable

Started(i) == IF MayStart(i) THEN 1 ELSE 0

\* Every attempt under way and the one that may begin are owed to the event or
\* to a request of the operator, as are the sends that were acknowledged.
BudgetInv ==
  \A i \in Items :
    acked[i] + Cardinality(InFlight(i)) + Started(i) <= 1 + retries[i]

IInv == TypeOK /\ TaskInv /\ FirstInv /\ SendingAttended /\ BudgetInv

-----------------------------------------------------------------------------
(* Types.                                                                  *)

\* The initial state is typed.
LEMMA TypeInit == Init => TypeOK
BY QueueAssumption DEF Init, TypeOK, Idle, Active, Claimable

RowType ==
  /\ status \in [Items -> Active \cup {"absent", "sent", "cancelled"}]
  /\ attempts \in [Items -> Nat]
  /\ due \in [Items -> BOOLEAN]
  /\ dropped \subseteq Items

\* The update of a row, done or failed, keeps the rows typed.
LEMMA UpdateType ==
  ASSUME TypeOK, NEW i \in Items, NEW s \in Active, NEW n \in Nat, Update(i, s, n)
  PROVE  RowType'
<1>1. CASE /\ status' = [status EXCEPT ![i] = s]
           /\ attempts' = [attempts EXCEPT ![i] = n]
           /\ due' = [due EXCEPT ![i] = FALSE]
           /\ UNCHANGED dropped
  BY <1>1 DEF TypeOK, RowType
<1>2. CASE dropped' = dropped \cup {i} /\ UNCHANGED rowVars
  BY <1>2 DEF TypeOK, RowType, rowVars
<1> QED
  BY <1>1, <1>2 DEF Update

\* Every step of NotificationQueue keeps its variables typed.
LEMMA TypeStep == TypeOK /\ TaskInv /\ [Next]_vars => TypeOK'
<1> SUFFICES ASSUME TypeOK, TaskInv, [Next]_vars PROVE TypeOK'
  OBVIOUS
<1> USE QueueAssumption DEF TypeOK, TaskInv, rowVars, histVars, worldVars, Active,
                            Claimable
<1>1. ASSUME NEW i \in Items, RouteEvent(i) PROVE TypeOK'
  BY <1>1 DEF RouteEvent, Enqueue
<1>2. ASSUME NEW i \in Items, FirstSent(i) PROVE TypeOK'
  BY <1>2 DEF FirstSent, LogSuccess
<1>3. ASSUME NEW i \in Items, FirstFailed(i) PROVE TypeOK'
  BY <1>3 DEF FirstFailed, Enqueue
<1>4. ASSUME NEW i \in Items, BackoffEnds(i) PROVE TypeOK'
  BY <1>4 DEF BackoffEnds
<1>5. ASSUME NEW t \in Tasks, NEW i \in Items, Load(t, i) PROVE TypeOK'
  BY <1>5 DEF Load
<1>6. ASSUME NEW t \in Tasks, NEW i \in Items, ClaimRow(t, i) PROVE TypeOK'
  BY <1>6 DEF ClaimRow
<1>7. ASSUME NEW t \in Tasks, ClaimNothing(t) PROVE TypeOK'
  BY <1>7 DEF ClaimNothing, Idle
<1>8. ASSUME NEW t \in Tasks, Decide(t) PROVE TypeOK'
  <2> DEFINE i == task[t].item
  <2>1. i \in Items /\ Idle \in [pc : {"idle"}, item : {NoItem}, count : Nat]
    BY <1>8 DEF Decide, Idle
  <2>3. task' \in [Tasks -> [pc : {"idle", "loaded", "claimed", "sending", "ok",
                                  "error"},
                            item : Items \cup {NoItem}, count : Nat]]
    BY <1>8, <2>1 DEF Decide
  <2>4. attempts[i] \in Nat /\ attempts[i] + 1 \in Nat
    BY <2>1
  <2>5. CASE Update(i, "failed", attempts[i] + 1)
    BY <1>8, <2>1, <2>3, <2>4, <2>5, UpdateType DEF Decide, RowType
  <2>6. CASE Update(i, "scheduled", attempts[i])
    BY <1>8, <2>1, <2>3, <2>4, <2>6, UpdateType DEF Decide, RowType
  <2>7. CASE UNCHANGED <<rowVars, dropped>>
    BY <1>8, <2>3, <2>7 DEF Decide
  <2> QED
    BY <1>8, <2>5, <2>6, <2>7 DEF Decide
<1>9. ASSUME NEW t \in Tasks, Answer(t) PROVE TypeOK'
  BY <1>9 DEF Answer
<1>10. ASSUME NEW t \in Tasks, Succeed(t) PROVE TypeOK'
  BY <1>10 DEF Succeed, LogSuccess, Idle
<1>11. ASSUME NEW t \in Tasks, Fail(t) PROVE TypeOK'
  <2> DEFINE i == task[t].item
  <2>1. i \in Items /\ attempts[i] + 1 \in Nat
    BY <1>11 DEF Fail
  <2>2. RowType'
    BY <1>11, <2>1, UpdateType DEF Fail
  <2> QED
    BY <1>11, <2>2 DEF Fail, RowType, Idle
<1>12. CASE WindowSlides
  BY <1>12 DEF WindowSlides
<1>13. ASSUME NEW S \in SUBSET Items, RetryItems(S) PROVE TypeOK'
  BY <1>13 DEF RetryItems, Request
<1>14. ASSUME NEW S \in SUBSET Items, CancelItems(S) PROVE TypeOK'
  BY <1>14 DEF CancelItems, Request
<1>15. CASE ToggleChannel
  BY <1>15 DEF ToggleChannel, Request
<1>16. CASE Crash
  BY <1>16 DEF Crash, Idle
<1>17. CASE UNCHANGED vars
  BY <1>17 DEF vars
<1> QED
  BY <1>1, <1>2, <1>3, <1>4, <1>5, <1>6, <1>7, <1>8, <1>9, <1>10, <1>11, <1>12,
     <1>13, <1>14, <1>15, <1>16, <1>17
     DEF Next, Route, Work, Operator, ActiveItems

-----------------------------------------------------------------------------
(* Tasks and rows.                                                         *)

\* A task that is not idle has a notification.
LEMMA TaskStep == TypeOK /\ TaskInv /\ [Next]_vars => TaskInv'
<1> SUFFICES ASSUME TypeOK, TaskInv, [Next]_vars PROVE TaskInv'
  OBVIOUS
<1> USE DEF TypeOK, TaskInv, rowVars, histVars, worldVars
<1>1. ASSUME NEW i \in Items, RouteEvent(i) PROVE TaskInv'
  BY <1>1 DEF RouteEvent, Enqueue
<1>2. ASSUME NEW i \in Items, FirstSent(i) PROVE TaskInv'
  BY <1>2 DEF FirstSent
<1>3. ASSUME NEW i \in Items, FirstFailed(i) PROVE TaskInv'
  BY <1>3 DEF FirstFailed, Enqueue
<1>4. ASSUME NEW i \in Items, BackoffEnds(i) PROVE TaskInv'
  BY <1>4 DEF BackoffEnds
<1>5. ASSUME NEW t \in Tasks, NEW i \in Items, Load(t, i) PROVE TaskInv'
  BY <1>5 DEF Load, Idle
<1>6. ASSUME NEW t \in Tasks, NEW i \in Items, ClaimRow(t, i) PROVE TaskInv'
  BY <1>6 DEF ClaimRow, ClaimAllowed
<1>7. ASSUME NEW t \in Tasks, ClaimNothing(t) PROVE TaskInv'
  BY <1>7 DEF ClaimNothing, Idle
<1>8. ASSUME NEW t \in Tasks, Decide(t) PROVE TaskInv'
  BY <1>8 DEF Decide, Update, Idle
<1>9. ASSUME NEW t \in Tasks, Answer(t) PROVE TaskInv'
  BY <1>9 DEF Answer
<1>10. ASSUME NEW t \in Tasks, Succeed(t) PROVE TaskInv'
  BY <1>10 DEF Succeed, Idle
<1>11. ASSUME NEW t \in Tasks, Fail(t) PROVE TaskInv'
  BY <1>11 DEF Fail, Update, Idle
<1>12. CASE WindowSlides
  BY <1>12 DEF WindowSlides
<1>13. ASSUME NEW S \in SUBSET Items, RetryItems(S) PROVE TaskInv'
  BY <1>13 DEF RetryItems, Request
<1>14. ASSUME NEW S \in SUBSET Items, CancelItems(S) PROVE TaskInv'
  BY <1>14 DEF CancelItems, Request
<1>15. CASE ToggleChannel
  BY <1>15 DEF ToggleChannel, Request
<1>16. CASE Crash
  BY <1>16 DEF Crash, Idle
<1>17. CASE UNCHANGED vars
  BY <1>17 DEF vars
<1> QED
  BY <1>1, <1>2, <1>3, <1>4, <1>5, <1>6, <1>7, <1>8, <1>9, <1>10, <1>11, <1>12,
     <1>13, <1>14, <1>15, <1>16, <1>17
     DEF Next, Route, Work, Operator, ActiveItems

\* No row and no task appears before the first attempt has ended.
LEMMA FirstStep == TypeOK /\ TaskInv /\ FirstInv /\ [Next]_vars => FirstInv'
<1> SUFFICES ASSUME TypeOK, TaskInv, FirstInv, [Next]_vars PROVE FirstInv'
  OBVIOUS
<1> USE DEF TypeOK, TaskInv, FirstInv, Active, Claimable, rowVars, histVars, worldVars
<1>1. ASSUME NEW i \in Items, RouteEvent(i) PROVE FirstInv'
  BY <1>1 DEF RouteEvent, Enqueue
<1>2. ASSUME NEW i \in Items, FirstSent(i) PROVE FirstInv'
  BY <1>2 DEF FirstSent
<1>3. ASSUME NEW i \in Items, FirstFailed(i) PROVE FirstInv'
  BY <1>3 DEF FirstFailed, Enqueue
<1>4. ASSUME NEW i \in Items, BackoffEnds(i) PROVE FirstInv'
  BY <1>4 DEF BackoffEnds
<1>5. ASSUME NEW t \in Tasks, NEW i \in Items, Load(t, i) PROVE FirstInv'
  BY <1>5 DEF Load, Idle
<1>6. ASSUME NEW t \in Tasks, NEW i \in Items, ClaimRow(t, i) PROVE FirstInv'
  BY <1>6 DEF ClaimRow, ClaimAllowed
<1>7. ASSUME NEW t \in Tasks, ClaimNothing(t) PROVE FirstInv'
  BY <1>7 DEF ClaimNothing, Idle
<1>8. ASSUME NEW t \in Tasks, Decide(t) PROVE FirstInv'
  BY <1>8 DEF Decide, Update, Idle
<1>9. ASSUME NEW t \in Tasks, Answer(t) PROVE FirstInv'
  BY <1>9 DEF Answer
<1>10. ASSUME NEW t \in Tasks, Succeed(t) PROVE FirstInv'
  BY <1>10 DEF Succeed, Idle
<1>11. ASSUME NEW t \in Tasks, Fail(t) PROVE FirstInv'
  BY <1>11 DEF Fail, Update, Idle
<1>12. CASE WindowSlides
  BY <1>12 DEF WindowSlides
<1>13. ASSUME NEW S \in SUBSET Items, RetryItems(S) PROVE FirstInv'
  BY <1>13 DEF RetryItems, Request
<1>14. ASSUME NEW S \in SUBSET Items, CancelItems(S) PROVE FirstInv'
  BY <1>14 DEF CancelItems, Request
<1>15. CASE ToggleChannel
  BY <1>15 DEF ToggleChannel, Request
<1>16. CASE Crash
  BY <1>16 DEF Crash, Idle
<1>17. CASE UNCHANGED vars
  BY <1>17 DEF vars
<1> QED
  BY <1>1, <1>2, <1>3, <1>4, <1>5, <1>6, <1>7, <1>8, <1>9, <1>10, <1>11, <1>12,
     <1>13, <1>14, <1>15, <1>16, <1>17
     DEF Next, Route, Work, Operator, ActiveItems

\* A row that is being sent keeps a task, unless the row's update or the process
\* failed.
LEMMA AttendedStep ==
  TypeOK /\ TaskInv /\ SendingAttended /\ [Next]_vars => SendingAttended'
<1> SUFFICES ASSUME TypeOK, TaskInv, SendingAttended, [Next]_vars PROVE SendingAttended'
  OBVIOUS
<1> USE QueueAssumption DEF TypeOK, TaskInv, SendingAttended, Working, Claimable, rowVars, histVars,
                            worldVars
<1>1. ASSUME NEW i \in Items, RouteEvent(i) PROVE SendingAttended'
  BY <1>1 DEF RouteEvent, Enqueue
<1>2. ASSUME NEW i \in Items, FirstSent(i) PROVE SendingAttended'
  BY <1>2 DEF FirstSent
<1>3. ASSUME NEW i \in Items, FirstFailed(i) PROVE SendingAttended'
  BY <1>3 DEF FirstFailed, Enqueue
<1>4. ASSUME NEW i \in Items, BackoffEnds(i) PROVE SendingAttended'
  BY <1>4 DEF BackoffEnds
<1>5. ASSUME NEW t \in Tasks, NEW i \in Items, Load(t, i) PROVE SendingAttended'
  BY <1>5 DEF Load, Idle
<1>6. ASSUME NEW t \in Tasks, NEW i \in Items, ClaimRow(t, i) PROVE SendingAttended'
  BY <1>6 DEF ClaimRow, ClaimAllowed
<1>7. ASSUME NEW t \in Tasks, ClaimNothing(t) PROVE SendingAttended'
  BY <1>7 DEF ClaimNothing, Idle
<1>8. ASSUME NEW t \in Tasks, Decide(t) PROVE SendingAttended'
  BY <1>8 DEF Decide, Update, Idle
<1>9. ASSUME NEW t \in Tasks, Answer(t) PROVE SendingAttended'
  BY <1>9 DEF Answer
<1>10. ASSUME NEW t \in Tasks, Succeed(t) PROVE SendingAttended'
  BY <1>10 DEF Succeed, Idle
<1>11. ASSUME NEW t \in Tasks, Fail(t) PROVE SendingAttended'
  BY <1>11 DEF Fail, Update, Idle
<1>12. CASE WindowSlides
  BY <1>12 DEF WindowSlides
<1>13. ASSUME NEW S \in SUBSET Items, RetryItems(S) PROVE SendingAttended'
  BY <1>13 DEF RetryItems, Request
<1>14. ASSUME NEW S \in SUBSET Items, CancelItems(S) PROVE SendingAttended'
  BY <1>14 DEF CancelItems, Request
<1>15. CASE ToggleChannel
  BY <1>15 DEF ToggleChannel, Request
<1>16. CASE Crash
  BY <1>16 DEF Crash, Idle
<1>17. CASE UNCHANGED vars
  BY <1>17 DEF vars
<1> QED
  BY <1>1, <1>2, <1>3, <1>4, <1>5, <1>6, <1>7, <1>8, <1>9, <1>10, <1>11, <1>12,
     <1>13, <1>14, <1>15, <1>16, <1>17
     DEF Next, Route, Work, Operator, ActiveItems

-----------------------------------------------------------------------------
(* The budget of sends.                                                    *)

\* Attempts under way can be counted.
LEMMA InFlightCount ==
  ASSUME NEW i
  PROVE  IsFiniteSet(InFlight(i)) /\ Cardinality(InFlight(i)) \in Nat
BY QueueAssumption, FS_Subset, FS_CardinalityType DEF InFlight

\* The same after a step.
LEMMA InFlightCountNext ==
  ASSUME NEW i
  PROVE  IsFiniteSet(InFlight(i)') /\ Cardinality(InFlight(i)') \in Nat
<1>1. InFlight(i)' \in SUBSET Tasks
  BY DEF InFlight
<1> QED
  BY <1>1, QueueAssumption, FS_Subset, FS_CardinalityType

\* A task that takes up no attempt leaves at most as many under way.
LEMMA NoMoreInFlight ==
  ASSUME NEW i, InFlight(i)' \subseteq InFlight(i)
  PROVE  Cardinality(InFlight(i)') <= Cardinality(InFlight(i))
BY InFlightCount, FS_Subset

\* A task that ends its attempt leaves one less.
LEMMA OneLessInFlight ==
  ASSUME NEW i, NEW t, t \in InFlight(i), InFlight(i)' = InFlight(i) \ {t}
  PROVE  Cardinality(InFlight(i)') + 1 = Cardinality(InFlight(i))
<1>1. Cardinality(InFlight(i) \ {t}) = Cardinality(InFlight(i)) - 1
  BY InFlightCount, FS_RemoveElement
<1>2. Cardinality(InFlight(i)) \in Nat
  BY InFlightCount
<1> QED
  BY <1>1, <1>2

\* A task that takes a row is one more.
LEMMA OneMoreInFlight ==
  ASSUME NEW i, NEW t, t \notin InFlight(i), InFlight(i)' = InFlight(i) \cup {t}
  PROVE  Cardinality(InFlight(i)') = Cardinality(InFlight(i)) + 1
BY InFlightCount, FS_AddElement

BudgetOf(i) ==
  acked[i] + Cardinality(InFlight(i)) + Started(i) <= 1 + retries[i]

\* A step that neither acknowledges, takes up an attempt nor lets one begin
\* stays within the budget.
LEMMA BudgetKept ==
  ASSUME TypeOK, TypeOK', NEW i \in Items, BudgetOf(i),
         acked'[i] = acked[i], retries'[i] >= retries[i],
         InFlight(i)' \subseteq InFlight(i), MayStart(i)' => MayStart(i)
  PROVE  BudgetOf(i)'
<1>1. Cardinality(InFlight(i)') <= Cardinality(InFlight(i))
  BY NoMoreInFlight
<1>2. Started(i) \in {0, 1} /\ Started(i)' \in {0, 1} /\ Started(i)' <= Started(i)
  BY DEF Started
<1>3. /\ acked[i] \in Nat /\ retries[i] \in Nat /\ retries'[i] \in Nat
      /\ Cardinality(InFlight(i)) \in Nat /\ Cardinality(InFlight(i)') \in Nat
  BY InFlightCount, InFlightCountNext DEF TypeOK
<1> QED
  BY <1>1, <1>2, <1>3 DEF BudgetOf

\* So does one that ends an attempt, whether the row is tried again or not.
LEMMA BudgetReturned ==
  ASSUME TypeOK, TypeOK', NEW i \in Items, BudgetOf(i), NEW t,
         t \in InFlight(i), InFlight(i)' = InFlight(i) \ {t},
         acked'[i] + Started(i)' <= acked[i] + Started(i) + 1,
         retries'[i] = retries[i]
  PROVE  BudgetOf(i)'
<1>1. Cardinality(InFlight(i)') + 1 = Cardinality(InFlight(i))
  BY OneLessInFlight
<1>2. Started(i) \in {0, 1} /\ Started(i)' \in {0, 1}
  BY DEF Started
<1>3. /\ acked[i] \in Nat /\ acked'[i] \in Nat /\ retries[i] \in Nat
      /\ Cardinality(InFlight(i)) \in Nat /\ Cardinality(InFlight(i)') \in Nat
  BY InFlightCount, InFlightCountNext DEF TypeOK
<1> QED
  BY <1>1, <1>2, <1>3 DEF BudgetOf

\* A task that neither is nor becomes in flight for a notification changes
\* nothing in its count.
LEMMA SameInFlight ==
  ASSUME TypeOK, NEW i \in Items, NEW t \in Tasks, NEW r, task' = [task EXCEPT ![t] = r],
         r.item = i => r.pc \notin {"claimed", "sending", "error"},
         task[t].item # i
           \/ task[t].pc \notin {"claimed", "sending", "error"}
  PROVE  InFlight(i)' = InFlight(i)
BY DEF TypeOK, InFlight

\* Every step stays within the budget.
LEMMA BudgetStep ==
  TypeOK /\ TaskInv /\ FirstInv /\ BudgetInv /\ [Next]_vars => BudgetInv'
<1> SUFFICES ASSUME TypeOK, TaskInv, FirstInv, BudgetInv, [Next]_vars, NEW j \in Items
             PROVE  BudgetOf(j)'
  BY DEF BudgetInv, BudgetOf
<1>a. TypeOK' /\ BudgetOf(j)
  BY TypeStep DEF BudgetInv, BudgetOf
<1>n. /\ acked[j] \in Nat /\ acked'[j] \in Nat
      /\ retries[j] \in Nat /\ retries'[j] \in Nat
      /\ Cardinality(InFlight(j)) \in Nat /\ Cardinality(InFlight(j)') \in Nat
      /\ Started(j) \in {0, 1} /\ Started(j)' \in {0, 1}
  BY <1>a, InFlightCount, InFlightCountNext DEF TypeOK, Started
<1> USE DEF rowVars, histVars, worldVars
<1>k. ASSUME acked' = acked, retries' = retries, task' = task,
             MayStart(j)' => MayStart(j)
      PROVE  BudgetOf(j)'
  <2>1. InFlight(j)' = InFlight(j)
    BY <1>k DEF InFlight
  <2>2. retries'[j] >= retries[j]
    BY <1>k, <1>n
  <2> QED
    BY <1>k, <1>a, <2>1, <2>2, BudgetKept
<1>1. ASSUME NEW i \in Items, RouteEvent(i) PROVE BudgetOf(j)'
  <2>1. MayStart(j)' => MayStart(j)
    BY <1>1, <1>a DEF RouteEvent, Enqueue, MayStart, TypeOK
  <2> QED
    BY <1>1, <1>k, <2>1 DEF RouteEvent
<1>2. ASSUME NEW i \in Items, FirstSent(i) PROVE BudgetOf(j)'
  <2>1. CASE i # j
    <3>1. acked'[j] = acked[j] /\ retries'[j] >= retries[j]
      BY <1>2, <1>n, <2>1 DEF FirstSent, TypeOK
    <3>2. (MayStart(j)' => MayStart(j)) /\ InFlight(j)' = InFlight(j)
      BY <1>2, <2>1 DEF FirstSent, TypeOK, MayStart, InFlight
    <3> QED
      BY <1>a, <3>1, <3>2, BudgetKept
  <2>2. CASE i = j
    <3>1. MayStart(j) /\ ~MayStart(j)'
      BY <1>2, <2>2 DEF FirstSent, TypeOK, MayStart, FirstInv, Claimable
    <3>2. InFlight(j)' = InFlight(j)
      BY <1>2 DEF FirstSent, InFlight
    <3>3. acked'[j] = acked[j] + 1 /\ retries'[j] = retries[j]
      BY <1>2, <2>2 DEF FirstSent, TypeOK
    <3>4. Started(j) = 1 /\ Started(j)' = 0
      BY <3>1 DEF Started
    <3> QED
      BY <1>a, <1>n, <3>2, <3>3, <3>4 DEF BudgetOf
  <2> QED
    BY <2>1, <2>2
<1>3. ASSUME NEW i \in Items, FirstFailed(i) PROVE BudgetOf(j)'
  <2>1. MayStart(j)' => MayStart(j)
    BY <1>3, <1>a DEF FirstFailed, Enqueue, MayStart, TypeOK
  <2> QED
    BY <1>3, <1>k, <2>1 DEF FirstFailed
<1>4. ASSUME NEW i \in Items, BackoffEnds(i) PROVE BudgetOf(j)'
  BY <1>4, <1>k DEF BackoffEnds, MayStart
<1>5. ASSUME NEW t \in Tasks, NEW i \in Items, Load(t, i) PROVE BudgetOf(j)'
  <2>1. InFlight(j)' = InFlight(j)
    <3> DEFINE r == [pc |-> "loaded", item |-> i, count |-> attempts[i]]
    <3>1. task' = [task EXCEPT ![t] = r] /\ r.pc = "loaded" /\ task[t].pc = "idle"
      BY <1>5 DEF Load, Idle
    <3>2. \A u \in Tasks \ {t} : task'[u] = task[u]
      BY <3>1 DEF TypeOK
    <3>3. task'[t] = r
      BY <3>1 DEF TypeOK
    <3> QED
      BY <3>1, <3>2, <3>3 DEF InFlight
  <2>2. retries'[j] >= retries[j] /\ acked'[j] = acked[j]
    BY <1>5, <1>n DEF Load
  <2>3. MayStart(j)' => MayStart(j)
    BY <1>5 DEF Load, MayStart
  <2> QED
    BY <1>a, <2>1, <2>2, <2>3, BudgetKept
<1>6. ASSUME NEW t \in Tasks, NEW i \in Items, ClaimRow(t, i) PROVE BudgetOf(j)'
  <2>1. acked'[j] = acked[j] /\ retries'[j] = retries[j]
    BY <1>6 DEF ClaimRow
  <2>2. CASE i # j
    <3>1. InFlight(j)' = InFlight(j)
      BY <1>6, <2>2 DEF ClaimRow, InFlight, TypeOK
    <3>2. MayStart(j)' => MayStart(j)
      BY <1>6, <2>2 DEF ClaimRow, MayStart, TypeOK
    <3>3. retries'[j] >= retries[j]
      BY <1>n, <2>1
    <3> QED
      BY <1>a, <2>1, <3>1, <3>2, <3>3, BudgetKept
  <2>3. CASE i = j
    <3>1. t \notin InFlight(j) /\ InFlight(j)' = InFlight(j) \cup {t}
      BY <1>6, <2>3 DEF ClaimRow, InFlight, TypeOK
    <3>2. Cardinality(InFlight(j)') = Cardinality(InFlight(j)) + 1
      BY <3>1, OneMoreInFlight
    <3>3. MayStart(j) /\ ~MayStart(j)'
      BY <1>6, <2>3 DEF ClaimRow, ClaimAllowed, MayStart, TypeOK, FirstInv, Claimable
    <3>4. Started(j) = 1 /\ Started(j)' = 0
      BY <3>3 DEF Started
    <3> QED
      BY <1>a, <1>n, <2>1, <3>2, <3>4 DEF BudgetOf
  <2> QED
    BY <2>2, <2>3
<1>7. ASSUME NEW t \in Tasks, ClaimNothing(t) PROVE BudgetOf(j)'
  <2>1. InFlight(j)' = InFlight(j)
    BY <1>7, SameInFlight DEF ClaimNothing, Idle
  <2>2. retries'[j] >= retries[j] /\ acked'[j] = acked[j]
    BY <1>7, <1>n DEF ClaimNothing
  <2>3. MayStart(j)' => MayStart(j)
    BY <1>7 DEF ClaimNothing, MayStart
  <2> QED
    BY <1>a, <2>1, <2>2, <2>3, BudgetKept
<1>e. ASSUME NEW t \in Tasks, task[t].pc \in {"claimed", "error"},
             task' = [task EXCEPT ![t] = Idle],
             acked' = acked, retries' = retries, first' = first,
             NEW n, NEW s, Update(task[t].item, s, n)
      PROVE  BudgetOf(j)'
  <2>1. CASE task[t].item # j
    <3>1. InFlight(j)' = InFlight(j)
      BY <1>e, <2>1, SameInFlight DEF Idle
    <3>2. MayStart(j)' => MayStart(j)
      BY <1>e, <2>1 DEF Update, MayStart, TypeOK
    <3>3. retries'[j] >= retries[j] /\ acked'[j] = acked[j]
      BY <1>e, <1>n
    <3> QED
      BY <1>a, <3>1, <3>2, <3>3, BudgetKept
  <2>2. CASE task[t].item = j
    <3>1. t \in InFlight(j) /\ InFlight(j)' = InFlight(j) \ {t}
      BY <1>e, <2>2 DEF InFlight, TypeOK, Idle
    <3>2. acked'[j] + Started(j)' <= acked[j] + Started(j) + 1
      BY <1>e, <1>n
    <3>3. retries'[j] = retries[j]
      BY <1>e
    <3> QED
      BY <1>a, <3>1, <3>2, <3>3, BudgetReturned
  <2> QED
    BY <2>1, <2>2
<1>8. ASSUME NEW t \in Tasks, Decide(t) PROVE BudgetOf(j)'
  <2>1. ASSUME task' = [task EXCEPT ![t].pc = "sending"], UNCHANGED <<rowVars, dropped>>
        PROVE  BudgetOf(j)'
    <3>1. InFlight(j)' = InFlight(j)
      BY <1>8, <2>1 DEF Decide, InFlight, TypeOK
    <3>2. (MayStart(j)' => MayStart(j)) /\ acked'[j] = acked[j]
      BY <1>8, <2>1 DEF Decide, MayStart
    <3>3. retries'[j] >= retries[j]
      BY <1>8, <1>n DEF Decide
    <3> QED
      BY <1>a, <3>1, <3>2, <3>3, BudgetKept
  <2> QED
    BY <1>8, <1>e, <2>1 DEF Decide
<1>9. ASSUME NEW t \in Tasks, Answer(t) PROVE BudgetOf(j)'
  <2>0. /\ retries'[j] = retries[j] /\ retries'[j] >= retries[j]
        /\ MayStart(j)' = MayStart(j) /\ Started(j)' = Started(j)
    BY <1>9, <1>n DEF Answer, MayStart, Started
  <2>1. CASE task[t].item # j
    <3>1. acked'[j] = acked[j]
      BY <1>9, <2>1 DEF Answer, TypeOK
    <3>2. /\ task'[t].item = task[t].item
          /\ \A u \in Tasks \ {t} : task'[u] = task[u]
      BY <1>9 DEF Answer, TypeOK
    <3>3. InFlight(j)' = InFlight(j)
      BY <2>1, <3>2 DEF InFlight
    <3> QED
      BY <1>a, <2>0, <3>1, <3>3, BudgetKept
  <2>2. CASE task[t].item = j /\ task' = [task EXCEPT ![t].pc = "error"] /\ acked' = acked
    <3>1. InFlight(j)' = InFlight(j)
      BY <1>9, <2>2 DEF Answer, InFlight, TypeOK
    <3> QED
      BY <1>a, <2>0, <2>2, <3>1, BudgetKept
  <2>3. CASE /\ task[t].item = j
             /\ task' = [task EXCEPT ![t].pc = "ok"]
             /\ acked' = [acked EXCEPT ![j] = @ + 1]
    <3>1. t \in InFlight(j) /\ InFlight(j)' = InFlight(j) \ {t}
      BY <1>9, <2>3 DEF Answer, InFlight, TypeOK
    <3>2. acked'[j] = acked[j] + 1
      BY <2>3 DEF TypeOK
    <3>3. acked'[j] + Started(j)' <= acked[j] + Started(j) + 1
      BY <1>n, <2>0, <3>2
    <3> QED
      BY <1>a, <2>0, <3>1, <3>3, BudgetReturned
  <2> QED
    BY <1>9, <2>1, <2>2, <2>3 DEF Answer
<1>10. ASSUME NEW t \in Tasks, Succeed(t) PROVE BudgetOf(j)'
  <2>1. InFlight(j)' = InFlight(j)
    BY <1>10, SameInFlight DEF Succeed, Idle
  <2>2. retries'[j] >= retries[j] /\ acked'[j] = acked[j]
    BY <1>10, <1>n DEF Succeed
  <2>3. MayStart(j)' => MayStart(j)
    BY <1>10 DEF Succeed, MayStart, TypeOK, Claimable
  <2> QED
    BY <1>a, <2>1, <2>2, <2>3, BudgetKept
<1>11. ASSUME NEW t \in Tasks, Fail(t) PROVE BudgetOf(j)'
  BY <1>11, <1>e DEF Fail
<1>12. CASE WindowSlides
  BY <1>12, <1>k DEF WindowSlides, MayStart
<1>13. ASSUME NEW S \in SUBSET Items, RetryItems(S) PROVE BudgetOf(j)'
  <2>1. InFlight(j)' = InFlight(j) /\ acked'[j] = acked[j]
    BY <1>13 DEF RetryItems, Request, InFlight
  <2>2. CASE j \notin S
    <3>1. MayStart(j)' => MayStart(j)
      BY <1>13, <2>2 DEF RetryItems, Request, MayStart
    <3>2. retries'[j] >= retries[j]
      BY <1>13, <1>n, <2>2 DEF RetryItems
    <3> QED
      BY <1>a, <2>1, <3>1, <3>2, BudgetKept
  <2>3. CASE j \in S
    <3>1. retries'[j] = retries[j] + 1
      BY <1>13, <2>3 DEF RetryItems
    <3> QED
      BY <1>a, <1>n, <2>1, <3>1 DEF BudgetOf
  <2> QED
    BY <2>2, <2>3
<1>14. ASSUME NEW S \in SUBSET Items, CancelItems(S) PROVE BudgetOf(j)'
  <2>1. MayStart(j)' => MayStart(j)
    BY <1>14 DEF CancelItems, Request, MayStart, Claimable
  <2> QED
    BY <1>14, <1>k, <2>1 DEF CancelItems, Request
<1>15. CASE ToggleChannel
  BY <1>15, <1>k DEF ToggleChannel, Request, MayStart
<1>16. CASE Crash
  <2>1. InFlight(j)' \subseteq InFlight(j)
    BY <1>16 DEF Crash, Idle, InFlight
  <2>2. retries'[j] >= retries[j] /\ acked'[j] = acked[j]
    BY <1>16, <1>n DEF Crash
  <2>3. MayStart(j)' => MayStart(j)
    BY <1>16 DEF Crash, MayStart
  <2> QED
    BY <1>a, <2>1, <2>2, <2>3, BudgetKept
<1>17. CASE UNCHANGED vars
  BY <1>17, <1>k DEF vars, MayStart
<1> QED
  BY <1>1, <1>2, <1>3, <1>4, <1>5, <1>6, <1>7, <1>8, <1>9, <1>10, <1>11, <1>12,
     <1>13, <1>14, <1>15, <1>16, <1>17
     DEF Next, Route, Work, Operator, ActiveItems

-----------------------------------------------------------------------------
(* Theorems.                                                               *)

\* The inductive invariant holds initially: nothing is queued or under way.
LEMMA InvInit == Init => IInv
<1> SUFFICES ASSUME Init PROVE IInv
  OBVIOUS
<1>1. TaskInv /\ FirstInv /\ SendingAttended
  BY DEF Init, Idle, TaskInv, FirstInv, SendingAttended
<1>2. ASSUME NEW i \in Items
      PROVE  acked[i] + Cardinality(InFlight(i)) + Started(i) <= 1 + retries[i]
  <2>1. InFlight(i) = {}
    BY DEF Init, Idle, InFlight
  <2>2. Cardinality(InFlight(i)) = 0
    BY <2>1, FS_EmptySet
  <2>3. Started(i) = 1 /\ acked[i] = 0 /\ retries[i] = 0
    BY DEF Init, Started, MayStart
  <2> QED
    BY <2>2, <2>3
<1> QED
  BY TypeInit, <1>1, <1>2 DEF IInv, BudgetInv

\* Every behaviour of the queue satisfies the inductive invariant.
THEOREM QueueInductive == Spec => []IInv
<1>1. IInv /\ [Next]_vars => IInv'
  BY TypeStep, TaskStep, FirstStep, AttendedStep, BudgetStep DEF IInv
<1> QED
  BY InvInit, <1>1, PTL DEF Spec

\* The variables of the queue keep their types, whatever the events, the
\* operator and restarts do.
THEOREM QueueTyped == Spec => []TypeOK
<1>1. IInv => TypeOK
  BY DEF IInv
<1> QED
  BY <1>1, QueueInductive, PTL

\* A row that is being sent has a task that will settle it, unless a restart or
\* a failed update took the task away (db.rs:5412).
THEOREM QueueAttended == Spec => []SendingAttended
<1>1. IInv => SendingAttended
  BY DEF IInv
<1> QED
  BY <1>1, QueueInductive, PTL

\* However many tasks read a row, the channel acknowledges one send for the
\* event and one for each retry the operator asked for (notification.rs:1040,
\* db.rs:5424).
THEOREM QueueAcknowledgedOnce == Spec => []AcknowledgedOnce
<1>1. IInv => AcknowledgedOnce
  <2> SUFFICES ASSUME IInv, NEW i \in Items PROVE acked[i] <= 1 + retries[i]
    BY DEF AcknowledgedOnce
  <2>1. acked[i] \in Nat /\ retries[i] \in Nat
    BY DEF IInv, TypeOK
  <2>2. Cardinality(InFlight(i)) \in Nat /\ Started(i) \in {0, 1}
    BY InFlightCount DEF Started
  <2>3. acked[i] + Cardinality(InFlight(i)) + Started(i) <= 1 + retries[i]
    BY DEF IInv, BudgetInv
  <2> QED
    BY <2>1, <2>2, <2>3
<1> QED
  BY <1>1, QueueInductive, PTL
=============================================================================
