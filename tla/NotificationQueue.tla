-------------------------- MODULE NotificationQueue --------------------------
(***************************************************************************)
(* Delivery of notifications to one channel: the first attempt made while  *)
(* an event is routed, and the persistent queue that retries it            *)
(* (notification.rs, the queue statements of db.rs and the operator's      *)
(* requests of notification_queue.rs).                                     *)
(*                                                                         *)
(* Every statement on the queue is atomic: the database is behind a mutex. *)
(* A task is one spawned run of process_notification_queue_item.           *)
(***************************************************************************)
EXTENDS Naturals, FiniteSets

CONSTANTS
  Items,        \* notifications, one per event, rule and channel
  Tasks,        \* spawned tasks that exist at a time
  MaxAttempts,  \* max_attempts
  MaxMessages,  \* rate_limit.max_messages
  MaxRequests,  \* bound on the operator's requests
  MaxCrashes,   \* bound on restarts
  NoItem

ASSUME QueueAssumption ==
  /\ NoItem \notin Items
  /\ IsFiniteSet(Tasks)
  /\ MaxAttempts \in Nat \ {0} /\ MaxMessages \in Nat \ {0}
  /\ MaxRequests \in Nat /\ MaxCrashes \in Nat

VARIABLES
  first,     \* the routing task of each event: "none", "sending" or "done"
  status,    \* the row of each notification, "absent" when it has none
  attempts,  \* attempt_count
  due,       \* next_attempt_at has passed
  task,      \* what each spawned task does
  enabled,   \* the channel exists and is enabled
  recent,    \* successes logged for the channel in the current window
  acked,     \* history: sends the channel acknowledged
  retries,   \* history: times the operator put the row back
  dropped,   \* history: rows whose task ended without updating them
  requests, crashes

rowVars == <<status, attempts, due>>
histVars == <<acked, retries, dropped>>
worldVars == <<enabled, requests, crashes>>
vars == <<first, status, attempts, due, task, enabled, recent, acked, retries,
          dropped, requests, crashes>>

\* The rows the worker may take, and the ones the operator may act on.
Claimable == {"pending", "scheduled", "retrying"}
Active == Claimable \cup {"sending", "failed"}

Idle == [pc |-> "idle", item |-> NoItem, count |-> 0]

TypeOK ==
  /\ first \in [Items -> {"none", "sending", "done"}]
  /\ status \in [Items -> Active \cup {"absent", "sent", "cancelled"}]
  /\ attempts \in [Items -> Nat]
  /\ due \in [Items -> BOOLEAN]
  /\ task \in [Tasks -> [pc : {"idle", "loaded", "claimed", "sending", "ok",
                               "error"},
                         item : Items \cup {NoItem}, count : Nat]]
  /\ enabled \in BOOLEAN
  /\ recent \in Nat
  /\ acked \in [Items -> Nat] /\ retries \in [Items -> Nat]
  /\ dropped \subseteq Items
  /\ requests \in 0 .. MaxRequests /\ crashes \in 0 .. MaxCrashes

Init ==
  /\ first = [i \in Items |-> "none"]
  /\ status = [i \in Items |-> "absent"]
  /\ attempts = [i \in Items |-> 0]
  /\ due = [i \in Items |-> FALSE]
  /\ task = [t \in Tasks |-> Idle]
  /\ enabled = TRUE
  /\ recent = 0
  /\ acked = [i \in Items |-> 0] /\ retries = [i \in Items |-> 0]
  /\ dropped = {}
  /\ requests = 0 /\ crashes = 0

-----------------------------------------------------------------------------
(* Routing an event: one attempt at once.                                  *)

\* rate_limit_reason looks at the log, not at the sends under way.
Limited == recent >= MaxMessages

\* A success that cannot be logged is not counted.
LogSuccess == recent' = recent + 1 \/ UNCHANGED recent

\* A new row waits for its time.  A statement that fails leaves no row.
Enqueue(i, s) ==
  \/ /\ status' = [status EXCEPT ![i] = s]
     /\ UNCHANGED <<attempts, due>>
  \/ UNCHANGED rowVars

\* A disabled channel is skipped and logged, and so is an event whose rate
\* limit cannot be read.
RouteEvent(i) ==
  /\ first[i] = "none"
  /\ \/ /\ first' = [first EXCEPT ![i] = "done"]
        /\ UNCHANGED rowVars
     \/ /\ enabled /\ Limited
        /\ first' = [first EXCEPT ![i] = "done"]
        /\ Enqueue(i, "scheduled")
     \/ /\ enabled /\ ~Limited
        /\ first' = [first EXCEPT ![i] = "sending"]
        /\ UNCHANGED rowVars
  /\ UNCHANGED <<task, recent, histVars, worldVars>>

FirstSent(i) ==
  /\ first[i] = "sending"
  /\ first' = [first EXCEPT ![i] = "done"]
  /\ acked' = [acked EXCEPT ![i] = @ + 1]
  /\ LogSuccess
  /\ UNCHANGED <<rowVars, task, retries, dropped, worldVars>>

FirstFailed(i) ==
  /\ first[i] = "sending"
  /\ first' = [first EXCEPT ![i] = "done"]
  /\ Enqueue(i, "retrying")
  /\ UNCHANGED <<task, recent, histVars, worldVars>>

-----------------------------------------------------------------------------
(* The worker.                                                             *)

\* A tick reads the due rows and spawns a task for each; the task works with
\* the row as it was read.
Load(t, i) ==
  /\ task[t] = Idle
  /\ status[i] \in Claimable /\ due[i]
  /\ task' = [task EXCEPT ![t] =
                [pc |-> "loaded", item |-> i, count |-> attempts[i]]]
  /\ UNCHANGED <<first, rowVars, recent, histVars, worldVars>>

\* Mutant: the row is taken whatever became of it since it was read.
ClaimAllowed_Stale(i) == TRUE

\* The UPDATE matches only a row nobody else has taken.
ClaimAllowed(i) == status[i] \in Claimable

\* mark_notification_queue_sending.
ClaimRow(t, i) ==
  /\ task[t].pc = "loaded" /\ task[t].item = i
  /\ ClaimAllowed(i)
  /\ status' = [status EXCEPT ![i] = "sending"]
  /\ task' = [task EXCEPT ![t].pc = "claimed"]
  /\ UNCHANGED <<first, attempts, due, recent, histVars, worldVars>>

\* No row was updated, or the statement failed: the task ends.
ClaimNothing(t) ==
  /\ task[t].pc = "loaded"
  /\ task' = [task EXCEPT ![t] = Idle]
  /\ UNCHANGED <<first, rowVars, recent, histVars, worldVars>>

\* Every row update below may fail, which is only logged.  (A failed row keeps
\* its next_attempt_at, which nothing reads.)
Update(i, s, n) ==
  \/ /\ status' = [status EXCEPT ![i] = s]
     /\ attempts' = [attempts EXCEPT ![i] = n]
     /\ due' = [due EXCEPT ![i] = FALSE]
     /\ UNCHANGED dropped
  \/ /\ dropped' = dropped \cup {i}
     /\ UNCHANGED rowVars

\* Mutant: a channel that is disabled leaves the row as it was taken.
Decide_Forgets(t) ==
  LET i == task[t].item IN
  /\ task[t].pc = "claimed"
  /\ \/ /\ ~enabled \/ Limited
        /\ UNCHANGED <<rowVars, dropped>>
        /\ task' = [task EXCEPT ![t] = Idle]
     \/ /\ enabled /\ ~Limited
        /\ task' = [task EXCEPT ![t].pc = "sending"]
        /\ UNCHANGED <<rowVars, dropped>>
  /\ UNCHANGED <<first, recent, acked, retries, worldVars>>

\* The channel and the rate limit are looked at after the claim; a log that
\* cannot be read does not hold the notification back.
Decide(t) ==
  LET i == task[t].item IN
  /\ task[t].pc = "claimed"
  /\ \/ /\ ~enabled
        /\ Update(i, "failed", attempts[i] + 1)
        /\ task' = [task EXCEPT ![t] = Idle]
     \/ /\ enabled /\ Limited
        /\ Update(i, "scheduled", attempts[i])
        /\ task' = [task EXCEPT ![t] = Idle]
     \/ /\ enabled
        /\ task' = [task EXCEPT ![t].pc = "sending"]
        /\ UNCHANGED <<rowVars, dropped>>
  /\ UNCHANGED <<first, recent, acked, retries, worldVars>>

\* The channel answers, or the request fails or times out.
Answer(t) ==
  LET i == task[t].item IN
  /\ task[t].pc = "sending"
  /\ \/ /\ task' = [task EXCEPT ![t].pc = "ok"]
        /\ acked' = [acked EXCEPT ![i] = @ + 1]
     \/ /\ task' = [task EXCEPT ![t].pc = "error"]
        /\ UNCHANGED acked
  /\ UNCHANGED <<first, rowVars, recent, retries, dropped, worldVars>>

\* The row is marked and the success is logged.
Succeed(t) ==
  LET i == task[t].item IN
  /\ task[t].pc = "ok"
  /\ \/ /\ status' = [status EXCEPT ![i] = "sent"]
        /\ UNCHANGED <<attempts, due, dropped>>
     \/ dropped' = dropped \cup {i} /\ UNCHANGED rowVars
  /\ LogSuccess
  /\ task' = [task EXCEPT ![t] = Idle]
  /\ UNCHANGED <<first, acked, retries, worldVars>>

\* attempt_count as it was read, and this attempt.
Exhausted(t) == task[t].count + 1 >= MaxAttempts

\* Mutant: a failed attempt is not counted.
Fail_Uncounted(t) ==
  LET i == task[t].item IN
  /\ task[t].pc = "error"
  /\ \/ Exhausted(t) /\ Update(i, "failed", attempts[i])
     \/ ~Exhausted(t) /\ Update(i, "retrying", attempts[i])
  /\ task' = [task EXCEPT ![t] = Idle]
  /\ UNCHANGED <<first, recent, acked, retries, worldVars>>

\* A failed attempt is counted on the row and, unless it was the last, retried
\* after a backoff.
Fail(t) ==
  LET i == task[t].item IN
  /\ task[t].pc = "error"
  /\ \/ Exhausted(t) /\ Update(i, "failed", attempts[i] + 1)
     \/ ~Exhausted(t) /\ Update(i, "retrying", attempts[i] + 1)
  /\ task' = [task EXCEPT ![t] = Idle]
  /\ UNCHANGED <<first, recent, acked, retries, worldVars>>

-----------------------------------------------------------------------------
(* Time, the operator and restarts.                                        *)

BackoffEnds(i) ==
  /\ ~due[i]
  /\ status[i] \in Claimable
  /\ due' = [due EXCEPT ![i] = TRUE]
  /\ UNCHANGED <<first, status, attempts, task, recent, histVars, worldVars>>

WindowSlides ==
  /\ recent > 0
  /\ recent' = recent - 1
  /\ UNCHANGED <<first, rowVars, task, histVars, worldVars>>

Request ==
  /\ requests < MaxRequests
  /\ requests' = requests + 1
  /\ UNCHANGED <<first, task, recent, acked, dropped, crashes>>

\* retry and retry-all: whatever the row's task is doing.
RetryItems(S) ==
  /\ Request
  /\ S # {}
  /\ \A i \in S : status[i] \in Active
  /\ status' = [i \in Items |-> IF i \in S THEN "pending" ELSE status[i]]
  /\ attempts' = [i \in Items |-> IF i \in S THEN 0 ELSE attempts[i]]
  /\ due' = [i \in Items |-> i \in S \/ due[i]]
  /\ retries' = [i \in Items |-> IF i \in S THEN retries[i] + 1
                                            ELSE retries[i]]
  /\ UNCHANGED enabled

\* delete and clear.
CancelItems(S) ==
  /\ Request
  /\ S # {}
  /\ \A i \in S : status[i] \in Active
  /\ status' = [i \in Items |-> IF i \in S THEN "cancelled" ELSE status[i]]
  /\ UNCHANGED <<attempts, due, retries, enabled>>

ToggleChannel ==
  /\ Request
  /\ enabled' = ~enabled
  /\ UNCHANGED <<rowVars, retries>>

ActiveItems == {i \in Items : status[i] \in Active}

Operator ==
  \/ \E S \in {{i} : i \in ActiveItems} \cup {ActiveItems} :
       RetryItems(S) \/ CancelItems(S)
  \/ ToggleChannel

\* The tasks that have taken the row of a notification.
Working(i) == {t \in Tasks : task[t].item = i /\ task[t].pc # "loaded"}

\* Tasks and events being routed are lost; the rows stay.
Crash ==
  /\ crashes < MaxCrashes
  /\ crashes' = crashes + 1
  /\ task' = [t \in Tasks |-> Idle]
  /\ dropped' = dropped \cup {i \in Items : Working(i) # {}}
  /\ first' = [i \in Items |-> IF first[i] = "sending" THEN "done"
                                                       ELSE first[i]]
  /\ UNCHANGED <<rowVars, recent, acked, retries, enabled, requests>>

-----------------------------------------------------------------------------
Route(i) == RouteEvent(i) \/ FirstSent(i) \/ FirstFailed(i)

Work(t) ==
  \/ \E i \in Items : ClaimRow(t, i)
  \/ ClaimNothing(t) \/ Decide(t) \/ Answer(t) \/ Succeed(t) \/ Fail(t)

Next ==
  \/ \E i \in Items : Route(i) \/ BackoffEnds(i)
  \/ \E t \in Tasks : Work(t) \/ \E i \in Items : Load(t, i)
  \/ WindowSlides
  \/ Operator
  \/ Crash

Spec == Init /\ [][Next]_vars

\* Tasks run on and the HTTP client has a timeout; the worker ticks every five
\* seconds and reads the oldest due rows first; the statement that takes a row
\* does not fail for ever; time passes.  Nothing is assumed of the channel, the
\* operator or restarts.
FairSpec ==
  /\ Spec
  /\ \A t \in Tasks : WF_vars(Work(t))
  /\ \A i \in Items : /\ WF_vars(BackoffEnds(i))
                      /\ SF_vars(\E t \in Tasks : Load(t, i))
                      /\ SF_vars(\E t \in Tasks : ClaimRow(t, i))
                      /\ WF_vars(FirstSent(i) \/ FirstFailed(i))
  /\ WF_vars(WindowSlides)

-----------------------------------------------------------------------------
(* Properties.                                                             *)

\* A notification the channel acknowledged is not sent again on the queue's
\* own account: each further acknowledged send is owed to a retry the
\* operator asked for (notification.rs:1040, db.rs:5424).
AcknowledgedOnce == \A i \in Items : acked[i] <= 1 + retries[i]

\* A row in "sending" has a task that will settle it, whatever the operator
\* does meanwhile; no tick reads it again, so one that lost its task to a
\* restart or to a failed update waits for the operator (db.rs:5412).
SendingAttended ==
  \A i \in Items :
    status[i] = "sending" /\ i \notin dropped => Working(i) # {}

\* A queued notification does not stay in the queue: it is sent, given up
\* after its attempts, or cancelled, unless its task was lost
\* (notification.rs:1017).
QueueDrains ==
  \A i \in Items :
    status[i] \in Claimable ~>
      (status[i] \in {"sent", "failed", "cancelled"} \/ i \in dropped)

\* The rate limit of the channel: "at most {} messages in {} seconds"
\* (notification.rs:976).
WithinRateLimit == recent <= MaxMessages

CancelledStays ==
  \A i \in Items : status[i] = "cancelled" => status'[i] = "cancelled"

\* "Notification queue item cancelled" (notification_queue.rs:74): a cancelled
\* notification does not come back to the queue.
CancelIsFinal == [][CancelledStays]_vars
=============================================================================
