----------------------------- MODULE VoiceRouter -----------------------------
(***************************************************************************)
(* The voice access router of one line (services/trunk/access_router.rs):  *)
(* one task between the Asterisk trunk and the HTTP API on one side and    *)
(* the two IMS legs, VoWiFi and cellular, on the other.  It pins each call *)
(* to a leg, moves an unanswered call to the next leg when the first one   *)
(* cannot take it, and holds what would cost money on cellular until an    *)
(* observation shows the line registered at home.                          *)
(*                                                                         *)
(* The links (services/trunk/operator.rs) are modelled with it, and so are *)
(* the call tables of the legs (vowifi/operator.rs, cellular_ims/live.rs)  *)
(* as far as the router can see them.  CancelCall, HangupCall and          *)
(* RejectCall are one command, Stop: every leg answers each of them by     *)
(* forgetting the call and sending no event.  SDP, video, DTMF,            *)
(* provisional answers, the network's own re-INVITE and the observations   *)
(* sent for diagnosis carry no state the router keeps and are left out;    *)
(* RemoteAnswered is one with the Answered it precedes.                    *)
(***************************************************************************)
EXTENDS Naturals, Sequences, FiniteSets, SequencesExt

CONSTANTS
  Calls,
  Offers,          \* the legs an API request may have an offer for
  Layers,          \* the sets of layers the voice policy may enable
  MaxChanges,      \* bound on losses of a link and changes of a policy together
  MaxLags          \* bound on the messages lost to overruns of a queue

ASSUME VoiceAssumption ==
  /\ IsFiniteSet(Calls)
  /\ Offers \subseteq (SUBSET {"vowifi", "cellular"}) \ {{}}
  /\ Layers \subseteq SUBSET {"vowifi", "cellular"}
  /\ MaxChanges \in Nat /\ MaxLags \in Nat

Legs == {"vowifi", "cellular"}
Modes == 0 .. 2          \* 0 unrestricted, 1 VoWiFi only, 2 VoWiFi or home
Commands == {"Start", "Accept", "Transfer", "Renegotiate", "Stop"}
Costly == {"Start", "Accept", "Transfer"}

VARIABLES
  link,      \* link[l]: ready, generation, command receiver, permissions
  leg,       \* leg[l][c]: the call in the leg's table
  toLeg,     \* commands on their way to each leg
  evs,       \* events on their way from each leg
  cmds,      \* commands of the trunk and the API not yet read
  asked,     \* asked[c]: commands the trunk side has sent for a call
  heard,     \* heard[c]: the last event that lets the trunk side go on
  api,       \* api[c]: an API request and its waiter
  used,      \* call ids used so far
  route,     \* routes and modes
  pending,   \* pending admissions
  tasks,     \* observations running
  results,   \* observations finished and not yet joined
  tickets,   \* revision
  gate,      \* VoiceCostGate.mode
  enabled,   \* layers enabled by the voice policy
  met,       \* history: the modes a call was admitted or held in
  stopped,   \* history: the router has handled Stop for the call
  dropped,   \* history: why the router lost a call its leg may still have
  policies, lags

linkVars == <<link, leg, toLeg, evs>>
trunkVars == <<cmds, asked, heard, api>>
admissionVars == <<pending, tasks, results, tickets>>
policyVars == <<gate, enabled, policies>>
historyVars == <<met, stopped, dropped>>
vars == <<linkVars, trunkVars, used, route, admissionVars, policyVars,
          historyVars, lags>>

NoRoute == [owner |-> "none", gen |-> 0, rest |-> {}, start |-> FALSE,
            mode |-> 0]
NoAct == [kind |-> "none", op |-> "none", call |-> "none", leg |-> "none"]
NoPending == [ticket |-> 0, initial |-> 0, owner |-> "none", act |-> NoAct]
NoRequest == [st |-> "none", mode |-> 0, offers |-> {}]
NoCall == [st |-> "none", reinvite |-> FALSE]

Events == {"Incoming", "Answered", "Connected", "TransferResponse", "Rejected",
           "ReinviteRejected", "Unavailable", "Ended", "Cancelled"}
Routes == [owner : Legs \cup {"none"}, gen : Nat, rest : SUBSET Legs,
           start : BOOLEAN, mode : Modes]
Waiting == [kind : {"command", "request", "event"},
            op : Costly \cup {"Incoming", "Unavailable"}, call : Calls,
            leg : Legs \cup {"none"}]

TypeOK ==
  /\ link \in [Legs -> [ready : BOOLEAN, gen : Nat,
                        session : {"off", "on", "closing"},
                        allowed : BOOLEAN, auto : BOOLEAN]]
  /\ leg \in [Legs -> [Calls -> [st : {"none", "calling", "ringing", "up",
                                       "unsent"}, reinvite : BOOLEAN]]]
  /\ toLeg \in [Legs -> Seq([op : Commands, call : Calls])]
  /\ evs \in [Legs -> Seq([op : Events, call : Calls])]
  /\ cmds \in Seq([op : Commands, call : Calls])
  /\ asked \in [Calls -> SUBSET Commands]
  /\ heard \in [Calls -> {"nothing", "Incoming", "Answered", "over"}]
  /\ api \in [Calls -> [st : {"none", "queued", "held", "ok", "failed", "gone"},
                        mode : Modes, offers : SUBSET Legs]]
  /\ used \subseteq Calls
  /\ route \in [Calls -> Routes]
  /\ pending \in [Calls -> [ticket : Nat, initial : Modes,
                            owner : Legs \cup {"none"},
                            act : Waiting \cup {NoAct}]]
  /\ tickets \in Nat /\ \A c \in Calls : pending[c].ticket <= tickets
  /\ tasks \subseteq [call : Calls, ticket : Nat]
  /\ results \subseteq [call : Calls, ticket : Nat, home : BOOLEAN]
  /\ gate \in Modes /\ enabled \subseteq Legs
  /\ met \in [Calls -> SUBSET Modes]
  /\ stopped \in [Calls -> BOOLEAN]
  /\ dropped \in [Calls -> {"no", "stale", "refused", "lost"}]
  /\ policies \in 0 .. MaxChanges /\ lags \in 0 .. MaxLags

-----------------------------------------------------------------------------
(* Permissions and plans.                                                  *)

\* sync_incoming_permissions: what a leg may do with an incoming call.
Permissions(lk, mode, layers) ==
  [l \in Legs |->
     [lk[l] EXCEPT
        !.auto = mode # 2 \/ l = "vowifi",
        !.allowed = (mode # 1 \/ l = "vowifi") /\ l \in layers]]

\* Mutant: the modes are ordered by their numbers.
Combined_Max(a, b) == IF a > b THEN a ELSE b

\* VoiceCostGate::combined_mode: the tighter of two modes.
Combined(a, b) ==
  CASE 1 \in {a, b} -> 1
    [] 1 \notin {a, b} /\ 2 \in {a, b} -> 2
    [] OTHER -> 0

\* OperatorLink::send_command succeeds while a receiver is subscribed.
HasConsumer(l) == link[l].session # "off"
IsAvailable(l) == link[l].ready /\ HasConsumer(l)

\* plan_voice_route sorts its candidates: VoWiFi is tried before cellular.
First(legs) ==
  CASE "vowifi" \in legs -> "vowifi"
    [] "vowifi" \notin legs /\ "cellular" \in legs -> "cellular"
    [] OTHER -> "none"
After(l) == IF l = "vowifi" THEN {"cellular"} ELSE {}

\* plan_voice_route: the enabled and available layers.
RoutePlan == {l \in enabled : IsAvailable(l)}

\* route_plan_for_trunk.
RoutePlanForTrunk(onlyWifi) ==
  {l \in RoutePlan : onlyWifi => l = "vowifi"}

(* An action of the router comes from a command, a request or an event.    *)
Command(op, c) == [kind |-> "command", op |-> op, call |-> c, leg |-> "none"]
Request(c) == [kind |-> "request", op |-> "Start", call |-> c, leg |-> "none"]
Event(l, op, c) == [kind |-> "event", op |-> op, call |-> c, leg |-> l]

TerminalEvents ==
  {"Rejected", "ReinviteRejected", "Unavailable", "Ended", "Cancelled"}

NeedsAdmission(act) ==
  \/ act.kind = "request"
  \/ act.kind = "command" /\ act.op \in Costly
  \/ act.kind = "event" /\ act.op \in {"Incoming", "Unavailable"}

\* Mutant: only an event of the leg ends the wait.
CancelsPending_EventsOnly(act) ==
  act.kind = "event" /\ act.op \in {"Answered"} \cup TerminalEvents
                     /\ act.op # "Unavailable"

CancelsPending(act) ==
  \/ act.kind = "command" /\ act.op = "Stop"
  \/ act.kind = "event" /\ act.op \in {"Answered"} \cup TerminalEvents
                        /\ act.op # "Unavailable"

\* The leg whose cost decides whether an observation is needed first.
FirstLeg(act) ==
  LET c == act.call
  IN  CASE act.kind = "request" -> First(RoutePlan \cap api[c].offers)
        [] act.kind = "command" /\ act.op = "Start" -> First(RoutePlan)
        [] act.kind = "event" /\ act.op = "Incoming" -> act.leg
        [] act.kind = "event" /\ act.op = "Unavailable" -> First(route[c].rest)
        [] OTHER -> route[c].owner

NeedsHomeObservation(act) == NeedsAdmission(act) /\ FirstLeg(act) = "cellular"

-----------------------------------------------------------------------------
(* Routing one action: the new route, the commands for the legs and the    *)
(* events for the trunk side.                                              *)

Nothing == [l \in Legs |-> <<>>]
Only(l, op, c) ==
  [Nothing EXCEPT ![l] = IF HasConsumer(l) THEN <<[op |-> op, call |-> c]>>
                                           ELSE <<>>]
Outcome(rt, to, told) == [route |-> rt, to |-> to, told |-> told]
Stays(c) == Outcome(route[c], Nothing, {})

\* The first leg of a plan that a start may use, and what is left after it.
Attempt(c, legs, eligible) ==
  LET next == First(legs \cap eligible)
  IN  IF next # "none"
      THEN Outcome([owner |-> next, gen |-> link[next].gen,
                    rest |-> legs \cap After(next), start |-> TRUE,
                    mode |-> route[c].mode],
                   Only(next, "Start", c), {})
      ELSE Outcome(NoRoute, Nothing, {"Unavailable"})

\* The legs a start is allowed on.
AllowedLegs(onlyWifi) == IF onlyWifi THEN {"vowifi"} ELSE Legs

\* StartCall of the trunk.
RouteStart(c, onlyWifi) == Attempt(c, RoutePlan, AllowedLegs(onlyWifi))

\* route_call_plan: the start of an API request, on a leg it has an offer for.
\* What becomes of it is in the answer, not in an event.
RouteCallPlan(c, onlyWifi, admitted) ==
  [Attempt(c, IF admitted THEN RoutePlan ELSE {},
           AllowedLegs(onlyWifi) \cap api[c].offers) EXCEPT !.told = {}]

\* The link has not been lost since the route was made.
CurrentGeneration(c) == link[route[c].owner].gen = route[c].gen

\* What the trunk side is told when a command cannot be carried out.
Refusal(op) == {IF op = "Transfer" THEN "TransferResponse" ELSE "Unavailable"}

\* A costly command for a call that cellular owns while only VoWiFi may.
DeniedOnCellular(c, op, onlyWifi) ==
  onlyWifi /\ route[c].owner # "vowifi" /\ op \in {"Accept", "Transfer"}

\* route_command for everything but StartCall.
RouteControl(c, op, onlyWifi) ==
  LET rt == route[c]
  IN  CASE rt = NoRoute -> Outcome(NoRoute, Nothing, Refusal(op))
        [] rt # NoRoute /\ ~CurrentGeneration(c) ->
             Outcome(NoRoute, Nothing, {"Unavailable"})
        [] rt # NoRoute /\ CurrentGeneration(c)
             /\ DeniedOnCellular(c, op, onlyWifi) ->
             IF op = "Accept"
             THEN Outcome(NoRoute, Only(rt.owner, "Stop", c), Refusal(op))
             ELSE Outcome(rt, Nothing, Refusal(op))
        [] OTHER -> Outcome(IF op = "Stop" THEN NoRoute ELSE rt,
                            Only(rt.owner, op, c),
                            IF HasConsumer(rt.owner) THEN {} ELSE Refusal(op))

\* route_event for an incoming call.
RouteIncoming(l, c, onlyWifi) ==
  CASE route[c] # NoRoute -> Stays(c)
    [] route[c] = NoRoute /\ l \in RoutePlanForTrunk(onlyWifi) ->
         Outcome([owner |-> l, gen |-> link[l].gen, rest |-> {},
                  start |-> FALSE, mode |-> 0], Nothing, {"Incoming"})
    [] OTHER -> Outcome(NoRoute, Only(l, "Stop", c), {})

\* The next leg for a start the owner could not take.  A plan without an
\* offer for that leg is replayed with the offer of the leg that failed.
FailOver(c, onlyWifi, admitted) ==
  Attempt(c, IF admitted /\ route[c].start THEN route[c].rest ELSE {},
          RoutePlanForTrunk(onlyWifi))

\* route_event for every other event.
RouteEvent(l, op, c, onlyWifi, admitted) ==
  LET rt == route[c]
  IN  CASE rt.owner # l -> Stays(c)
        [] rt.owner = l /\ ~CurrentGeneration(c)
             /\ ~(op = "Unavailable" /\ rt.start) ->
             Outcome(NoRoute, Nothing, {"Unavailable"})
        [] rt.owner = l /\ op = "Unavailable"
             /\ (CurrentGeneration(c) \/ rt.start) ->
             FailOver(c, onlyWifi, admitted)
        [] OTHER ->
             Outcome(IF op \in TerminalEvents THEN NoRoute
                     ELSE IF op = "Answered"
                          THEN [rt EXCEPT !.start = FALSE, !.rest = {}]
                          ELSE rt,
                     Nothing, {op})

\* Mutant: the route is dropped and the leg not told.
Withdrawn_Silent(out, c) == Outcome(NoRoute, out.to, out.told)

\* The call just started is cancelled again: its waiter has gone.
Withdrawn(out, c) ==
  Outcome(NoRoute, [out.to EXCEPT ![out.route.owner] =
                      Append(@, [op |-> "Stop", call |-> c])], out.told)

\* The route, the commands and the events of an action.
Routed(act, onlyWifi, admitted) ==
  LET c == act.call
  IN  CASE act.kind = "command" /\ act.op = "Start" -> RouteStart(c, onlyWifi)
        [] act.kind = "command" /\ act.op # "Start" ->
             RouteControl(c, act.op, onlyWifi)
        [] act.kind = "request" -> RouteCallPlan(c, onlyWifi, admitted)
        [] act.kind = "event" /\ act.op = "Incoming" ->
             RouteIncoming(act.leg, c, onlyWifi)
        [] OTHER -> RouteEvent(act.leg, act.op, c, onlyWifi, admitted)

\* dispatch_cost_checked: a route is kept with the mode of its admission.  The
\* waiter of a request may vanish while its answer is on the way: the call
\* just started is stopped again.
Dispatch(act, mode, onlyWifi, admitted, vanishes) ==
  LET out == Routed(act, onlyWifi, admitted)
      kept == IF out.route = NoRoute THEN NoRoute
              ELSE [out.route EXCEPT !.mode = mode]
  IN  IF vanishes /\ kept # NoRoute THEN Withdrawn(out, act.call)
      ELSE Outcome(kept, out.to, out.told)

\* reject_cost_checked: an action that cannot even be observed for.
RejectCostChecked(act) ==
  LET c == act.call
  IN  CASE act.kind = "request" -> Stays(c)
        [] act.kind = "event" /\ act.op = "Incoming" ->
             Outcome(route[c], Only(act.leg, "Stop", c), {})
        [] act.kind = "command" /\ act.op = "Transfer" ->
             Outcome(route[c], Nothing, Refusal(act.op))
        [] act.kind = "command" /\ act.op = "Accept" ->
             Outcome(NoRoute, IF route[c] = NoRoute THEN Nothing
                              ELSE Only(route[c].owner, "Stop", c),
                     {"Unavailable"})
        [] OTHER -> Outcome(NoRoute, Nothing, {"Unavailable"})

-----------------------------------------------------------------------------
(* The router.  The loop reads the mode and writes the permissions before  *)
(* each turn; a turn takes commands before requests before events before   *)
(* observations (a biased select).                                         *)

Init ==
  /\ gate \in Modes /\ enabled = Legs
  /\ link = Permissions([l \in Legs |->
                           [ready |-> TRUE, gen |-> 0, session |-> "on",
                            allowed |-> TRUE, auto |-> TRUE]], gate, Legs)
  /\ leg = [l \in Legs |-> [c \in Calls |-> NoCall]]
  /\ toLeg = Nothing /\ evs = Nothing /\ cmds = <<>>
  /\ asked = [c \in Calls |-> {}]
  /\ heard = [c \in Calls |-> "nothing"]
  /\ api = [c \in Calls |-> NoRequest] /\ used = {}
  /\ route = [c \in Calls |-> NoRoute]
  /\ pending = [c \in Calls |-> NoPending]
  /\ tasks = {} /\ results = {} /\ tickets = 0
  /\ met = [c \in Calls |-> {}]
  /\ stopped = [c \in Calls |-> FALSE]
  /\ dropped = [c \in Calls |-> "no"]
  /\ policies = 0 /\ lags = 0

\* Losses of a link and changes of a policy so far.
Changes == policies + link["vowifi"].gen + link["cellular"].gen

NoQueuedRequest == \A c \in Calls : api[c].st # "queued"

\* refresh_router_state: every turn of the loop begins by writing the
\* permissions of the mode and the policy it reads.
Refreshed == Permissions(link, gate, enabled)

\* The ticker starts a turn every 100 ms, if nothing else does.  An event not
\* yet forwarded does not.
RouterTick ==
  /\ cmds = <<>> /\ NoQueuedRequest /\ results = {}
  /\ link' = Refreshed
  /\ UNCHANGED <<leg, toLeg, evs, trunkVars, used, route, admissionVars,
                 policyVars, historyVars, lags>>

\* A route dropped while the leg may still have the call.
DropReason(act, out) ==
  LET c == act.call
  IN  IF route[c] # NoRoute /\ out.route = NoRoute /\ ~CurrentGeneration(c)
      THEN "stale"
      ELSE IF act.op = "ReinviteRejected" /\ route[c].owner = act.leg
      THEN "refused" ELSE dropped[c]

\* The answer a request gets, if its waiter is still there.
Answer(act, out, vanishes) ==
  IF act.kind = "request" /\ api[act.call].st \in {"queued", "held"}
  THEN [api EXCEPT ![act.call].st =
          IF vanishes THEN "gone"
          ELSE IF out.route = NoRoute THEN "failed" ELSE "ok",
                   ![act.call].mode = 0]
  ELSE api

\* What the trunk side knows of a call after it has been told of events.
Hears(before, told) ==
  IF "Answered" \in told THEN "Answered"
  ELSE IF "Incoming" \in told THEN "Incoming"
  ELSE IF told \cap TerminalEvents # {} THEN "over"
  ELSE before

\* Carry an outcome out: routes, commands sent, events told, history.
Apply(act, out) ==
  LET c == act.call
  IN  /\ route' = [route EXCEPT ![c] = out.route]
      /\ toLeg' = [l \in Legs |-> toLeg[l] \o out.to[l]]
      /\ heard' = [heard EXCEPT ![c] = Hears(@, out.told)]
      /\ dropped' = [dropped EXCEPT ![c] = DropReason(act, out)]
      /\ link' = Refreshed
      /\ UNCHANGED <<leg, asked, used, policyVars, lags>>

\* registered_home is running for the pending admission of a call.
Running(c) == [call |-> c, ticket |-> pending[c].ticket]

\* Mutant: the observation is stopped and the admission kept.
Abort_KeepsPending(c) == tasks' = tasks \ {Running(c)} /\ UNCHANGED pending

\* The admission is forgotten and its observation stopped.
Abort(c) ==
  /\ pending' = [pending EXCEPT ![c] = NoPending]
  /\ tasks' = tasks \ {Running(c)}

\* The checks of plan.admission and of the waiter, which other tasks decide.
Admitted(act) ==
  IF act.kind = "request" \/ api[act.call].st \in {"ok", "gone"}
  THEN BOOLEAN ELSE {TRUE}
Vanishes(act) == IF act.kind = "request" THEN BOOLEAN ELSE {FALSE}

\* The mode an action is taken in: the one its call met before, and now.
InitialMode(act) ==
  Combined(IF act.kind = "request" THEN api[act.call].mode
           ELSE route[act.call].mode, gate)

\* The owner of a call, routed or waiting for an observation.
Owner(c) == IF route[c] # NoRoute THEN route[c].owner ELSE pending[c].owner

Foreign(act) ==
  act.kind = "event" /\ Owner(act.call) \notin {"none", act.leg}

Lost(act) == act.kind = "event" /\ act.op = "Unavailable"

Ordinary(act) ==
  LET c == act.call
  IN  /\ ~Foreign(act)
      /\ ~(pending[c] # NoPending /\ NeedsAdmission(act))
      /\ ~(act.kind # "event" /\ act.op = "Start" /\ route[c] # NoRoute)

\* An action that is not carried out.  An incoming call on a leg that does
\* not own its id is rejected.  The loss of the leg ends a wait and the call.
IgnoredOutcome(act) ==
  LET c == act.call
  IN  CASE Foreign(act) /\ act.op = "Incoming" ->
             Outcome(route[c], Only(act.leg, "Stop", c), {})
        [] ~Foreign(act) /\ Lost(act) /\ route[c] # NoRoute ->
             Outcome(NoRoute, Nothing, {"Unavailable"})
        [] OTHER -> Stays(c)

\* An event of a leg that does not own the call, a second action that needs
\* admission while one waits, and a start for a routed call.
TakeIgnored(act) ==
  LET c == act.call
  IN  /\ ~Ordinary(act)
      /\ Apply(act, IgnoredOutcome(act))
      /\ IF Lost(act) /\ ~Foreign(act) THEN Abort(c)
                                       ELSE UNCHANGED <<pending, tasks>>
      /\ api' = IF act.kind = "request" THEN [api EXCEPT ![c].st = "failed"]
                                        ELSE api
      /\ UNCHANGED <<results, tickets, met, stopped>>

Observes(act) == InitialMode(act) = 2 /\ NeedsHomeObservation(act)

\* Mutant: the revision is used and not kept.
Revised_Forgotten == tickets' = tickets

\* Every admission has a ticket of its own.
Revised == tickets' = tickets + 1

\* The action must wait: an observation is started for it.
TakeHeld(act) ==
  LET c == act.call
  IN  /\ Ordinary(act) /\ Observes(act)
      /\ Revised
      /\ tasks' = tasks \cup {[call |-> c, ticket |-> tickets + 1]}
      /\ pending' = [pending EXCEPT ![c] =
                       [ticket |-> tickets + 1, initial |-> InitialMode(act),
                        owner |-> IF route[c] # NoRoute THEN route[c].owner
                                  ELSE act.leg,
                        act |-> act]]
      /\ api' = IF act.kind = "request" THEN [api EXCEPT ![c].st = "held"]
                                        ELSE api
      /\ met' = [met EXCEPT ![c] = @ \cup {InitialMode(act)}]
      /\ Apply(act, Stays(c))
      /\ UNCHANGED <<results, stopped>>

\* The action would wait, but 16 others (of other calls) wait already.
TakeOverCap(act) ==
  LET out == RejectCostChecked(act)
  IN  /\ Ordinary(act) /\ Observes(act)
      /\ Apply(act, out)
      /\ api' = Answer(act, out, FALSE)
      /\ UNCHANGED <<admissionVars, met, stopped>>

\* The action is dispatched at once; Stop and the end of a call first abort
\* what was waiting.
TakeNow(act) ==
  LET c == act.call
      mode == InitialMode(act)
  IN  /\ Ordinary(act) /\ ~Observes(act)
      /\ \E admitted \in Admitted(act), vanishes \in Vanishes(act) :
           \E out \in {Dispatch(act, mode, mode # 0, admitted, vanishes)} :
             Apply(act, out) /\ api' = Answer(act, out, vanishes)
      /\ IF CancelsPending(act) THEN Abort(c) ELSE UNCHANGED <<pending, tasks>>
      /\ met' = IF NeedsAdmission(act) THEN [met EXCEPT ![c] = @ \cup {mode}]
                                      ELSE met
      /\ stopped' = [stopped EXCEPT ![c] =
                       @ \/ (act.kind = "command" /\ act.op = "Stop")]
      /\ UNCHANGED <<results, tickets>>

Take(act) ==
  TakeIgnored(act) \/ TakeHeld(act) \/ TakeOverCap(act) \/ TakeNow(act)

HandleCommand ==
  /\ cmds # <<>>
  /\ cmds' = Tail(cmds)
  /\ UNCHANGED evs
  /\ Take(Command(Head(cmds).op, Head(cmds).call))

HandleRequest(c) ==
  /\ cmds = <<>> /\ api[c].st = "queued"
  /\ UNCHANGED <<cmds, evs>>
  /\ Take(Request(c))

HandleEvent(l) ==
  /\ cmds = <<>> /\ NoQueuedRequest /\ evs[l] # <<>>
  /\ evs' = [evs EXCEPT ![l] = Tail(@)]
  /\ UNCHANGED cmds
  /\ Take(Event(l, Head(evs[l]).op, Head(evs[l]).call))

\* An observation is joined.  It counts only for the admission it was started
\* for, and only if it is less than 250 ms old.
HandleResult(r) ==
  LET c == r.call
      item == pending[c]
      mode == Combined(item.initial, gate)
      matches == item # NoPending /\ item.ticket = r.ticket
      gone == item.act.kind = "request" /\ api[c].st = "gone"
  IN  /\ cmds = <<>> /\ NoQueuedRequest
      /\ results' = results \ {r}
      /\ IF matches
         THEN /\ pending' = [pending EXCEPT ![c] = NoPending]
              /\ \E fresh \in BOOLEAN, admitted \in Admitted(item.act),
                    vanishes \in Vanishes(item.act) :
                   LET only == mode = 1 \/ (mode = 2 /\ ~(r.home /\ fresh))
                       out == IF gone THEN Stays(c)
                              ELSE Dispatch(item.act, mode, only, admitted,
                                            vanishes)
                   IN  Apply(item.act, out)
                       /\ api' = Answer(item.act, out, vanishes)
         ELSE /\ link' = Refreshed
              /\ UNCHANGED <<leg, toLeg, asked, heard, api, used, route,
                             pending, policyVars, dropped, lags>>
      /\ UNCHANGED <<evs, cmds, tasks, tickets, met, stopped>>

\* What becomes of a call when everything that waits is rejected.
LagOutcome(c) ==
  IF pending[c] = NoPending THEN Stays(c) ELSE RejectCostChecked(pending[c].act)

\* The calls of a set, each with the same message.
Each(calls, op) ==
  [i \in DOMAIN SetToSeq(calls) |-> [op |-> op, call |-> SetToSeq(calls)[i]]]

\* The queue of commands overran: some are lost, and everything that waits
\* is rejected.
RouterLagged ==
  LET stops(l) == {c \in Calls : LagOutcome(c).to[l] # <<>>}
  IN  /\ cmds # <<>> /\ lags < MaxLags
      /\ lags' = lags + 1
      /\ cmds' = Tail(cmds)
      /\ route' = [c \in Calls |-> LagOutcome(c).route]
      /\ toLeg' = [l \in Legs |-> toLeg[l] \o Each(stops(l), "Stop")]
      /\ api' = [c \in Calls |-> IF api[c].st = "held"
                                 THEN [api[c] EXCEPT !.st = "failed"]
                                 ELSE api[c]]
      /\ pending' = [c \in Calls |-> NoPending]
      /\ tasks' = {}
      /\ heard' = [c \in Calls |-> Hears(heard[c], LagOutcome(c).told)]
      /\ link' = Refreshed
      /\ UNCHANGED <<leg, evs, asked, used, results, tickets, policyVars,
                     historyVars>>

\* The forwarder of a leg's events overran.  What it had handed on before is
\* still to be read, so the event lost may be any of them.
EventsLagged(l) ==
  /\ evs[l] # <<>> /\ lags < MaxLags
  /\ lags' = lags + 1
  /\ \E i \in DOMAIN evs[l] :
       /\ evs' = [evs EXCEPT ![l] = RemoveAt(@, i)]
       /\ dropped' = [dropped EXCEPT ![evs[l][i].call] =
                        IF evs[l][i].op = "Incoming" THEN "lost" ELSE @]
  /\ UNCHANGED <<link, leg, toLeg, trunkVars, used, route, admissionVars,
                 policyVars, met, stopped>>

\* VoiceCostGate::registered_home ends, at the latest after 800 ms.
ObservationDone(t) ==
  /\ tasks' = tasks \ {t}
  /\ \E home \in BOOLEAN :
       results' = results \cup {[call |-> t.call, ticket |-> t.ticket,
                                 home |-> home]}
  /\ UNCHANGED <<linkVars, trunkVars, used, route, pending, tickets, policyVars,
                 historyVars, lags>>

\* set_trunk_voice_cost_policy, set_policy: the stored value first, then the
\* permissions of the legs.  A turn of the router that read the old value may
\* write its permissions last.
SetPolicy(mode, layers) ==
  /\ Changes < MaxChanges
  /\ policies' = policies + 1
  /\ gate' = mode /\ enabled' = layers
  /\ link' \in {Permissions(link, mode, layers), Refreshed}
  /\ UNCHANGED <<leg, toLeg, evs, trunkVars, used, route, admissionVars,
                 historyVars, lags>>

SetCostPolicy(mode) == mode # gate /\ SetPolicy(mode, enabled)
SetVoicePolicy(layers) == layers # enabled /\ SetPolicy(gate, layers)

-----------------------------------------------------------------------------
(* The trunk side: the bridge sends the commands Asterisk's requests ask   *)
(* for, the API its own.  A command may be sent after the call is over:    *)
(* the event that says so may still be on its way.                         *)

Ask(c, op) ==
  /\ asked[c] \cap {op, "Stop"} = {} /\ (heard[c] = "over" => op = "Stop")
  /\ asked' = [asked EXCEPT ![c] = @ \cup {op}]
  /\ cmds' = Append(cmds, [op |-> op, call |-> c])
  /\ UNCHANGED <<linkVars, heard, api, route, admissionVars, policyVars,
                 historyVars, lags>>

\* No call has been placed or offered under this id.
Fresh(c) == c \notin used /\ used' = used \cup {c}

TrunkStart(c) == Fresh(c) /\ Ask(c, "Start")

\* What the bridge and the API may ask for a call they know of.
MayAsk(c, op) ==
  CASE op = "Start" -> FALSE
    [] op = "Accept" -> heard[c] = "Incoming"
    [] op = "Transfer" -> heard[c] = "Answered" \/ "Accept" \in asked[c]
    [] op = "Renegotiate" -> heard[c] = "Answered" /\ "Start" \in asked[c]
    [] op = "Stop" -> heard[c] # "nothing" \/ "Start" \in asked[c]
                        \/ api[c].st = "ok"

TrunkAsk(c, op) == MayAsk(c, op) /\ Ask(c, op) /\ UNCHANGED used

\* VoiceAccessRouter::start_call, from the handlers that place a call.
ApiStart(c, mode, offers) ==
  /\ Fresh(c)
  /\ api' = [api EXCEPT ![c] = [st |-> "queued", mode |-> mode,
                                offers |-> offers]]
  /\ UNCHANGED <<linkVars, cmds, asked, heard, route, admissionVars, policyVars,
                 historyVars, lags>>

\* The 2 s timeout of start_call, or its caller going away.
ApiTimeout(c) ==
  /\ api[c].st \in {"queued", "held"}
  /\ api' = [api EXCEPT ![c].st = "gone"]
  /\ UNCHANGED <<linkVars, cmds, asked, heard, used, route, admissionVars,
                 policyVars, historyVars, lags>>

-----------------------------------------------------------------------------
(* The legs.  A leg handles one command or one SIP message at a time.      *)

routerVars == <<trunkVars, route, admissionVars, policyVars, historyVars,
                lags>>

\* A step of a leg: the call's new entry, and the events it sends.
LegStep(l, c, entry, ops) ==
  /\ leg' = [leg EXCEPT ![l][c] = entry]
  /\ evs' = [evs EXCEPT ![l] = @ \o [i \in DOMAIN ops |->
                                       [op |-> ops[i], call |-> c]]]
  /\ UNCHANGED routerVars

Entry(st) == [st |-> st, reinvite |-> FALSE]

\* Mutant: a call the leg reports unavailable stays in its table.
StartOutcomes_KeepsCall(l) ==
  {<<Entry("calling"), <<>>>>, <<Entry("calling"), <<"Unavailable">>>>,
   <<NoCall, <<"Rejected">>>>}

\* StartCall: the INVITE goes out, or the leg cannot take the call.  A failed
\* send leaves the entry in the table of the cellular leg.
StartOutcomes(l) ==
  {<<Entry("calling"), <<>>>>, <<NoCall, <<"Unavailable">>>>,
   <<NoCall, <<"Rejected">>>>}
    \cup IF l = "cellular" THEN {<<Entry("unsent"), <<"Unavailable">>>>} ELSE {}

\* AcceptCall: answered, with a 200 that may fail to go out, or the media
\* cannot be set up, which only the cellular leg reports.
AcceptOutcomes(l, call) ==
  IF call.st \in {"ringing", "up"}
  THEN {<<Entry("up"), <<"Connected">>>>, <<Entry("up"), <<>>>>,
        IF l = "cellular" THEN <<NoCall, <<"Ended", "Connected">>>>
                          ELSE <<call, <<>>>>}
  ELSE {<<call, <<>>>>}

\* Renegotiate: the re-INVITE goes out, or is refused, which only the VoWiFi
\* leg reports.
RenegotiateOutcomes(l, call) ==
  (IF call.st = "up" THEN {<<[call EXCEPT !.reinvite = TRUE], <<>>>>} ELSE {})
    \cup {<<call, IF l = "vowifi" THEN <<"ReinviteRejected">> ELSE <<>>>>}

LegOutcomes(l, op, call) ==
  CASE op = "Start" -> StartOutcomes(l)
    [] op = "Accept" -> AcceptOutcomes(l, call)
    [] op = "Renegotiate" -> RenegotiateOutcomes(l, call)
    [] op = "Transfer" -> {<<call, <<"TransferResponse">>>>}
    [] op = "Stop" -> {<<NoCall, <<>>>>}

LegCommand(l) ==
  /\ link[l].session = "on" /\ toLeg[l] # <<>>
  /\ LET cmd == Head(toLeg[l])
     IN  \E o \in LegOutcomes(l, cmd.op, leg[l][cmd.call]) :
           LegStep(l, cmd.call, o[1], o[2])
  /\ toLeg' = [toLeg EXCEPT ![l] = Tail(@)]
  /\ UNCHANGED <<link, used>>

\* The leg's receiver of commands overran: the oldest one is skipped, which
\* may be the end of a call.
LegLagged(l) ==
  /\ link[l].session = "on" /\ toLeg[l] # <<>> /\ lags < MaxLags
  /\ lags' = lags + 1
  /\ toLeg' = [toLeg EXCEPT ![l] = Tail(@)]
  /\ dropped' = [dropped EXCEPT ![Head(toLeg[l]).call] =
                   IF Head(toLeg[l]).op = "Stop" THEN "lost" ELSE @]
  /\ UNCHANGED <<link, leg, evs, trunkVars, used, route, admissionVars,
                 policyVars, met, stopped>>

\* The network answers, rejects or ends a call.
NetFinal(l, c) ==
  /\ leg[l][c].st = "calling"
  /\ \/ LegStep(l, c, Entry("up"), <<"Answered">>)
     \/ LegStep(l, c, NoCall, <<"Rejected">>)
  /\ UNCHANGED <<link, toLeg, used>>

\* The network answers a re-INVITE, rejects it, or leaves it to its timeout;
\* the cellular leg ends the call when the answer is of no use.
NetReinviteFinal(l, c) ==
  /\ leg[l][c].reinvite
  /\ \/ \E op \in {"Answered", "ReinviteRejected"} :
          LegStep(l, c, Entry("up"), <<op>>)
     \/ l = "cellular" /\ LegStep(l, c, NoCall, <<"Rejected">>)
  /\ UNCHANGED <<link, toLeg, used>>

\* A BYE or a CANCEL, or a VoWiFi channel that breaks while another
\* registration waits to take its place: the link stays ready.
NetEnd(l, c) ==
  /\ \/ leg[l][c].st = "up" /\ LegStep(l, c, NoCall, <<"Ended">>)
     \/ leg[l][c].st = "ringing" /\ LegStep(l, c, NoCall, <<"Cancelled">>)
     \/ l = "vowifi" /\ leg[l][c] # NoCall /\ LegStep(l, c, NoCall, <<"Ended">>)
  /\ UNCHANGED <<link, toLeg, used>>

\* An INVITE of the network: rejected by the leg unless the link allows it,
\* answered at once in the immediate incoming mode if the link allows that.
NetIncoming(l, c, immediate) ==
  /\ Fresh(c)
  /\ link[l].session = "on" /\ link[l].allowed /\ IsAvailable(l)
  /\ LegStep(l, c, Entry(IF link[l].auto /\ immediate THEN "up" ELSE "ringing"),
             <<"Incoming">>)
  /\ UNCHANGED <<link, toLeg>>

\* OperatorLink::set_ready(false): a new access generation.
NotReady(l) == [link[l] EXCEPT !.ready = FALSE,
                               !.gen = @ + (IF link[l].ready THEN 1 ELSE 0)]

\* A session is installed, or registers again.
LinkUp(l) ==
  /\ link[l].session \in {"off", "on"} /\ ~link[l].ready
  /\ link' = [link EXCEPT ![l].session = "on", ![l].ready = TRUE]
  /\ UNCHANGED <<leg, toLeg, evs, used, routerVars>>

\* The registration expires or is revoked: the session and its calls go on.
LinkRevoked(l) ==
  /\ link[l].ready /\ Changes < MaxChanges
  /\ link' = [link EXCEPT ![l] = NotReady(l)]
  /\ UNCHANGED <<leg, toLeg, evs, used, routerVars>>

\* The session ends with its calls.  The VoWiFi session may say so for each
\* of them; the cellular one clears its link first and says nothing.
SessionEnds(l, tell) ==
  LET ended == {c \in Calls : leg[l][c] # NoCall}
  IN  /\ link[l].session = "on" /\ (link[l].ready => Changes < MaxChanges)
      /\ l = "cellular" => ~link[l].ready /\ ~tell
      /\ link' = [link EXCEPT ![l].session = "closing"]
      /\ leg' = [leg EXCEPT ![l] = [c \in Calls |-> NoCall]]
      /\ evs' = [evs EXCEPT ![l] =
                   IF tell THEN @ \o Each(ended, "Ended") ELSE @]
      /\ UNCHANGED <<toLeg, used, routerVars>>

\* Its task ends: the link is cleared and the receiver dropped, with whatever
\* it had not read.
LinkClosed(l) ==
  /\ link[l].session = "closing"
  /\ link' = [link EXCEPT ![l] = [NotReady(l) EXCEPT !.session = "off"]]
  /\ toLeg' = [toLeg EXCEPT ![l] = <<>>]
  /\ UNCHANGED <<leg, evs, used, routerVars>>

-----------------------------------------------------------------------------

RouterTurn ==
  \/ RouterTick \/ HandleCommand
  \/ \E c \in Calls : HandleRequest(c)
  \/ \E l \in Legs : HandleEvent(l)
  \/ \E r \in results : HandleResult(r)

TrunkStep ==
  \E c \in Calls :
    \/ TrunkStart(c) \/ ApiTimeout(c)
    \/ \E op \in Commands : TrunkAsk(c, op)
    \/ \E mode \in {0, gate}, offers \in Offers :
         ApiStart(c, mode, offers)

LegStepAny ==
  \E l \in Legs :
    \/ LegCommand(l) \/ LegLagged(l) \/ LinkUp(l) \/ LinkRevoked(l) \/ LinkClosed(l)
    \/ \E tell \in BOOLEAN : SessionEnds(l, tell)
    \/ \E c \in Calls :
         \/ NetFinal(l, c) \/ NetReinviteFinal(l, c) \/ NetEnd(l, c)
         \/ \E immediate \in BOOLEAN : NetIncoming(l, c, immediate)

Next ==
  \/ RouterTurn \/ RouterLagged \/ TrunkStep \/ LegStepAny
  \/ \E l \in Legs : EventsLagged(l)
  \/ \E t \in tasks : ObservationDone(t)
  \/ \E mode \in Modes : SetCostPolicy(mode)
  \/ \E layers \in Layers : SetVoicePolicy(layers)

Spec == Init /\ [][Next]_vars

\* The router's loop never stops, and commands, requests and observations are
\* each reached because a call has finitely many of what the biased select
\* prefers.  An observation ends by its timeout.  The trunk side, the legs and
\* the network owe nothing.
FairSpec ==
  /\ Spec
  /\ WF_vars(HandleCommand)
  /\ WF_vars(\E c \in Calls : HandleRequest(c))
  /\ WF_vars(\E r \in results : HandleResult(r))
  /\ WF_vars(\E t \in tasks : ObservationDone(t))

-----------------------------------------------------------------------------
(* Properties.                                                             *)

\* Of the queued commands that start or stop a call the last is this one.
LastQueued(l, c, op) ==
  \E i \in DOMAIN toLeg[l] :
    /\ toLeg[l][i] = [op |-> op, call |-> c]
    /\ \A j \in DOMAIN toLeg[l] :
         j > i /\ toLeg[l][j].call = c
           => toLeg[l][j].op \notin {"Start", "Stop"} \ {op}

\* The leg has the call, or will when it has read its commands.
Holds(l, c) ==
  \/ LastQueued(l, c, "Start")
  \/ leg[l][c].st \in {"calling", "ringing", "up"} /\ ~LastQueued(l, c, "Stop")

\* A call is never placed on both legs: one that moves to the next leg has
\* been given up by the first (access_router.rs, "keeps each call pinned to
\* exactly one backend").
OneLeg == \A c \in Calls : ~(Holds("vowifi", c) /\ Holds("cellular", c))

\* The router knows of the call, or is about to hear of it.
Known(l, c) ==
  \/ Owner(c) = l
  \/ \E i \in DOMAIN evs[l] : evs[l][i].call = c /\ evs[l][i].op = "Incoming"

\* A call that a leg holds can be reached through the router, but for four
\* cases: its link was lost since it was routed (the next command or event
\* finds an old generation); a re-INVITE of it was refused, which the router
\* takes for its end (a disagreement, see ConfirmedStaysPinned); the leg's
\* receiver lagged and skipped the command that ends it; the forwarder of
\* events lagged and skipped its Incoming.
NoOrphan ==
  \A l \in Legs, c \in Calls :
    Holds(l, c) => Known(l, c) \/ dropped[c] # "no"

\* What the router's documentation says of every call ("keeps each call
\* pinned to exactly one backend"), and the bridge's test of a confirmed call
\* whose re-INVITE is rejected: it stays reachable on its leg.  A lost link
\* and a lost message are excused.
ConfirmedStaysPinned ==
  \A l \in Legs, c \in Calls :
    Holds(l, c) => Known(l, c) \/ dropped[c] \in {"stale", "lost"}

\* An API call is placed only on legs its plan has an offer for (a call
\* forced onto VoWiFi has none for cellular).
OfferedLegsOnly ==
  \A l \in Legs, c \in Calls :
    Holds(l, c) /\ api[c].st = "ok" => l \in api[c].offers

\* The command the step sends to a leg.
Sends(l, c, ops) ==
  /\ Len(toLeg'[l]) > Len(toLeg[l])
  /\ \E i \in Len(toLeg[l]) + 1 .. Len(toLeg'[l]) :
       toLeg'[l][i].call = c /\ toLeg'[l][i].op \in ops

\* Once a call has asked for admission in the VoWiFi-only mode nothing that
\* costs money is sent for it on cellular, whatever the mode becomes; in the
\* conditional mode it is sent only by an observation of home made for this
\* very admission.
CostRatchet ==
  [][\A c \in Calls :
       Sends("cellular", c, Costly) =>
         LET modes == met'[c] \cup {gate}
         IN  /\ 1 \notin modes
             /\ 2 \in modes => /\ pending[c] # NoPending
                               /\ [call |-> c, ticket |-> pending[c].ticket,
                                   home |-> TRUE] \in results]_vars

\* Once the router has handled the end of a call by the trunk side, a late
\* observation or failover never places, answers or transfers it.
CancelWins ==
  [][\A l \in Legs, c \in Calls : stopped[c] => ~Sends(l, c, Costly)]_vars

\* No action waits for its observation forever.
AdmissionSettles ==
  \A c \in Calls : pending[c] # NoPending ~> pending[c] = NoPending

\* A cellular leg never answers an incoming call by itself while the mode
\* forbids it.
NoCostlyAutoAnswer ==
  [][\A c \in Calls :
       leg["cellular"][c] = NoCall /\ leg'["cellular"][c].st = "up"
         => gate = 0]_vars
=============================================================================
