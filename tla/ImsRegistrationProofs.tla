------------------------ MODULE ImsRegistrationProofs ------------------------
(***************************************************************************)
(* Machine-checked proofs about ImsRegistration, for every bound, every set *)
(* of outside events and every registrar.                                  *)
(*                                                                         *)
(* The argument: IInv is inductive.  Its conjuncts are proved one lemma     *)
(* each, by cases on the disjuncts of Next; every safety theorem is then a  *)
(* consequence of IInv.                                                    *)
(*                                                                         *)
(* The second part is about the two flows of the line: LegInv is inductive  *)
(* beside IInv, and HonestInv /\ BoundInv beside both with a registrar that *)
(* honours Require.                                                         *)
(***************************************************************************)
EXTENDS ImsRegistration, TLAPS

\* The two legs, and "none" is not one of them.
LEMMA Legs == "cellular" \in Access /\ "wlan" \in Access /\ Access = {"cellular", "wlan"}
              /\ "none" \notin Access
  BY DEF Access

\* `decide` admits enabled legs only.
LEMMA DecideEnabled ==
  ASSUME NEW in PROVE Decide(in) \subseteq in.enabled
<1>1. Usable(in) \subseteq in.enabled
  BY DEF Usable
<1>2. \A a : Prefer(a, Usable(in)) \subseteq Usable(in)
  BY DEF Prefer
<1> QED BY <1>1, <1>2 DEF Decide

\* So does the decision on the snapshots of a typed state.
LEMMA DecisionEnabled ==
  ASSUME TypeOK, NEW t, NEW seen PROVE Decision(t, seen) \subseteq Access
<1>1. DecisionInputs(t, seen).enabled = enabled
  BY DEF DecisionInputs
<1> QED BY <1>1, DecideEnabled DEF Decision, TypeOK

\* What returning from the policy leaves behind is typed.
LEMMA Leave ==
  ASSUME TypeOK, LeavePolicy
  PROVE  /\ desired' \subseteq Access /\ previous' \subseteq Access /\ release' \subseteq Access
         /\ early' \in BOOLEAN /\ saw' = FALSE /\ leg' \in [Access -> {"free", "tx", "ext"}]
  BY DEF TypeOK, LeavePolicy

\* So is what dropping transition_lock leaves behind.
LEMMA End ==
  ASSUME TypeOK, EndTx
  PROVE  /\ op' = "idle" /\ pc' = "idle" /\ target' = "none"
         /\ desired' \subseteq Access /\ previous' \subseteq Access /\ release' \subseteq Access
         /\ early' \in BOOLEAN /\ saw' = FALSE /\ leg' \in [Access -> {"free", "tx", "ext"}]
  BY Leave DEF EndTx

\* The continuations of the policy are those of its three callers.
LEMMA Returns ==
  ASSUME TypeOK, NEW p, p => target \in Access, PolicyReturns(p)
  PROVE  /\ pc' \in LegPcs => target' \in Access
         /\ op' \in Ops /\ pc' \in {"idle", "connect", "park"} /\ target' \in Access \cup {"none"}
         /\ desired' \subseteq Access /\ previous' \subseteq Access /\ release' \subseteq Access
         /\ early' \in BOOLEAN /\ saw' = FALSE /\ leg' \in [Access -> {"free", "tx", "ext"}]
  BY Leave, End DEF PolicyReturns, TypeOK, Ops, LegPcs

\* Outside events stay within their bound.
LEMMA Counted ==
  ASSUME TypeOK, NEW k, Outside(k) PROVE changes' \in 0..MaxChanges
  BY Bounds DEF TypeOK, Outside

\* A teardown keeps the session, path and exchange state typed.
LEMMA Torn ==
  ASSUME TypeOK, NEW a, Teardown(a)
  PROVE  /\ lease' \in [Access -> Lease] /\ phase' \in [Access -> Phases]
         /\ up' \subseteq Access /\ bound' \subseteq Access
         /\ required' \subseteq Access /\ offered' \subseteq Access
         /\ overlap' \subseteq Access
<1>1. lease' \in [Access -> Lease]
  BY DEF TypeOK, Teardown, NoLease, Lease
<1>2. phase' \in [Access -> Phases]
  BY DEF TypeOK, Teardown, Phases
<1> QED BY <1>1, <1>2 DEF TypeOK, Teardown

\* The end of an exchange drops its own permit and nobody else's.
LEMMA Ended ==
  ASSUME TypeOK, NEW a, EndExchange(a)
  PROVE  /\ phase' = [phase EXCEPT ![a] = "idle"] /\ phase' \in [Access -> Phases]
         /\ permit' = (IF permit = a THEN "none" ELSE permit)
         /\ required' \subseteq Access /\ offered' \subseteq Access
         /\ op' = op /\ target' = target
         /\ pc' = (IF permit = a /\ pc = "exchange" THEN "after" ELSE pc)
         /\ desired' = desired /\ previous' = previous /\ release' = release
         /\ early' = early /\ saw' = saw
  BY DEF TypeOK, EndExchange, Phases, Goto, txVars
\* Reading an answer keeps the leases typed and drops none of them.
LEMMA ReceivedLease ==
  ASSUME TypeOK, NEW a \in Access, NEW n \in BOOLEAN, Receive(a, n)
  PROVE  /\ lease' \in [Access -> Lease]
         /\ \A b \in Access : Owned(b) => Owned(b)'
<1>1. \A l \in Lease : Failed(l) \in Lease /\ (Failed(l).st = "none" <=> l.st = "none")
  BY DEF Failed, Lease
<1>2. \A l \in Lease, m, ok \in BOOLEAN :
        Renewed(l, m, ok) \in Lease /\ Renewed(l, m, ok).st # "none"
  BY DEF Lease, Renewed
<1>3. lease[a] \in Lease /\ lease[a].ok \in BOOLEAN /\ (n \/ lease[a].ok) \in BOOLEAN
  BY DEF TypeOK, Lease
<1>4. \/ lease' = lease \/ lease' = [b \in Access |-> Failed(lease[b])]
      \/ \E m, ok \in BOOLEAN : lease' = [lease EXCEPT ![a] = Renewed(lease[a], m, ok)]
  <2>1. \/ lease' = lease \/ lease' = [b \in Access |-> Failed(lease[b])]
        \/ lease' = [lease EXCEPT ![a] = Renewed(lease[a], FALSE, lease[a].ok)]
        \/ lease' = [lease EXCEPT ![a] = Renewed(lease[a], TRUE, n \/ lease[a].ok)]
    BY DEF Receive
  <2> QED BY <2>1, <1>3
<1>5. CASE lease' = lease
  BY <1>5 DEF TypeOK, Owned
<1>6. CASE lease' = [b \in Access |-> Failed(lease[b])]
  BY <1>1, <1>6 DEF TypeOK, Owned
<1>7. CASE \E m, ok \in BOOLEAN : lease' = [lease EXCEPT ![a] = Renewed(lease[a], m, ok)]
  <2>1. PICK m \in BOOLEAN, ok \in BOOLEAN :
          lease' = [lease EXCEPT ![a] = Renewed(lease[a], m, ok)]
    BY <1>7
  <2>2. Renewed(lease[a], m, ok) \in Lease /\ Renewed(lease[a], m, ok).st # "none"
    BY <1>2, <1>3
  <2> QED BY <2>1, <2>2 DEF TypeOK, Owned
<1> QED BY <1>4, <1>5, <1>6, <1>7

\* Every step keeps the state typed.
LEMMA TypeStep == TypeOK /\ [Next]_vars => TypeOK'
<1> SUFFICES ASSUME TypeOK, [Next]_vars PROVE TypeOK'
  OBVIOUS
<1> USE DEF TypeOK, LegPcs, profileVars, coordVars, exchVars, txVars, histVars
<1>1. CASE BeginReconcile
  BY <1>1 DEF BeginReconcile, Start, Ops, Pcs
<1>2. CASE PolicyDecide
  <2>1. PICK seen \in BOOLEAN :
          /\ ReadsIdentity(seen)
          /\ desired' = Decision(target, seen)
          /\ release' = LegsToRelease(Decision(target, seen), up)
          /\ saw' = seen /\ barred' = (barred /\ seen)
    BY <1>2 DEF PolicyDecide
  <2>2. changes' \in 0..MaxChanges
    BY <2>1, Counted DEF ReadsIdentity
  <2> QED BY <1>2, <2>1, <2>2, DecisionEnabled DEF PolicyDecide, LegsToRelease, Pcs
<1>3. CASE PolicyGate
  BY <1>3, Returns DEF PolicyGate, Goto, Pcs
<1>4. CASE PolicyRecheck
  BY <1>4 DEF PolicyRecheck, Goto, Pcs
<1>5. CASE PolicyTakeLeg
  BY <1>5 DEF PolicyTakeLeg, Pcs
<1>6. CASE PolicyCheckCall
  BY <1>6 DEF PolicyCheckCall, Goto, Pcs
<1>7. CASE PolicyDropLeg
  BY <1>7, Torn DEF PolicyDropLeg, NextLeg, Pcs
<1>8. CASE PolicyClose
  BY <1>8 DEF PolicyClose, Publish, Goto, Pcs
<1>9. CASE PolicyRestore
  BY <1>9, Returns DEF PolicyRestore, Publish, Pcs
<1>10. CASE PolicyOpen
  BY <1>10, Returns DEF PolicyOpen, Publish, Pcs
<1>11. CASE Park
  BY <1>11 DEF Park, Publish, Goto, Pcs
<1>12. CASE WlanResetGate
  <2>1. CASE EndTx
    BY <1>12, <2>1, End DEF WlanResetGate, Pcs, Ops
  <2>2. CASE ~EndTx
    BY <1>12, <2>2 DEF WlanResetGate, Goto, Pcs
  <2> QED BY <2>1, <2>2
<1>13. CASE ParkTakeLeg
  BY <1>13 DEF ParkTakeLeg, Pcs
<1>14. CASE ParkDropLeg
  BY <1>14, Torn, End DEF ParkDropLeg, Ops, Pcs
<1>15. CASE Connect
  <2>1. CASE EndTx
    BY <1>15, <2>1, End, Torn DEF Connect, Ops, Pcs
  <2>2. CASE ~EndTx
    BY <1>15, <2>2, Torn DEF Connect, Goto, Pcs
  <2> QED BY <2>1, <2>2
<1>16. CASE RequestPermit
  BY <1>16 DEF RequestPermit, Overlapping, AdmitOk, Goto, Pcs, Phases
<1>17. CASE FinishBringUp
  BY <1>17, End DEF FinishBringUp, Ops, Pcs
<1>18. ASSUME NEW ok \in BOOLEAN, BringUpPath(ok) PROVE TypeOK'
  BY <1>18, Legs DEF BringUpPath, Goto, Pcs
<1>19. ASSUME NEW f \in BOOLEAN, GiveUp(f) PROVE TypeOK'
  BY <1>19, End, Torn DEF GiveUp, Ops, Pcs
<1>20. CASE EndObserve
  BY <1>20, End DEF EndObserve, Ops, Pcs
<1>21. CASE HelperAdmit
  BY <1>21, Legs DEF HelperAdmit, Overlapping, Phases
<1>22. CASE CellularRefresh
  BY <1>22 DEF CellularRefresh, Phases
<1>23. CASE BearerUp
  BY <1>23, Legs DEF BearerUp
<1>24. ASSUME NEW a \in Access, BeginBringUp(a) PROVE TypeOK'
  BY <1>24 DEF BeginBringUp, Start, Ops, Pcs
<1>25. ASSUME NEW a \in Access, NEW d \in BOOLEAN, BeginStop(a, d) PROVE TypeOK'
  BY <1>25, Counted DEF BeginStop, Start, Ops, Pcs
<1>26. ASSUME NEW o \in Ops, BeginWlanReset(o) PROVE TypeOK'
  BY <1>26, Legs, Counted DEF BeginWlanReset, Start, Ops, Pcs
<1>27. CASE BeginObserve
  BY <1>27 DEF BeginObserve, ObservationAllowed, Start, Ops, Pcs
<1>28. CASE CancelBringUp
  <2>1. phase' \in [Access -> Phases] /\ required' \subseteq Access /\ offered' \subseteq Access
    BY <1>28 DEF CancelBringUp, Phases
  <2>2. permit' \in Access \cup {"none"}
    BY <1>28 DEF CancelBringUp
  <2> QED BY <1>28, <2>1, <2>2, End, Counted DEF CancelBringUp, Ops, Pcs
<1>29. CASE NextCandidate
  BY <1>29, Torn, Counted DEF NextCandidate, Goto, Pcs
<1>30. CASE CallStart
  BY <1>30, Counted DEF CallStart
<1>31. ASSUME NEW e \in SUBSET Access, NEW p \in Preferences, SetProfile(e, p) PROVE TypeOK'
  BY <1>31, Counted, Bounds DEF SetProfile
<1>32. ASSUME NEW r \in SUBSET Access, SetReady(r) PROVE TypeOK'
  BY <1>32, Counted DEF SetReady
<1>51. CASE SetIdentity
  BY <1>51, Counted DEF SetIdentity
<1>33. CASE ExternalTakeLeg
  BY <1>33, Counted DEF ExternalTakeLeg
<1>34. CASE HotplugReset
  BY <1>34, Torn, Counted DEF HotplugReset
<1>35. CASE HelperIke
  BY <1>35, Counted DEF HelperIke
<1>36. CASE CallEnd
  BY <1>36 DEF CallEnd
<1>37. CASE ExternalDropLeg
  BY <1>37, Torn DEF ExternalDropLeg
<1>38. ASSUME NEW ok \in BOOLEAN, HelperIkeDone(ok) PROVE TypeOK'
  BY <1>38, Legs DEF HelperIkeDone
<1>39. ASSUME NEW a \in Access, NEW f \in Offers, Prepare(a, f) PROVE TypeOK'
  BY <1>39, Ended DEF Prepare, Overlapping, Phases, Pcs, txVars
<1>40. ASSUME NEW a \in Access, NEW n \in BOOLEAN, Receive(a, n) PROVE TypeOK'
  <2>1. lease' \in [Access -> Lease]
    BY <1>40, ReceivedLease
  <2>2. rejected' \subseteq Access /\ backoff' \subseteq Access
    BY <1>40 DEF Receive
  <2> QED BY <1>40, <2>1, <2>2, Ended DEF Receive, Pcs
<1>41. ASSUME NEW a \in Access, Registrar(a) PROVE TypeOK'
  BY <1>41 DEF Registrar, Answers, Phases
<1>42. ASSUME NEW a \in Access, Lose(a) PROVE TypeOK'
  BY <1>42, Ended DEF Lose, Pcs
<1>43. ASSUME NEW a \in Access, Pong(a) PROVE TypeOK'
  BY <1>43 DEF Pong, Lease
<1>44. ASSUME NEW a \in Access, HealthLapses(a) PROVE TypeOK'
  BY <1>44 DEF HealthLapses, Lease
<1>45. ASSUME NEW a \in Access, FlowFail(a) PROVE TypeOK'
  <2>1. Failed(lease[a]) \in Lease
    BY DEF Failed, Lease
  <2> QED BY <1>45, <2>1 DEF FlowFail
<1>46. ASSUME NEW a \in Access, Expire(a) PROVE TypeOK'
  BY <1>46 DEF Expire, Lease
<1>47. ASSUME NEW a \in Access, NEW p \in BOOLEAN, SessionLoss(a, p) PROVE TypeOK'
  BY <1>47 DEF SessionLoss, Lease, NoLease
<1>48. ASSUME NEW a \in Access, BackoffElapses(a) PROVE TypeOK'
  BY <1>48 DEF BackoffElapses
<1>49. ASSUME NEW a \in Access, CooldownElapses(a) PROVE TypeOK'
  BY <1>49 DEF CooldownElapses
<1>50. CASE UNCHANGED vars
  BY <1>50 DEF vars
<1> HIDE DEF TypeOK
<1> QED BY <1>1, <1>2, <1>3, <1>4, <1>5, <1>6, <1>7, <1>8, <1>9, <1>10, <1>11,
   <1>12, <1>13, <1>14, <1>15, <1>16, <1>17, <1>18, <1>19, <1>20, <1>21, <1>22,
   <1>23, <1>24, <1>25, <1>26, <1>27, <1>28, <1>29, <1>30, <1>31, <1>32, <1>33,
   <1>34, <1>35, <1>36, <1>37, <1>38, <1>39, <1>40, <1>41, <1>42, <1>43, <1>44,
   <1>45, <1>46, <1>47, <1>48, <1>49, <1>50, <1>51 DEF Next, PolicyStep, WriteStep,
   ParkStep, BringUpStep, ExchangeStep, Requests, FlowStep, Environment

\* While the policy drains and releases legs no leg is admitted and no REGISTER
\* holds a permit; a parked leg is neither admitted nor registering;
\* the permit outstanding during a bring-up's own exchange is its own.
GateInv ==
  /\ pc \in {"recheck", "take", "check", "drop", "restore"} =>
       admission = {} /\ permit = "none"
  /\ pc = "exchange" => permit = target
  /\ pc \in {"parktake", "parkdrop"} => target \notin admission /\ permit # target

\* The history of the call test is only about a call that is still up.
CallInv == (early => call) /\ (pc = "drop" => ~early)

\* Every exchange has a permit or refreshes an owned flow.
ExchangeInv == \A a \in Access : phase[a] # "idle" => permit = a \/ Owned(a)

ObserveInv == (op = "observe" => pc = "observe") /\ ObservationExclusive

\* The request of an exchange has left.
Asked(a) == phase[a] \in {"sent", "outbound", "plain", "partial", "refused"}

\* A leg with a flow or a request has a path.
PathInv == \A a \in Access : Owned(a) \/ Asked(a) => a \in up

\* Cellular registers from a bring-up only, under transition_lock.
PermitInv == /\ op = "idle" => pc = "idle"
             /\ permit = "cellular" => pc = "exchange"

PolicyPcs == {"gate", "close", "recheck", "take", "check", "drop", "restore", "open"}

\* A decision that saw a spoofed identity releases cellular before it is published;
\* once it is, there is nothing left on cellular that could be restored, renewed
\* or answered.
SpoofInv ==
  /\ saw => /\ pc \in PolicyPcs /\ "cellular" \notin desired
            /\ "cellular" \in up => "cellular" \in release
  /\ pc = "open" => release = {}
  /\ barred => "cellular" \notin previous
  /\ SpoofedStaysOffCellular

IInv == /\ TypeOK /\ GateInv /\ CallInv /\ ExchangeInv /\ ObserveInv
        /\ PathInv /\ PermitInv /\ SpoofInv

\* Only the holder of transition_lock writes the admission, and a permit is only
\* given to an admitted leg: the gate stays shut while legs are released.
LEMMA GateStep == TypeOK /\ GateInv /\ [Next]_vars => GateInv'
<1> SUFFICES ASSUME TypeOK, GateInv, [Next]_vars PROVE GateInv'
  OBVIOUS
<1> USE DEF TypeOK, LegPcs, GateInv, profileVars, coordVars, exchVars, txVars, histVars
<1>1. CASE BeginReconcile \/ EndObserve
  BY <1>1 DEF BeginReconcile, EndObserve, Start, EndTx, LeavePolicy
<1>2. CASE PolicyStep
  BY <1>2, Legs DEF PolicyStep, PolicyDecide, PolicyGate, PolicyRecheck,
     PolicyTakeLeg, PolicyCheckCall, PolicyDropLeg, Goto, PolicyReturns, EndTx,
     LeavePolicy
<1>3. CASE WriteStep
  BY <1>3, Legs DEF WriteStep, PolicyClose, PolicyRestore, PolicyOpen, Park,
     Publish, WriteFree, Goto, PolicyReturns, EndTx, LeavePolicy
<1>4. CASE ParkStep
  BY <1>4, Legs DEF ParkStep, WlanResetGate, ParkTakeLeg, ParkDropLeg, Goto, EndTx,
     LeavePolicy
<1>5. CASE BringUpStep
  BY <1>5, Legs DEF BringUpStep, Connect, RequestPermit, FinishBringUp,
     BringUpPath, GiveUp, Goto, EndTx, LeavePolicy, AdmitOk
<1>6. CASE HelperAdmit \/ CellularRefresh \/ BearerUp
  BY <1>6, Legs DEF HelperAdmit, CellularRefresh, BearerUp, AdmitOk
<1>7. CASE Requests
  BY <1>7, Legs DEF Requests, BeginBringUp, BeginStop, BeginWlanReset,
     BeginObserve, CancelBringUp, NextCandidate, Start, Goto, EndTx, LeavePolicy
<1>8. CASE Environment
  BY <1>8 DEF Environment, CallStart, SetProfile, SetReady, SetIdentity, ExternalTakeLeg,
     HotplugReset, HelperIke
<1>9. CASE CallEnd \/ ExternalDropLeg \/ \E ok \in BOOLEAN : HelperIkeDone(ok)
  BY <1>9 DEF CallEnd, ExternalDropLeg, HelperIkeDone
<1>10. ASSUME NEW a \in Access, ExchangeStep(a) PROVE GateInv'
  BY <1>10, Legs, Ended DEF ExchangeStep, Prepare, Receive, Registrar, Lose
<1>11. ASSUME NEW a \in Access, FlowStep(a) \/ BackoffElapses(a) \/ CooldownElapses(a) PROVE GateInv'
  BY <1>11 DEF FlowStep, Pong, HealthLapses, FlowFail, Expire, SessionLoss,
     BackoffElapses, CooldownElapses
<1>12. CASE UNCHANGED vars
  BY <1>12 DEF vars
<1> HIDE DEF GateInv
<1> QED BY <1>1, <1>2, <1>3, <1>4, <1>5, <1>6, <1>7, <1>8, <1>9, <1>10, <1>11,
   <1>12 DEF Next

\* The leg is dropped only after a call test that failed under its lock.
LEMMA CallStep == TypeOK /\ CallInv /\ [Next]_vars => CallInv'
<1> SUFFICES ASSUME TypeOK, CallInv, [Next]_vars PROVE CallInv'
  OBVIOUS
<1> USE DEF CallInv, profileVars, coordVars, exchVars, txVars, histVars
<1>1. CASE BeginReconcile \/ EndObserve
  BY <1>1 DEF BeginReconcile, EndObserve, Start, EndTx, LeavePolicy
<1>2. CASE PolicyStep
  BY <1>2 DEF PolicyStep, PolicyDecide, PolicyGate, PolicyRecheck, PolicyTakeLeg,
     PolicyCheckCall, PolicyDropLeg, Goto, PolicyReturns, EndTx, LeavePolicy
<1>3. CASE WriteStep
  BY <1>3 DEF WriteStep, PolicyClose, PolicyRestore, PolicyOpen, Park, Publish,
     WriteFree, Goto, PolicyReturns, EndTx, LeavePolicy
<1>4. CASE ParkStep
  BY <1>4 DEF ParkStep, WlanResetGate, ParkTakeLeg, ParkDropLeg, Goto, EndTx,
     LeavePolicy
<1>5. CASE BringUpStep
  BY <1>5 DEF BringUpStep, Connect, RequestPermit, FinishBringUp, BringUpPath,
     GiveUp, Goto, EndTx, LeavePolicy, AdmitOk
<1>6. CASE HelperAdmit \/ CellularRefresh \/ BearerUp
  BY <1>6 DEF HelperAdmit, CellularRefresh, BearerUp, AdmitOk
<1>7. CASE Requests
  BY <1>7 DEF Requests, BeginBringUp, BeginStop, BeginWlanReset, BeginObserve, ObservationAllowed,
     CancelBringUp, NextCandidate, Start, Goto, EndTx, LeavePolicy
<1>8. CASE Environment
  BY <1>8 DEF Environment, CallStart, SetProfile, SetReady, SetIdentity, ExternalTakeLeg,
     HotplugReset, HelperIke
<1>9. CASE CallEnd \/ ExternalDropLeg \/ \E ok \in BOOLEAN : HelperIkeDone(ok)
  BY <1>9 DEF CallEnd, ExternalDropLeg, HelperIkeDone
<1>10. ASSUME NEW a \in Access, ExchangeStep(a) PROVE CallInv'
  BY <1>10, Ended DEF ExchangeStep, Prepare, Receive, Registrar, Lose
<1>11. ASSUME NEW a \in Access, FlowStep(a) \/ BackoffElapses(a) \/ CooldownElapses(a) PROVE CallInv'
  BY <1>11 DEF FlowStep, Pong, HealthLapses, FlowFail, Expire, SessionLoss,
     BackoffElapses, CooldownElapses
<1>12. CASE UNCHANGED vars
  BY <1>12 DEF vars
<1> HIDE DEF CallInv
<1> QED BY <1>1, <1>2, <1>3, <1>4, <1>5, <1>6, <1>7, <1>8, <1>9, <1>10, <1>11,
   <1>12 DEF Next

\* An exchange loses neither its permit nor its flow before it ends.
LEMMA ExchangeInvStep == TypeOK /\ GateInv /\ ExchangeInv /\ [Next]_vars => ExchangeInv'
<1> SUFFICES ASSUME TypeOK, GateInv, ExchangeInv, [Next]_vars PROVE ExchangeInv'
  OBVIOUS
<1> USE DEF TypeOK, ExchangeInv, Owned, profileVars, coordVars, exchVars, txVars, histVars
<1>1. CASE BeginReconcile \/ EndObserve
  BY <1>1 DEF BeginReconcile, EndObserve, Start, EndTx, LeavePolicy
<1>2. CASE PolicyStep
  BY <1>2 DEF PolicyStep, PolicyDecide, PolicyGate, PolicyRecheck, PolicyTakeLeg,
     PolicyCheckCall, PolicyDropLeg, Goto, PolicyReturns, EndTx, LeavePolicy,
     Teardown, NoLease
<1>3. CASE WriteStep
  BY <1>3 DEF WriteStep, PolicyClose, PolicyRestore, PolicyOpen, Park, Publish,
     WriteFree, Goto, PolicyReturns, EndTx, LeavePolicy
<1>4. CASE ParkStep
  BY <1>4 DEF ParkStep, WlanResetGate, ParkTakeLeg, ParkDropLeg, Goto, EndTx,
     LeavePolicy, Teardown, NoLease
<1>5. CASE BringUpStep
  <2>1. CASE Connect
    BY <2>1, Legs DEF Connect, Teardown, NoLease, Goto, EndTx, LeavePolicy
  <2>2. CASE RequestPermit
    BY <2>2, Legs DEF RequestPermit, Goto, EndTx, LeavePolicy, AdmitOk
  <2>3. CASE FinishBringUp
    BY <2>3, Legs DEF FinishBringUp, Goto, EndTx, LeavePolicy, AdmitOk
  <2>4. CASE \E ok \in BOOLEAN : BringUpPath(ok)
    BY <2>4 DEF BringUpPath, Goto
  <2>5. CASE \E f \in BOOLEAN : GiveUp(f)
    BY <2>5 DEF GiveUp, Teardown, NoLease, EndTx, LeavePolicy
  <2> QED BY <1>5, <2>1, <2>2, <2>3, <2>4, <2>5 DEF BringUpStep
<1>6. CASE HelperAdmit \/ CellularRefresh \/ BearerUp
  <2>1. CASE HelperAdmit
    BY <2>1, Legs DEF HelperAdmit, AdmitOk, Live
  <2>2. CASE CellularRefresh
    BY <2>2, Legs DEF CellularRefresh, AdmitOk, Live
  <2>3. CASE BearerUp
    BY <2>3, Legs DEF BearerUp, AdmitOk, Live
  <2> QED BY <1>6, <2>1, <2>2, <2>3
<1>7. CASE Requests
  <2>1. CASE \E a \in Access : BeginBringUp(a)
    BY <2>1 DEF BeginBringUp, Start, Goto, EndTx, LeavePolicy, Teardown, NoLease
  <2>2. CASE \E a \in Access, d \in BOOLEAN : BeginStop(a, d)
    BY <2>2 DEF BeginStop, Start, Goto, EndTx, LeavePolicy, Teardown, NoLease
  <2>3. CASE \E o \in Ops : BeginWlanReset(o)
    BY <2>3 DEF BeginWlanReset, Start, Goto, EndTx, LeavePolicy, Teardown, NoLease
  <2>4. CASE BeginObserve
    BY <2>4 DEF BeginObserve, ObservationAllowed, Start, Goto, EndTx, LeavePolicy, Teardown, NoLease
  <2>5. CASE CancelBringUp
    BY <2>5, Legs DEF CancelBringUp, Start, Goto, EndTx, LeavePolicy, Teardown,
       NoLease, GateInv
  <2>6. CASE NextCandidate
    BY <2>6 DEF NextCandidate, Start, Goto, EndTx, LeavePolicy, Teardown, NoLease
  <2> QED BY <1>7, <2>1, <2>2, <2>3, <2>4, <2>5, <2>6 DEF Requests
<1>8. CASE Environment
  BY <1>8 DEF Environment, CallStart, SetProfile, SetReady, SetIdentity, ExternalTakeLeg,
     HotplugReset, HelperIke, Teardown, NoLease
<1>9. CASE CallEnd \/ ExternalDropLeg \/ \E ok \in BOOLEAN : HelperIkeDone(ok)
  BY <1>9 DEF CallEnd, ExternalDropLeg, HelperIkeDone, Teardown, NoLease
<1>10. ASSUME NEW a \in Access, ExchangeStep(a) PROVE ExchangeInv'
  <2>1. CASE \E f \in Offers : Prepare(a, f)
    BY <2>1, Ended DEF Prepare, Failed, Renewed
  <2>2. CASE \E n \in BOOLEAN : Receive(a, n)
    <3>1. \A b \in Access : Owned(b) => Owned(b)'
      BY <2>2, ReceivedLease
    <3> QED BY <2>2, <3>1, Ended DEF Receive
  <2>3. CASE Registrar(a)
    BY <2>3, Ended DEF Registrar, Failed, Renewed
  <2>4. CASE Lose(a)
    BY <2>4, Ended DEF Lose, Failed, Renewed
  <2> QED BY <1>10, <2>1, <2>2, <2>3, <2>4 DEF ExchangeStep
<1>11. ASSUME NEW a \in Access, FlowStep(a) \/ BackoffElapses(a) \/ CooldownElapses(a) PROVE ExchangeInv'
  <2>1. CASE Pong(a)
    BY <2>1 DEF Pong, Live, Proven, Failed, NoLease
  <2>2. CASE HealthLapses(a)
    BY <2>2 DEF HealthLapses, Live, Proven, Failed, NoLease
  <2>3. CASE FlowFail(a)
    BY <2>3 DEF FlowFail, Live, Proven, Failed, NoLease
  <2>4. CASE Expire(a)
    BY <2>4 DEF Expire, Live, Proven, Failed, NoLease
  <2>5. CASE \E p \in BOOLEAN : SessionLoss(a, p)
    BY <2>5 DEF SessionLoss, Live, Proven, Failed, NoLease
  <2>6. CASE BackoffElapses(a)
    BY <2>6 DEF BackoffElapses, Live, Proven, Failed, NoLease
  <2>7. CASE CooldownElapses(a)
    BY <2>7 DEF CooldownElapses, Live, Proven, Failed, NoLease
  <2> QED BY <1>11, <2>1, <2>2, <2>3, <2>4, <2>5, <2>6, <2>7 DEF FlowStep
<1>12. CASE UNCHANGED vars
  BY <1>12 DEF vars
<1> HIDE DEF ExchangeInv
<1> QED BY <1>1, <1>2, <1>3, <1>4, <1>5, <1>6, <1>7, <1>8, <1>9, <1>10, <1>11,
   <1>12 DEF Next

\* Nothing that an observation excludes can start while it runs.
LEMMA ObserveStep == TypeOK /\ ExchangeInv /\ ObserveInv /\ [Next]_vars => ObserveInv'
<1> SUFFICES ASSUME TypeOK, ExchangeInv, ObserveInv, [Next]_vars PROVE ObserveInv'
  OBVIOUS
<1> USE DEF TypeOK, ObserveInv, ObservationExclusive, Owned, profileVars,
   coordVars, exchVars, txVars, histVars
<1>1. CASE BeginReconcile \/ EndObserve
  BY <1>1 DEF BeginReconcile, EndObserve, Start, EndTx, LeavePolicy
<1>2. CASE PolicyStep
  BY <1>2 DEF PolicyStep, PolicyDecide, PolicyGate, PolicyRecheck, PolicyTakeLeg,
     PolicyCheckCall, PolicyDropLeg, Goto, PolicyReturns, EndTx, LeavePolicy,
     Teardown, NoLease
<1>3. CASE WriteStep
  BY <1>3 DEF WriteStep, PolicyClose, PolicyRestore, PolicyOpen, Park, Publish,
     WriteFree, Goto, PolicyReturns, EndTx, LeavePolicy
<1>4. CASE ParkStep
  BY <1>4 DEF ParkStep, WlanResetGate, ParkTakeLeg, ParkDropLeg, Goto, EndTx,
     LeavePolicy, Teardown, NoLease
<1>5. CASE BringUpStep
  BY <1>5 DEF BringUpStep, Connect, RequestPermit, FinishBringUp, BringUpPath,
     GiveUp, Teardown, NoLease, Goto, EndTx, LeavePolicy, AdmitOk
<1>6. CASE HelperAdmit \/ CellularRefresh \/ BearerUp
  BY <1>6 DEF HelperAdmit, CellularRefresh, BearerUp, AdmitOk, Live
<1>7. CASE Requests
  <2>1. CASE \E a \in Access : BeginBringUp(a)
    BY <2>1 DEF BeginBringUp, Start, Goto, EndTx, LeavePolicy, Teardown, NoLease
  <2>2. CASE \E a \in Access, d \in BOOLEAN : BeginStop(a, d)
    BY <2>2 DEF BeginStop, Start, Goto, EndTx, LeavePolicy, Teardown, NoLease
  <2>3. CASE \E o \in Ops : BeginWlanReset(o)
    BY <2>3 DEF BeginWlanReset, Start, Goto, EndTx, LeavePolicy, Teardown, NoLease
  <2>4. CASE BeginObserve
    BY <2>4, Legs DEF BeginObserve, ObservationAllowed, Start, Goto, EndTx, LeavePolicy, Teardown,
       NoLease, ExchangeInv
  <2>5. CASE CancelBringUp
    BY <2>5 DEF CancelBringUp, Start, Goto, EndTx, LeavePolicy, Teardown, NoLease
  <2>6. CASE NextCandidate
    BY <2>6 DEF NextCandidate, Start, Goto, EndTx, LeavePolicy, Teardown, NoLease
  <2> QED BY <1>7, <2>1, <2>2, <2>3, <2>4, <2>5, <2>6 DEF Requests
<1>8. CASE Environment
  BY <1>8 DEF Environment, CallStart, SetProfile, SetReady, SetIdentity, ExternalTakeLeg,
     HotplugReset, HelperIke, Teardown, NoLease
<1>9. CASE CallEnd \/ ExternalDropLeg \/ \E ok \in BOOLEAN : HelperIkeDone(ok)
  BY <1>9 DEF CallEnd, ExternalDropLeg, HelperIkeDone, Teardown, NoLease
<1>10. ASSUME NEW a \in Access, ExchangeStep(a) PROVE ObserveInv'
  BY <1>10, Ended DEF ExchangeStep, Prepare, Receive, Registrar, Lose, Failed, Renewed
<1>11. ASSUME NEW a \in Access, FlowStep(a) \/ BackoffElapses(a) \/ CooldownElapses(a) PROVE ObserveInv'
  BY <1>11 DEF FlowStep, Pong, HealthLapses, FlowFail, Expire, SessionLoss,
     BackoffElapses, CooldownElapses, Live, Proven, Failed, NoLease
<1>12. CASE UNCHANGED vars
  BY <1>12 DEF vars
<1> HIDE DEF ObserveInv
<1> QED BY <1>1, <1>2, <1>3, <1>4, <1>5, <1>6, <1>7, <1>8, <1>9, <1>10, <1>11,
   <1>12 DEF Next

\* A flow or a request outlives the path of its leg in no step.
LEMMA PathStep == TypeOK /\ PathInv /\ [Next]_vars => PathInv'
<1> SUFFICES ASSUME TypeOK, PathInv, [Next]_vars PROVE PathInv'
  OBVIOUS
<1> USE DEF TypeOK, PathInv, Asked, Owned, profileVars, coordVars, exchVars,
   txVars, histVars
<1>1. CASE BeginReconcile \/ EndObserve
  <2>1. CASE BeginReconcile
    BY <2>1, Legs DEF BeginReconcile, Start
  <2>2. CASE EndObserve
    BY <2>2, Legs DEF EndObserve, EndTx, LeavePolicy
  <2> QED BY <1>1, <2>1, <2>2
<1>2. CASE PolicyStep
  <2>1. CASE PolicyDecide
    BY <2>1, Legs DEF PolicyDecide
  <2>2. CASE PolicyGate
    BY <2>2, Legs DEF PolicyGate, Goto, PolicyReturns, EndTx, LeavePolicy
  <2>3. CASE PolicyRecheck
    BY <2>3, Legs DEF PolicyRecheck, Goto
  <2>4. CASE PolicyTakeLeg
    BY <2>4, Legs DEF PolicyTakeLeg
  <2>5. CASE PolicyCheckCall
    BY <2>5, Legs DEF PolicyCheckCall, Goto
  <2>6. CASE PolicyDropLeg
    BY <2>6, Legs DEF PolicyDropLeg, Teardown, NoLease, NextLeg
  <2> QED BY <1>2, <2>1, <2>2, <2>3, <2>4, <2>5, <2>6 DEF PolicyStep
<1>3. CASE WriteStep
  <2>1. CASE PolicyClose
    BY <2>1, Legs DEF PolicyClose, Publish, WriteFree, Goto
  <2>2. CASE PolicyRestore
    BY <2>2, Legs DEF PolicyRestore, Publish, WriteFree, PolicyReturns, EndTx,
       LeavePolicy
  <2>3. CASE PolicyOpen
    BY <2>3, Legs DEF PolicyOpen, Publish, WriteFree, PolicyReturns, EndTx,
       LeavePolicy
  <2>4. CASE Park
    BY <2>4, Legs DEF Park, Publish, WriteFree, Goto
  <2> QED BY <1>3, <2>1, <2>2, <2>3, <2>4 DEF WriteStep
<1>4. CASE ParkStep
  <2>1. CASE WlanResetGate
    BY <2>1, Legs DEF WlanResetGate, Goto, EndTx, LeavePolicy
  <2>2. CASE ParkTakeLeg
    BY <2>2, Legs DEF ParkTakeLeg
  <2>3. CASE ParkDropLeg
    BY <2>3, Legs DEF ParkDropLeg, Teardown, NoLease, EndTx, LeavePolicy
  <2> QED BY <1>4, <2>1, <2>2, <2>3 DEF ParkStep
<1>5. CASE BringUpStep
  <2>1. CASE Connect
    BY <2>1, Legs DEF Connect, Teardown, NoLease, Goto, EndTx, LeavePolicy
  <2>2. CASE RequestPermit
    BY <2>2, Legs DEF RequestPermit, AdmitOk, Overlapping, Goto
  <2>3. CASE FinishBringUp
    BY <2>3, Legs DEF FinishBringUp, EndTx, LeavePolicy
  <2>4. CASE \E ok \in BOOLEAN : BringUpPath(ok)
    BY <2>4, Legs DEF BringUpPath, Goto
  <2>5. CASE \E f \in BOOLEAN : GiveUp(f)
    BY <2>5, Legs DEF GiveUp, Teardown, NoLease, EndTx, LeavePolicy
  <2> QED BY <1>5, <2>1, <2>2, <2>3, <2>4, <2>5 DEF BringUpStep
<1>6. CASE HelperAdmit \/ CellularRefresh \/ BearerUp
  <2>1. CASE HelperAdmit
    BY <2>1, Legs DEF HelperAdmit, AdmitOk, Overlapping
  <2>2. CASE CellularRefresh
    BY <2>2, Legs DEF CellularRefresh, Live
  <2>3. CASE BearerUp
    BY <2>3, Legs DEF BearerUp
  <2> QED BY <1>6, <2>1, <2>2, <2>3
<1>7. CASE Requests
  <2>1. CASE \E a \in Access : BeginBringUp(a)
    BY <2>1, Legs DEF BeginBringUp, Start
  <2>2. CASE \E a \in Access, d \in BOOLEAN : BeginStop(a, d)
    BY <2>2, Legs DEF BeginStop, Start
  <2>3. CASE \E o \in Ops : BeginWlanReset(o)
    BY <2>3, Legs DEF BeginWlanReset, Start
  <2>4. CASE BeginObserve
    BY <2>4, Legs DEF BeginObserve, Start, ObservationAllowed
  <2>5. CASE CancelBringUp
    BY <2>5, Legs DEF CancelBringUp, EndTx, LeavePolicy
  <2>6. CASE NextCandidate
    BY <2>6, Legs DEF NextCandidate, Teardown, NoLease, Goto
  <2> QED BY <1>7, <2>1, <2>2, <2>3, <2>4, <2>5, <2>6 DEF Requests
<1>8. CASE Environment
  <2>1. CASE CallStart
    BY <2>1, Legs DEF CallStart
  <2>2. CASE \E e \in SUBSET Access, p \in Preferences : SetProfile(e, p)
    BY <2>2, Legs DEF SetProfile
  <2>3. CASE \E r \in SUBSET Access : SetReady(r)
    BY <2>3, Legs DEF SetReady
  <2>4. CASE SetIdentity
    BY <2>4, Legs DEF SetIdentity
  <2>5. CASE ExternalTakeLeg
    BY <2>5, Legs DEF ExternalTakeLeg
  <2>6. CASE HotplugReset
    BY <2>6, Legs DEF HotplugReset, Teardown, NoLease
  <2>7. CASE HelperIke
    BY <2>7, Legs DEF HelperIke
  <2> QED BY <1>8, <2>1, <2>2, <2>3, <2>4, <2>5, <2>6, <2>7 DEF Environment
<1>9. CASE CallEnd \/ ExternalDropLeg \/ \E ok \in BOOLEAN : HelperIkeDone(ok)
  <2>1. CASE CallEnd
    BY <2>1, Legs DEF CallEnd
  <2>2. CASE ExternalDropLeg
    BY <2>2, Legs DEF ExternalDropLeg, Teardown, NoLease
  <2>3. CASE \E ok \in BOOLEAN : HelperIkeDone(ok)
    BY <2>3, Legs DEF HelperIkeDone
  <2> QED BY <1>9, <2>1, <2>2, <2>3
<1>10. ASSUME NEW a \in Access, ExchangeStep(a) PROVE PathInv'
  <2>1. CASE \E f \in Offers : Prepare(a, f)
    BY <2>1, Ended, Legs DEF Prepare, Overlapping
  <2>2. CASE \E n \in BOOLEAN : Receive(a, n)
    <3>1. \A b \in Access : Owned(b)' => Owned(b) \/ b = a
      BY <2>2, Legs DEF Receive, Failed, Renewed, Owned
    <3>2. a \in up
      BY <2>2 DEF Receive
    <3> QED BY <2>2, <3>1, <3>2, Ended DEF Receive
  <2>3. CASE Registrar(a)
    BY <2>3, Legs DEF Registrar, Answers
  <2>4. CASE Lose(a)
    BY <2>4, Ended, Legs DEF Lose
  <2> QED BY <1>10, <2>1, <2>2, <2>3, <2>4 DEF ExchangeStep
<1>11. ASSUME NEW a \in Access, FlowStep(a) \/ BackoffElapses(a) \/ CooldownElapses(a)
      PROVE PathInv'
  <2>1. CASE Pong(a)
    BY <2>1, Legs DEF Pong, Live
  <2>2. CASE HealthLapses(a)
    BY <2>2, Legs DEF HealthLapses, Proven, Live
  <2>3. CASE FlowFail(a)
    BY <2>3, Legs DEF FlowFail, Failed
  <2>4. CASE Expire(a)
    BY <2>4, Legs DEF Expire, Live
  <2>5. CASE \E p \in BOOLEAN : SessionLoss(a, p)
    BY <2>5, Legs DEF SessionLoss, NoLease
  <2>6. CASE BackoffElapses(a)
    BY <2>6, Legs DEF BackoffElapses
  <2>7. CASE CooldownElapses(a)
    BY <2>7, Legs DEF CooldownElapses
  <2> QED BY <1>11, <2>1, <2>2, <2>3, <2>4, <2>5, <2>6, <2>7 DEF FlowStep
<1>12. CASE UNCHANGED vars
  BY <1>12 DEF vars
<1> HIDE DEF PathInv
<1> QED BY <1>1, <1>2, <1>3, <1>4, <1>5, <1>6, <1>7, <1>8, <1>9, <1>10, <1>11,
   <1>12 DEF Next

\* The permit of cellular and the bring-up that asked for it end together.
LEMMA PermitStep == TypeOK /\ PermitInv /\ [Next]_vars => PermitInv'
<1> SUFFICES ASSUME TypeOK, PermitInv, [Next]_vars PROVE PermitInv'
  OBVIOUS
<1> USE DEF TypeOK, LegPcs, PermitInv, profileVars, coordVars, exchVars, txVars,
   histVars
<1>1. CASE BeginReconcile \/ EndObserve
  <2>1. CASE BeginReconcile
    BY <2>1, Legs DEF BeginReconcile, Start
  <2>2. CASE EndObserve
    BY <2>2, Legs DEF EndObserve, EndTx, LeavePolicy
  <2> QED BY <1>1, <2>1, <2>2
<1>2. CASE PolicyStep
  <2>1. CASE PolicyDecide
    BY <2>1, Legs DEF PolicyDecide
  <2>2. CASE PolicyGate
    BY <2>2, Legs DEF PolicyGate, Goto, PolicyReturns, EndTx, LeavePolicy
  <2>3. CASE PolicyRecheck
    BY <2>3, Legs DEF PolicyRecheck, Goto
  <2>4. CASE PolicyTakeLeg
    BY <2>4, Legs DEF PolicyTakeLeg
  <2>5. CASE PolicyCheckCall
    BY <2>5, Legs DEF PolicyCheckCall, Goto
  <2>6. CASE PolicyDropLeg
    BY <2>6, Legs DEF PolicyDropLeg, Teardown, NoLease, NextLeg
  <2> QED BY <1>2, <2>1, <2>2, <2>3, <2>4, <2>5, <2>6 DEF PolicyStep
<1>3. CASE WriteStep
  <2>1. CASE PolicyClose
    BY <2>1, Legs DEF PolicyClose, Publish, WriteFree, Goto
  <2>2. CASE PolicyRestore
    BY <2>2, Legs DEF PolicyRestore, Publish, WriteFree, PolicyReturns, EndTx,
       LeavePolicy
  <2>3. CASE PolicyOpen
    BY <2>3, Legs DEF PolicyOpen, Publish, WriteFree, PolicyReturns, EndTx,
       LeavePolicy
  <2>4. CASE Park
    BY <2>4, Legs DEF Park, Publish, WriteFree, Goto
  <2> QED BY <1>3, <2>1, <2>2, <2>3, <2>4 DEF WriteStep
<1>4. CASE ParkStep
  <2>1. CASE WlanResetGate
    BY <2>1, Legs DEF WlanResetGate, Goto, EndTx, LeavePolicy
  <2>2. CASE ParkTakeLeg
    BY <2>2, Legs DEF ParkTakeLeg
  <2>3. CASE ParkDropLeg
    BY <2>3, Legs DEF ParkDropLeg, Teardown, NoLease, EndTx, LeavePolicy
  <2> QED BY <1>4, <2>1, <2>2, <2>3 DEF ParkStep
<1>5. CASE BringUpStep
  <2>1. CASE Connect
    BY <2>1, Legs DEF Connect, Teardown, NoLease, Goto, EndTx, LeavePolicy
  <2>2. CASE RequestPermit
    BY <2>2, Legs DEF RequestPermit, AdmitOk, Overlapping, Goto
  <2>3. CASE FinishBringUp
    BY <2>3, Legs DEF FinishBringUp, EndTx, LeavePolicy
  <2>4. CASE \E ok \in BOOLEAN : BringUpPath(ok)
    BY <2>4, Legs DEF BringUpPath, Goto
  <2>5. CASE \E f \in BOOLEAN : GiveUp(f)
    BY <2>5, Legs DEF GiveUp, Teardown, NoLease, EndTx, LeavePolicy
  <2> QED BY <1>5, <2>1, <2>2, <2>3, <2>4, <2>5 DEF BringUpStep
<1>6. CASE HelperAdmit \/ CellularRefresh \/ BearerUp
  <2>1. CASE HelperAdmit
    BY <2>1, Legs DEF HelperAdmit, AdmitOk, Overlapping
  <2>2. CASE CellularRefresh
    BY <2>2, Legs DEF CellularRefresh, Live
  <2>3. CASE BearerUp
    BY <2>3, Legs DEF BearerUp
  <2> QED BY <1>6, <2>1, <2>2, <2>3
<1>7. CASE Requests
  <2>1. CASE \E a \in Access : BeginBringUp(a)
    BY <2>1, Legs DEF BeginBringUp, Start
  <2>2. CASE \E a \in Access, d \in BOOLEAN : BeginStop(a, d)
    BY <2>2, Legs DEF BeginStop, Start
  <2>3. CASE \E o \in Ops : BeginWlanReset(o)
    BY <2>3, Legs DEF BeginWlanReset, Start
  <2>4. CASE BeginObserve
    BY <2>4, Legs DEF BeginObserve, Start, ObservationAllowed
  <2>5. CASE CancelBringUp
    BY <2>5, Legs DEF CancelBringUp, EndTx, LeavePolicy
  <2>6. CASE NextCandidate
    BY <2>6, Legs DEF NextCandidate, Teardown, NoLease, Goto
  <2> QED BY <1>7, <2>1, <2>2, <2>3, <2>4, <2>5, <2>6 DEF Requests
<1>8. CASE Environment
  <2>1. CASE CallStart
    BY <2>1, Legs DEF CallStart
  <2>2. CASE \E e \in SUBSET Access, p \in Preferences : SetProfile(e, p)
    BY <2>2, Legs DEF SetProfile
  <2>3. CASE \E r \in SUBSET Access : SetReady(r)
    BY <2>3, Legs DEF SetReady
  <2>4. CASE SetIdentity
    BY <2>4, Legs DEF SetIdentity
  <2>5. CASE ExternalTakeLeg
    BY <2>5, Legs DEF ExternalTakeLeg
  <2>6. CASE HotplugReset
    BY <2>6, Legs DEF HotplugReset, Teardown, NoLease
  <2>7. CASE HelperIke
    BY <2>7, Legs DEF HelperIke
  <2> QED BY <1>8, <2>1, <2>2, <2>3, <2>4, <2>5, <2>6, <2>7 DEF Environment
<1>9. CASE CallEnd \/ ExternalDropLeg \/ \E ok \in BOOLEAN : HelperIkeDone(ok)
  <2>1. CASE CallEnd
    BY <2>1, Legs DEF CallEnd
  <2>2. CASE ExternalDropLeg
    BY <2>2, Legs DEF ExternalDropLeg, Teardown, NoLease
  <2>3. CASE \E ok \in BOOLEAN : HelperIkeDone(ok)
    BY <2>3, Legs DEF HelperIkeDone
  <2> QED BY <1>9, <2>1, <2>2, <2>3
<1>10. ASSUME NEW a \in Access, ExchangeStep(a) PROVE PermitInv'
  <2>1. CASE \E f \in Offers : Prepare(a, f)
    BY <2>1, Ended, Legs DEF Prepare, Overlapping
  <2>2. CASE \E n \in BOOLEAN : Receive(a, n)
    BY <2>2, Ended, Legs DEF Receive, Failed, Renewed
  <2>3. CASE Registrar(a)
    BY <2>3, Legs DEF Registrar, Answers
  <2>4. CASE Lose(a)
    BY <2>4, Ended, Legs DEF Lose
  <2> QED BY <1>10, <2>1, <2>2, <2>3, <2>4 DEF ExchangeStep
<1>11. ASSUME NEW a \in Access, FlowStep(a) \/ BackoffElapses(a) \/ CooldownElapses(a)
      PROVE PermitInv'
  <2>1. CASE Pong(a)
    BY <2>1, Legs DEF Pong, Live
  <2>2. CASE HealthLapses(a)
    BY <2>2, Legs DEF HealthLapses, Proven, Live
  <2>3. CASE FlowFail(a)
    BY <2>3, Legs DEF FlowFail, Failed
  <2>4. CASE Expire(a)
    BY <2>4, Legs DEF Expire, Live
  <2>5. CASE \E p \in BOOLEAN : SessionLoss(a, p)
    BY <2>5, Legs DEF SessionLoss, NoLease
  <2>6. CASE BackoffElapses(a)
    BY <2>6, Legs DEF BackoffElapses
  <2>7. CASE CooldownElapses(a)
    BY <2>7, Legs DEF CooldownElapses
  <2> QED BY <1>11, <2>1, <2>2, <2>3, <2>4, <2>5, <2>6, <2>7 DEF FlowStep
<1>12. CASE UNCHANGED vars
  BY <1>12 DEF vars
<1> HIDE DEF PermitInv
<1> QED BY <1>1, <1>2, <1>3, <1>4, <1>5, <1>6, <1>7, <1>8, <1>9, <1>10, <1>11,
   <1>12 DEF Next

\* A spoofed identity keeps cellular out of every decision that sees it.
LEMMA DecisionSpoofed ==
  ASSUME NEW t PROVE "cellular" \notin Decision(t, TRUE)
<1>1. DecisionInputs(t, TRUE).spoofed = TRUE
  BY DEF DecisionInputs
<1> QED BY <1>1 DEF Decide, Decision

\* What is released before a decision is published leaves nothing of cellular, and
\* nothing returns to it without a decision of its own.
LEMMA SpoofStep == TypeOK /\ PathInv /\ PermitInv /\ SpoofInv /\ [Next]_vars => SpoofInv'
<1> SUFFICES ASSUME TypeOK, PathInv, PermitInv, SpoofInv, [Next]_vars PROVE SpoofInv'
  OBVIOUS
<1> USE DEF TypeOK, PathInv, PermitInv, SpoofInv, SpoofedStaysOffCellular,
   PolicyPcs, profileVars, coordVars, exchVars, txVars, histVars
<1>1. CASE BeginReconcile \/ EndObserve
  <2>1. CASE BeginReconcile
    BY <2>1, Legs DEF BeginReconcile, Start, Owned
  <2>2. CASE EndObserve
    BY <2>2, Legs DEF EndObserve, EndTx, LeavePolicy, Owned
  <2> QED BY <1>1, <2>1, <2>2
<1>2. CASE PolicyStep
  <2>1. CASE PolicyDecide
    <3>1. PICK seen \in BOOLEAN :
            /\ desired' = Decision(target, seen)
            /\ release' = LegsToRelease(Decision(target, seen), up)
            /\ saw' = seen /\ barred' = (barred /\ seen)
      BY <2>1 DEF PolicyDecide
    <3>2. saw' => "cellular" \notin desired' /\ ("cellular" \in up => "cellular" \in release')
      BY <3>1, DecisionSpoofed DEF LegsToRelease
    <3> QED BY <2>1, <3>1, <3>2 DEF PolicyDecide, Owned
  <2>2. CASE PolicyGate
    BY <2>2, Legs DEF PolicyGate, Goto, PolicyReturns, EndTx, LeavePolicy, Owned
  <2>3. CASE PolicyRecheck
    BY <2>3, Legs DEF PolicyRecheck, Goto, Owned
  <2>4. CASE PolicyTakeLeg
    BY <2>4, Legs DEF PolicyTakeLeg, Owned
  <2>5. CASE PolicyCheckCall
    BY <2>5, Legs DEF PolicyCheckCall, Goto, Owned
  <2>6. CASE PolicyDropLeg
    BY <2>6, Legs DEF PolicyDropLeg, Teardown, NoLease, NextLeg, Owned
  <2> QED BY <1>2, <2>1, <2>2, <2>3, <2>4, <2>5, <2>6 DEF PolicyStep
<1>3. CASE WriteStep
  <2>1. CASE PolicyClose
    BY <2>1, Legs DEF PolicyClose, Publish, WriteFree, Goto, Owned
  <2>2. CASE PolicyRestore
    BY <2>2, Legs DEF PolicyRestore, Publish, WriteFree, PolicyReturns, EndTx,
       LeavePolicy, Owned
  <2>3. CASE PolicyOpen
    <3>1. saw => "cellular" \notin desired \cup up /\ permit # "cellular" /\ ~Owned("cellular")
      BY <2>3, Legs DEF PolicyOpen
    <3>2. admission' = desired /\ barred' = saw /\ permit' = permit /\ lease' = lease /\ up' = up
      BY <2>3 DEF PolicyOpen, Publish
    <3>3. previous' = {} /\ saw' = FALSE /\ pc' # "open"
      BY <2>3 DEF PolicyOpen, PolicyReturns, EndTx, LeavePolicy
    <3> QED BY <3>1, <3>2, <3>3 DEF Owned
  <2>4. CASE Park
    BY <2>4, Legs DEF Park, Publish, WriteFree, Goto, Owned
  <2> QED BY <1>3, <2>1, <2>2, <2>3, <2>4 DEF WriteStep
<1>4. CASE ParkStep
  <2>1. CASE WlanResetGate
    BY <2>1, Legs DEF WlanResetGate, Goto, EndTx, LeavePolicy, Owned
  <2>2. CASE ParkTakeLeg
    BY <2>2, Legs DEF ParkTakeLeg, Owned
  <2>3. CASE ParkDropLeg
    BY <2>3, Legs DEF ParkDropLeg, Teardown, NoLease, EndTx, LeavePolicy, Owned
  <2> QED BY <1>4, <2>1, <2>2, <2>3 DEF ParkStep
<1>5. CASE BringUpStep
  <2>1. CASE Connect
    BY <2>1, Legs DEF Connect, Teardown, NoLease, Goto, EndTx, LeavePolicy, Owned
  <2>2. CASE RequestPermit
    BY <2>2, Legs DEF RequestPermit, AdmitOk, Overlapping, Goto, Owned
  <2>3. CASE FinishBringUp
    BY <2>3, Legs DEF FinishBringUp, EndTx, LeavePolicy, Owned
  <2>4. CASE \E ok \in BOOLEAN : BringUpPath(ok)
    BY <2>4, Legs DEF BringUpPath, Goto, Owned
  <2>5. CASE \E f \in BOOLEAN : GiveUp(f)
    BY <2>5, Legs DEF GiveUp, Teardown, NoLease, EndTx, LeavePolicy, Owned
  <2> QED BY <1>5, <2>1, <2>2, <2>3, <2>4, <2>5 DEF BringUpStep
<1>6. CASE HelperAdmit \/ CellularRefresh \/ BearerUp
  <2>1. CASE HelperAdmit
    BY <2>1, Legs DEF HelperAdmit, AdmitOk, Overlapping, Owned
  <2>2. CASE CellularRefresh
    BY <2>2, Legs DEF CellularRefresh, Live, Owned
  <2>3. CASE BearerUp
    BY <2>3, Legs DEF BearerUp, Owned
  <2> QED BY <1>6, <2>1, <2>2, <2>3
<1>7. CASE Requests
  <2>1. CASE \E a \in Access : BeginBringUp(a)
    BY <2>1, Legs DEF BeginBringUp, Start, Owned
  <2>2. CASE \E a \in Access, d \in BOOLEAN : BeginStop(a, d)
    BY <2>2, Legs DEF BeginStop, Start, Owned
  <2>3. CASE \E o \in Ops : BeginWlanReset(o)
    BY <2>3, Legs DEF BeginWlanReset, Start, Owned
  <2>4. CASE BeginObserve
    BY <2>4, Legs DEF BeginObserve, Start, ObservationAllowed, Owned
  <2>5. CASE CancelBringUp
    BY <2>5, Legs DEF CancelBringUp, EndTx, LeavePolicy, Owned
  <2>6. CASE NextCandidate
    BY <2>6, Legs DEF NextCandidate, Teardown, NoLease, Goto, Owned
  <2> QED BY <1>7, <2>1, <2>2, <2>3, <2>4, <2>5, <2>6 DEF Requests
<1>8. CASE Environment
  <2>1. CASE CallStart
    BY <2>1, Legs DEF CallStart, Owned
  <2>2. CASE \E e \in SUBSET Access, p \in Preferences : SetProfile(e, p)
    BY <2>2, Legs DEF SetProfile, Owned
  <2>3. CASE \E r \in SUBSET Access : SetReady(r)
    BY <2>3, Legs DEF SetReady, Owned
  <2>4. CASE SetIdentity
    BY <2>4, Legs DEF SetIdentity, Owned
  <2>5. CASE ExternalTakeLeg
    BY <2>5, Legs DEF ExternalTakeLeg, Owned
  <2>6. CASE HotplugReset
    BY <2>6, Legs DEF HotplugReset, Teardown, NoLease, Owned
  <2>7. CASE HelperIke
    BY <2>7, Legs DEF HelperIke, Owned
  <2> QED BY <1>8, <2>1, <2>2, <2>3, <2>4, <2>5, <2>6, <2>7 DEF Environment
<1>9. CASE CallEnd \/ ExternalDropLeg \/ \E ok \in BOOLEAN : HelperIkeDone(ok)
  <2>1. CASE CallEnd
    BY <2>1, Legs DEF CallEnd, Owned
  <2>2. CASE ExternalDropLeg
    BY <2>2, Legs DEF ExternalDropLeg, Teardown, NoLease, Owned
  <2>3. CASE \E ok \in BOOLEAN : HelperIkeDone(ok)
    BY <2>3, Legs DEF HelperIkeDone, Owned
  <2> QED BY <1>9, <2>1, <2>2, <2>3
<1>10. ASSUME NEW a \in Access, ExchangeStep(a) PROVE SpoofInv'
  <2>1. CASE \E f \in Offers : Prepare(a, f)
    <3>1. /\ UNCHANGED <<lease, up, barred, admission>>
          /\ op' = op /\ desired' = desired /\ release' = release /\ previous' = previous /\ saw' = saw
          /\ permit' \in {permit, "none"} /\ pc' \in {pc, "after"} /\ (pc' # pc => pc = "exchange")
      BY <2>1, Ended DEF Prepare
    <3> QED BY <3>1 DEF Owned
  <2>2. CASE \E n \in BOOLEAN : Receive(a, n)
    <3>1. "cellular" \notin up => ~Owned("cellular")'
      BY <2>2, Legs DEF Receive, Failed, Renewed, Owned, Asked
    <3> QED BY <2>2, <3>1, Ended DEF Receive
  <2>3. CASE Registrar(a)
    BY <2>3, Legs DEF Registrar, Answers, Owned
  <2>4. CASE Lose(a)
    BY <2>4, Ended, Legs DEF Lose, Owned
  <2> QED BY <1>10, <2>1, <2>2, <2>3, <2>4 DEF ExchangeStep
<1>11. ASSUME NEW a \in Access, FlowStep(a) \/ BackoffElapses(a) \/ CooldownElapses(a)
      PROVE SpoofInv'
  <2>1. CASE Pong(a)
    BY <2>1, Legs DEF Pong, Live, Owned
  <2>2. CASE HealthLapses(a)
    BY <2>2, Legs DEF HealthLapses, Proven, Live, Owned
  <2>3. CASE FlowFail(a)
    BY <2>3, Legs DEF FlowFail, Failed, Owned
  <2>4. CASE Expire(a)
    BY <2>4, Legs DEF Expire, Live, Owned
  <2>5. CASE \E p \in BOOLEAN : SessionLoss(a, p)
    BY <2>5, Legs DEF SessionLoss, NoLease, Owned
  <2>6. CASE BackoffElapses(a)
    BY <2>6, Legs DEF BackoffElapses, Owned
  <2>7. CASE CooldownElapses(a)
    BY <2>7, Legs DEF CooldownElapses, Owned
  <2> QED BY <1>11, <2>1, <2>2, <2>3, <2>4, <2>5, <2>6, <2>7 DEF FlowStep
<1>12. CASE UNCHANGED vars
  BY <1>12 DEF vars, Owned
<1> HIDE DEF SpoofInv
<1> QED BY <1>1, <1>2, <1>3, <1>4, <1>5, <1>6, <1>7, <1>8, <1>9, <1>10, <1>11,
   <1>12 DEF Next

\* The state of a freshly started process.
LEMMA InitInv == Init => IInv
<1> SUFFICES ASSUME Init PROVE IInv
  OBVIOUS
<1>1. TypeOK
  <2>1. preference \in Preference /\ spoofed \in BOOLEAN /\ changes \in 0..MaxChanges
    BY Bounds, Options DEF Init
  <2>2. lease \in [Access -> Lease]
    BY DEF Init, Lease, NoLease
  <2>3. /\ phase \in [Access -> Phases] /\ leg \in [Access -> {"free", "tx", "ext"}]
        /\ op \in Ops /\ pc \in Pcs
    BY DEF Init, Ops, Pcs, Phases
  <2> QED BY <2>1, <2>2, <2>3 DEF Init, TypeOK, LegPcs
<1>2. \A a \in Access : ~Owned(a)
  BY DEF Init, Owned, NoLease
<1> QED BY <1>1, <1>2, Legs DEF Init, IInv, GateInv, CallInv, ExchangeInv, ObserveInv,
                               ObservationExclusive, PathInv, Asked, PermitInv,
                               SpoofInv, SpoofedStaysOffCellular

\* The inductive invariant the safety theorems follow from.
THEOREM Inductive == Spec => []IInv
<1>1. IInv /\ [Next]_vars => IInv'
  BY TypeStep, GateStep, CallStep, ExchangeInvStep, ObserveStep, PathStep, PermitStep,
     SpoofStep DEF IInv
<1> QED BY InitInv, <1>1, PTL DEF Spec

\* Every reachable state of the coordinator, its flows and the transition that
\* runs on them is typed.
THEOREM TypeCorrect == Spec => []TypeOK
<1>1. IInv => TypeOK
  BY DEF IInv
<1> QED BY Inductive, <1>1, PTL

\* publish and park drain the REGISTER in flight before a leg is torn down: for
\* every number and kind of outside event no transition removes the path of an
\* exchange that holds a permit.
THEOREM Drained == Spec => []DrainBeforeTeardown
<1>1. IInv => DrainBeforeTeardown
  BY Legs DEF IInv, TypeOK, GateInv, DrainBeforeTeardown, Doomed, NextLeg
<1> QED BY Inductive, <1>1, PTL

\* apply_line_ims_access_policy_locked never cuts a call that was up when it got
\* the leg lock.
THEOREM CallsSurvive == Spec => []EarlyCallSurvives
<1>1. IInv => EarlyCallSurvives
  BY DEF IInv, CallInv, EarlyCallSurvives
<1> QED BY Inductive, <1>1, PTL

\* try_native_observation never overlaps host bring-up, a REGISTER, an owned flow
\* or an open admission, although HTTP helpers start at any moment.
THEOREM Observed == Spec => []ObservationExclusive
<1>1. IInv => ObservationExclusive
  BY DEF IInv, ObserveInv
<1> QED BY Inductive, <1>1, PTL

\* A published decision that saw a spoofed identity keeps cellular without admission,
\* permit, flow and bearer until a decision does not see one, although the override
\* changes and reads of it fail at any moment, and transitions are aborted or
\* cancelled half-way.
THEOREM Spoofed == Spec => []SpoofedStaysOffCellular
<1>1. IInv => SpoofedStaysOffCellular
  BY DEF IInv, SpoofInv
<1> QED BY Inductive, <1>1, PTL

\* No action revives a failed flow: a read answer leaves it as it is, a
\* teardown removes it, nothing else writes a state other than "failed" to it.
LEMMA FailedStep ==
  ASSUME TypeOK, [Next]_vars, NEW b \in Access, lease[b].st = "failed"
  PROVE  lease'[b].st \in {"failed", "none"}
<1> USE DEF profileVars, coordVars, exchVars, txVars, histVars
<1>1. CASE lease' = lease
  BY <1>1
<1>2. ASSUME NEW a, Teardown(a) PROVE lease'[b].st \in {"failed", "none"}
  BY <1>2 DEF Teardown, NoLease, TypeOK
<1>3. ASSUME NEW a \in Access, ExchangeStep(a) PROVE lease'[b].st \in {"failed", "none"}
  <2>1. CASE \E n \in BOOLEAN : Receive(a, n)
    <3>1. PICK n \in BOOLEAN : Receive(a, n)
      BY <2>1
    <3>2. lease[b] \in Lease
      BY DEF TypeOK
    <3>3. Failed(lease[b]).st = "failed"
      BY <3>2 DEF Failed, Lease
    <3>4. /\ Renewed(lease[b], FALSE, lease[b].ok) = lease[b]
          /\ Renewed(lease[b], TRUE, n \/ lease[b].ok) = lease[b]
      BY DEF Renewed
    <3>5. CASE a = b
      <4>1. \/ lease' = lease \/ lease' = [c \in Access |-> Failed(lease[c])]
            \/ lease' = [lease EXCEPT ![b] = Renewed(lease[b], FALSE, lease[b].ok)]
            \/ lease' = [lease EXCEPT ![b] = Renewed(lease[b], TRUE, n \/ lease[b].ok)]
        BY <3>1, <3>5 DEF Receive
      <4> QED BY <4>1, <3>3, <3>4 DEF TypeOK
    <3>6. CASE a # b
      BY <3>1, <3>3, <3>6 DEF Receive, TypeOK
    <3> QED BY <3>5, <3>6
  <2> QED BY <1>1, <1>3, <2>1 DEF ExchangeStep, Prepare, Registrar, Lose
<1>4. ASSUME NEW a \in Access, FlowStep(a) PROVE lease'[b].st \in {"failed", "none"}
  <2>1. CASE FlowFail(a)
    BY <2>1 DEF FlowFail, Failed, TypeOK, Lease
  <2>2. CASE \E p \in BOOLEAN : SessionLoss(a, p)
    BY <2>2 DEF SessionLoss, NoLease, TypeOK
  <2>3. CASE Pong(a) \/ HealthLapses(a) \/ Expire(a)
    <3>1. a # b
      BY <2>3 DEF Pong, HealthLapses, Expire, Proven, Live
    <3> QED BY <2>3, <3>1 DEF Pong, HealthLapses, Expire, TypeOK
  <2> QED BY <1>4, <2>1, <2>2, <2>3 DEF FlowStep
<1>5. CASE PolicyStep \/ WriteStep \/ ParkStep \/ BringUpStep
  BY <1>1, <1>2, <1>5
     DEF PolicyStep, PolicyDecide, PolicyGate, PolicyRecheck, PolicyTakeLeg,
         PolicyCheckCall, PolicyDropLeg, WriteStep, PolicyClose, PolicyRestore,
         PolicyOpen, Park, ParkStep, WlanResetGate, ParkTakeLeg, ParkDropLeg,
         BringUpStep, Connect, RequestPermit, FinishBringUp, BringUpPath, GiveUp
<1>6. CASE Requests \/ Environment \/ CallEnd \/ ExternalDropLeg
  BY <1>1, <1>2, <1>6
     DEF Requests, BeginBringUp, BeginStop, BeginWlanReset, BeginObserve, ObservationAllowed,
         CancelBringUp, NextCandidate, Environment, CallStart, SetProfile, SetReady,
         SetIdentity, ExternalTakeLeg, HotplugReset, HelperIke, CallEnd, ExternalDropLeg
<1>7. CASE \/ BeginReconcile \/ EndObserve \/ HelperAdmit \/ CellularRefresh \/ BearerUp
           \/ \E ok \in BOOLEAN : HelperIkeDone(ok)
           \/ \E a \in Access : BackoffElapses(a) \/ CooldownElapses(a)
  BY <1>1, <1>7 DEF BeginReconcile, EndObserve, HelperAdmit, CellularRefresh, BearerUp,
                    HelperIkeDone, BackoffElapses, CooldownElapses
<1>8. CASE UNCHANGED vars
  BY <1>1, <1>8 DEF vars
<1> QED BY <1>3, <1>4, <1>5, <1>6, <1>7, <1>8 DEF Next

\* A refresh never revives a failed flow (OutboundFlow::registered answers Unbound
\* once the flow failed); only a new registration replaces it.
THEOREM FailedForGood == Spec => FailedStaysFailed
<1>1. TypeOK /\ [Next]_vars =>
        [\A a \in Access : lease[a].st = "failed" => lease'[a].st \in {"failed", "none"}]_vars
  BY FailedStep
<1> QED BY TypeCorrect, <1>1, PTL DEF FailedStaysFailed, Spec

-----------------------------------------------------------------------------
(* The two flows of a line.                                                *)

\* The exchange may make a flow of a leg that has none that counts.
Opening(a) == Running(a) /\ lease[a].st \in {"none", "expired"}

\* The leg has a flow that counts or is about to make one.
Present(a) == Live(a) \/ Opening(a)

\* An exchange without a permit refreshes a flow, be it an expired one.
RefreshInv == \A a \in Access : Running(a) /\ permit # a => Owned(a)

\* A flow that was negotiated is refreshed with Require.
RequiredInv ==
  \A a \in Access : Asked(a) /\ Owned(a) /\ lease[a].neg => a \in required

\* The leg's flow is a negotiated one (an expired one, too, which the other leg's
\* first flow would find running), and so will be what its request makes.
Agrees(a) ==
  /\ Live(a) \/ (lease[a].st = "expired" /\ lease[Opposite(a)].st = "none") =>
       lease[a].neg
  /\ Asked(a) => a \in required

\* While both legs have a flow or make one, they agree, unless neither could see
\* the other (Overlaps).
PairInv ==
  overlap # Access /\ (\A a \in Access : Present(a)) => \A a \in Access : Agrees(a)

LegInv == RefreshInv /\ RequiredInv /\ PairInv

\* A registrar that honours Require: it never answers a required request
\* plainly, and a flow that failed was a negotiated one.
HonestInv ==
  /\ \A a \in Access : phase[a] # "partial" /\ (phase[a] = "plain" => a \notin required)
  /\ \A a \in Access : lease[a].st = "failed" => lease[a].neg

\* The flow of the leg counts, or the answer on its way makes it count.
Counts(a) == Live(a) \/ (phase[a] \in {"outbound", "plain"} /\ lease[a].st # "failed")

\* Such a flow is bound at the registrar.
BoundInv == \A a \in Access : Counts(a) /\ a \notin overlap => a \in bound

\* The other leg.
LEMMA Other ==
  ASSUME NEW a \in Access
  PROVE  /\ Opposite(a) \in Access \ {a} /\ Opposite(Opposite(a)) = a
         /\ \A b \in Access : b = a \/ b = Opposite(a)
BY DEF Access, Opposite

\* A step that leaves flows, exchanges and permits alone.
LEMMA LegQuiet ==
  ASSUME LegInv, lease' = lease, phase' = phase, required' = required,
         permit' = permit, overlap' = overlap
  PROVE  LegInv'
<1>1. \A a : Running(a)' = Running(a) /\ Asked(a)' = Asked(a) /\ Opening(a)' = Opening(a)
             /\ Live(a)' = Live(a) /\ Owned(a)' = Owned(a)
  BY DEF Running, Asked, Opening, Live, Owned
<1>2. \A a : Present(a)' = Present(a) /\ Agrees(a)' = Agrees(a)
  BY <1>1 DEF Present, Agrees
<1> QED BY <1>1, <1>2 DEF LegInv, RefreshInv, RequiredInv, PairInv

\* A step that only changes leg a: what has to be shown of it, and of both while
\* both are present.
LEMMA LegChange ==
  ASSUME LegInv, NEW a \in Access,
         \A b \in Access \ {a} :
           /\ lease'[b] = lease[b] /\ phase'[b] = phase[b]
           /\ b \in required' <=> b \in required
           /\ permit' = b <=> permit = b,
         Running(a)' /\ permit' # a => Owned(a)',
         Asked(a)' /\ Owned(a)' /\ lease'[a].neg => a \in required',
         overlap' # Access /\ Present(a)' /\ Present(Opposite(a)) =>
           /\ Live(a)' \/ (lease'[a].st = "expired" /\ lease[Opposite(a)].st = "none") =>
                lease'[a].neg
           /\ Asked(a)' => a \in required'
           /\ Live(Opposite(a)) \/ (lease[Opposite(a)].st = "expired" /\ lease'[a].st = "none") =>
                lease[Opposite(a)].neg
           /\ Asked(Opposite(a)) => Opposite(a) \in required
  PROVE  LegInv'
<1>1. PICK o : o = Opposite(a)
  OBVIOUS
<1>2. o \in Access \ {a} /\ Opposite(o) = a /\ \A b \in Access : b = a \/ b = o
  BY <1>1, Other
<1>3. /\ Running(o)' = Running(o) /\ Asked(o)' = Asked(o) /\ Opening(o)' = Opening(o)
      /\ Live(o)' = Live(o) /\ Owned(o)' = Owned(o) /\ lease'[o] = lease[o]
      /\ o \in required' <=> o \in required
      /\ permit' = o <=> permit = o
  BY <1>2 DEF Running, Asked, Opening, Live, Owned
<1>4. RefreshInv'
  BY <1>2, <1>3 DEF LegInv, RefreshInv
<1>5. RequiredInv'
  BY <1>2, <1>3 DEF LegInv, RequiredInv
<1>6. PairInv'
  <2> SUFFICES ASSUME overlap' # Access, \A b \in Access : Present(b)'
               PROVE  \A b \in Access : Agrees(b)'
    BY DEF PairInv
  <2>1. Present(a)' /\ Present(o)
    BY <1>2, <1>3 DEF Present
  <2>2. Agrees(a)'
    BY <1>1, <1>3, <2>1 DEF Agrees
  <2>3. Agrees(o)'
    BY <1>1, <1>2, <1>3, <2>1 DEF Agrees
  <2> QED BY <1>2, <2>2, <2>3
<1> QED BY <1>4, <1>5, <1>6 DEF LegInv

\* What the invariant says of one leg and the other.
LEMMA LegFacts ==
  ASSUME LegInv, NEW a \in Access
  PROVE  /\ Running(a) /\ permit # a => Owned(a)
         /\ Asked(a) /\ Owned(a) /\ lease[a].neg => a \in required
         /\ overlap # Access /\ Present(a) /\ Present(Opposite(a)) =>
              /\ Live(a) \/ (lease[a].st = "expired" /\ lease[Opposite(a)].st = "none") =>
                   lease[a].neg
              /\ Asked(a) => a \in required
              /\ Live(Opposite(a)) \/ (lease[Opposite(a)].st = "expired" /\ lease[a].st = "none") =>
                   lease[Opposite(a)].neg
              /\ Asked(Opposite(a)) => Opposite(a) \in required
<1>1. Present(a) /\ Present(Opposite(a)) => \A b \in Access : Present(b)
  BY Other
<1>2. overlap # Access /\ Present(a) /\ Present(Opposite(a)) =>
        Agrees(a) /\ Agrees(Opposite(a))
  BY <1>1, Other DEF LegInv, PairInv
<1>3. Opposite(Opposite(a)) = a
  BY Other
<1> QED BY <1>2, <1>3 DEF LegInv, RefreshInv, RequiredInv, Agrees

\* A leg that is torn down has neither a flow nor an exchange that could make one.
LEMMA LegTorn ==
  ASSUME TypeOK, LegInv, NEW a \in Access, Teardown(a), permit' = permit
  PROVE  LegInv'
<1> USE DEF Teardown
<1>1. /\ lease'[a] = NoLease /\ phase'[a] \in {"cut", "idle"}
      /\ \A b \in Access \ {a} : lease'[b] = lease[b] /\ phase'[b] = phase[b]
  BY DEF TypeOK
<1>2. ~Owned(a)' /\ ~Asked(a)' /\ ~Running(a)' /\ ~Present(a)'
  BY <1>1 DEF Owned, Asked, Running, Opening, Present, Live, NoLease
<1> QED BY <1>1, <1>2, LegChange

\* The end of an exchange that leaves the flow as it is.
LEMMA LegEnded ==
  ASSUME TypeOK, LegInv, NEW a \in Access, lease' = lease, overlap' \in {overlap, Access},
         phase' = [phase EXCEPT ![a] = "idle"],
         required' = required \ {a}, permit' = IF permit = a THEN "none" ELSE permit
  PROVE  LegInv'
<1>1. phase'[a] = "idle" /\ \A b \in Access \ {a} : phase'[b] = phase[b]
  BY DEF TypeOK
<1>2. ~Asked(a)' /\ ~Running(a)' /\ (Present(a)' => Present(a))
  BY <1>1 DEF Asked, Running, Opening, Present, Live
<1>3. Owned(a)' = Owned(a) /\ Live(a)' = Live(a) /\ lease'[a] = lease[a]
  BY DEF Owned, Live
<1>4. \A b \in Access \ {a} :
        /\ lease'[b] = lease[b] /\ phase'[b] = phase[b]
        /\ b \in required' <=> b \in required
        /\ permit' = b <=> permit = b
  BY <1>1, Legs
<1> QED BY <1>2, <1>3, <1>4, LegFacts, LegChange

\* admit: a second flow is opened only beside one that has proved itself, or beside
\* one it cannot see, which the history keeps.
LEMMA LegGranted ==
  ASSUME TypeOK, LegInv, NEW a \in Access, permit = "none", permit' = a, AdmitOk(a),
         phase' = [phase EXCEPT ![a] = "admitted"], Overlapping(a),
         lease' = lease, required' = required
  PROVE  LegInv'
<1>1. PICK o : o = Opposite(a)
  OBVIOUS
<1>2. phase'[a] = "admitted" /\ \A b \in Access \ {a} : phase'[b] = phase[b]
  BY DEF TypeOK
<1>3. ~Asked(a)' /\ Owned(a)' = Owned(a) /\ Live(a)' = Live(a) /\ lease'[a] = lease[a]
  BY <1>2 DEF Asked, Owned, Live
<1>4. \A b \in Access \ {a} : permit' # b /\ permit # b
  BY Legs
<1>5. ASSUME overlap' # Access, Present(a)', Present(o)
      PROVE  /\ Live(a) \/ (lease[a].st = "expired" /\ lease[o].st = "none") => lease[a].neg
             /\ Live(o) \/ (lease[o].st = "expired" /\ lease[a].st = "none") => lease[o].neg
             /\ Asked(o) => o \in required
  <2>1. overlap # Access /\ ~Overlaps(a)
    BY <1>5 DEF Overlapping
  <2>2. CASE Live(a)
    BY <1>1, <1>5, <2>1, <2>2, LegFacts DEF Present
  <2>3. CASE ~Live(a)
    <3>1. lease[a].st \in {"none", "expired"}
      BY <1>3, <1>5, <2>3 DEF Present, Opening
    <3>2. ~Opening(o)
      BY <1>1, <2>1, <3>1, Other, LegFacts, Legs DEF Overlaps, Opening, Owned
    <3>3. Live(o) /\ lease[o].neg /\ Owned(o)
      BY <1>1, <1>5, <2>3, <3>2 DEF Present, AdmitOk, AdditionalFlowReady, Proven, Live, Owned
    <3>4. Asked(o) => o \in required
      BY <1>1, <3>3, Other, LegFacts
    <3> QED BY <2>3, <3>3, <3>4 DEF Live
  <2> QED BY <2>2, <2>3
<1> QED BY <1>1, <1>2, <1>3, <1>4, <1>5, LegChange

\* A step of the exchange that does not touch the flow.
LEMMA LegMoves ==
  ASSUME TypeOK, LegInv, NEW a \in Access, NEW p \in Phases \ {"idle", "cut"},
         phase' = [phase EXCEPT ![a] = p], lease' = lease, permit' = permit,
         overlap' \in {overlap, Access},
         \A b \in Access \ {a} : b \in required' <=> b \in required,
         Running(a) \/ Live(a),
         Asked(a)' /\ Owned(a) /\ lease[a].neg => a \in required',
         overlap' # Access /\ Present(a) /\ Present(Opposite(a)) =>
           (Asked(a)' => a \in required')
  PROVE  LegInv'
<1>1. phase'[a] = p /\ \A b \in Access \ {a} : phase'[b] = phase[b]
  BY DEF TypeOK
<1>2. /\ Owned(a)' = Owned(a) /\ Live(a)' = Live(a) /\ lease'[a] = lease[a]
      /\ Present(a)' = Present(a) /\ Running(a)'
  BY <1>1 DEF Owned, Live, Opening, Present, Running
<1>3. permit' # a => Owned(a)
  BY LegFacts DEF Live, Owned
<1> QED BY <1>1, <1>2, <1>3, LegFacts, LegChange

\* prepare: Require is put in unless the leg is alone, as far as it can see.
LEMMA LegPrepares ==
  ASSUME TypeOK, LegInv, NEW a \in Access, NEW f \in Offers, Prepare(a, f)
  PROVE  LegInv'
<1>0. lease' = lease /\ overlap' \in {overlap, Access} /\ (overlap' # Access => ~Overlaps(a))
  BY DEF Prepare, Overlapping
<1>1. CASE EndExchange(a)
  BY <1>0, <1>1, LegEnded DEF EndExchange
<1>2. CASE /\ phase' = [phase EXCEPT ![a] = "sent"] /\ permit' = permit
           /\ required' = IF RequiresOutbound(a) THEN required \cup {a} ELSE required \ {a}
  <2>1. phase[a] = "admitted"
    BY DEF Prepare
  <2>2. Running(a) /\ \A b \in Access \ {a} : b \in required' <=> b \in required
    BY <1>2, <2>1 DEF Running
  <2>3. Owned(a) /\ lease[a].neg => a \in required'
    BY <1>2 DEF RequiresOutbound, BoundOutbound
  <2>4. ASSUME overlap' # Access, Present(a), Present(Opposite(a)) PROVE a \in required'
    <3>1. CASE Live(a)
      BY <1>0, <2>3, <2>4, <3>1, LegFacts DEF Live, Owned
    <3>2. CASE Live(Opposite(a))
      BY <1>2, <3>2 DEF RequiresOutbound
    <3>3. CASE Opening(a) /\ Opening(Opposite(a))
      <4>1. lease[Opposite(a)].st = "none"
        BY <1>0, <2>4, <3>3 DEF Overlaps, Opening
      <4>2. lease[a].st = "expired"
        BY <3>3, <4>1, LegFacts, Other DEF Opening, Owned
      <4> QED BY <1>0, <2>3, <2>4, <4>1, <4>2, LegFacts DEF Owned
    <3> QED BY <2>4, <3>1, <3>2, <3>3 DEF Present
  <2>5. "sent" \in Phases \ {"idle", "cut"}
    BY DEF Phases
  <2> QED BY <1>0, <1>2, <2>2, <2>3, <2>4, <2>5, LegMoves
<1> QED BY <1>1, <1>2 DEF Prepare

\* The registrar's answer does not change what the line knows.
LEMMA LegAnswered ==
  ASSUME TypeOK, LegInv, NEW a \in Access, Registrar(a)
  PROVE  LegInv'
<1>1. /\ lease' = lease /\ permit' = permit /\ required' = required /\ overlap' = overlap
      /\ phase[a] = "sent"
  BY DEF Registrar, histVars
<1>2. PICK p \in {"outbound", "refused", "plain", "partial"} : phase' = [phase EXCEPT ![a] = p]
  BY DEF Registrar, Answers
<1>3. p \in Phases \ {"idle", "cut"} /\ Asked(a) /\ Running(a)
  BY <1>1, <1>2 DEF Phases, Asked, Running
<1> QED BY <1>1, <1>2, <1>3, LegFacts, LegMoves

\* The protected refresh of the cellular session.
LEMMA LegRefreshes == ASSUME TypeOK, LegInv, CellularRefresh PROVE LegInv'
<1>1. /\ lease' = lease /\ permit' = permit /\ required' = required /\ overlap' = overlap
      /\ Live("cellular") /\ phase' = [phase EXCEPT !["cellular"] = "admitted"]
  BY DEF CellularRefresh, histVars
<1>2. "admitted" \in Phases \ {"idle", "cut"} /\ "cellular" \in Access
  BY Legs DEF Phases
<1>3. ~Asked("cellular")'
  BY <1>1, <1>2 DEF Asked, TypeOK
<1> QED BY <1>1, <1>2, <1>3, LegMoves

\* Keepalives, failure, expiry and the loss of a session.
LEMMA LegFlow ==
  ASSUME TypeOK, LegInv, NEW a \in Access, FlowStep(a)
  PROVE  LegInv'
<1>0. lease \in [Access -> Lease] /\ lease[a] \in Lease
  BY DEF TypeOK
<1>1. CASE Pong(a) \/ HealthLapses(a)
  <2>1. /\ phase' = phase /\ required' = required /\ permit' = permit /\ overlap' = overlap
        /\ \A b \in Access \ {a} : lease'[b] = lease[b]
        /\ lease'[a].st = lease[a].st /\ lease'[a].neg = lease[a].neg
    BY <1>0, <1>1 DEF Pong, HealthLapses, exchVars, histVars, Lease
  <2>2. /\ Owned(a)' = Owned(a) /\ Live(a)' = Live(a) /\ Present(a)' = Present(a)
        /\ Running(a)' = Running(a) /\ Asked(a)' = Asked(a)
    BY <2>1 DEF Owned, Live, Opening, Present, Running, Asked
  <2> QED BY <2>1, <2>2, LegFacts, LegChange
<1>2. CASE FlowFail(a)
  <2>1. /\ phase' = phase /\ required' = required /\ permit' = permit /\ overlap' = overlap
        /\ \A b \in Access \ {a} : lease'[b] = lease[b]
        /\ lease'[a].st = "failed" /\ lease'[a].neg = lease[a].neg /\ lease[a].st # "none"
    BY <1>0, <1>2 DEF FlowFail, Failed, exchVars, histVars, Lease
  <2>2. /\ Owned(a)' /\ Owned(a) /\ ~Present(a)'
        /\ Running(a)' = Running(a) /\ Asked(a)' = Asked(a)
    BY <2>1 DEF Owned, Live, Opening, Present, Running, Asked
  <2> QED BY <2>1, <2>2, LegFacts, LegChange
<1>3. CASE Expire(a)
  <2>1. /\ phase' = phase /\ required' = required /\ permit' = permit /\ overlap' = overlap
        /\ \A b \in Access \ {a} : lease'[b] = lease[b]
        /\ lease'[a].st = "expired" /\ lease'[a].neg = lease[a].neg /\ lease[a].st = "live"
    BY <1>0, <1>3 DEF Expire, Live, exchVars, histVars, Lease
  <2>2. /\ Owned(a)' /\ Owned(a) /\ ~Live(a)' /\ Live(a) /\ Present(a)
        /\ Running(a)' = Running(a) /\ Asked(a)' = Asked(a)
    BY <2>1 DEF Owned, Live, Opening, Present, Running, Asked
  <2> QED BY <2>1, <2>2, LegFacts, LegChange
<1>4. CASE \E p \in BOOLEAN : SessionLoss(a, p)
  <2>1. /\ phase' = phase /\ required' = required /\ permit' = permit /\ phase[a] = "idle"
        /\ \A b \in Access \ {a} : lease'[b] = lease[b]
        /\ lease'[a].st = "none"
    BY <1>0, <1>4 DEF SessionLoss, NoLease, exchVars
  <2>2. ~Present(a)' /\ ~Running(a)' /\ ~Asked(a)'
    BY <2>1 DEF Live, Opening, Present, Running, Asked
  <2> QED BY <2>1, <2>2, LegChange
<1> QED BY <1>1, <1>2, <1>3, <1>4 DEF FlowStep

\* A 200 OK that counts: of a request with Require, or of a leg that is alone.
LEMMA LegRenewed ==
  ASSUME TypeOK, LegInv, NEW a \in Access, NEW l, l.st = "live", lease[a].st # "failed",
         Asked(a), l.neg \/ a \notin required, lease' = [lease EXCEPT ![a] = l],
         overlap' = overlap, phase' = [phase EXCEPT ![a] = "idle"],
         required' = required \ {a}, permit' = IF permit = a THEN "none" ELSE permit
  PROVE  LegInv'
<1>1. /\ phase'[a] = "idle" /\ lease'[a] = l
      /\ \A b \in Access \ {a} : phase'[b] = phase[b] /\ lease'[b] = lease[b]
  BY DEF TypeOK
<1>2. ~Asked(a)' /\ ~Running(a)'
  BY <1>1 DEF Asked, Running
<1>3. Present(a)
  <2>1. lease[a].st \in {"none", "live", "expired", "failed"}
    BY DEF TypeOK, Lease
  <2> QED BY <2>1 DEF Asked, Present, Opening, Running, Live
<1>4. \A b \in Access \ {a} :
        /\ b \in required' <=> b \in required
        /\ permit' = b <=> permit = b
  BY Legs
<1>5. overlap' # Access /\ Present(Opposite(a)) =>
        /\ l.neg
        /\ Live(Opposite(a)) => lease[Opposite(a)].neg
        /\ Asked(Opposite(a)) => Opposite(a) \in required
  BY <1>3, LegFacts
<1> QED BY <1>1, <1>2, <1>4, <1>5, LegChange DEF Live

\* A registrar that claims outbound and does not keep it: every flow of the line
\* is given up, none of them counts any more.
LEMMA LegGivenUp ==
  ASSUME TypeOK, LegInv, NEW a \in Access,
         lease' = [b \in Access |-> Failed(lease[b])],
         phase' = [phase EXCEPT ![a] = "idle"],
         required' = required \ {a}, permit' = IF permit = a THEN "none" ELSE permit
  PROVE  LegInv'
<1>1. \A b \in Access :
        /\ lease'[b].st = (IF lease[b].st = "none" THEN "none" ELSE "failed")
        /\ lease'[b].neg = lease[b].neg
  BY DEF TypeOK, Lease, Failed
<1>2. phase'[a] = "idle" /\ \A b \in Access \ {a} : phase'[b] = phase[b]
  BY DEF TypeOK
<1>3. \A b \in Access :
        /\ Owned(b)' <=> Owned(b)
        /\ Running(b)' => Running(b) /\ b # a
        /\ Asked(b)' => Asked(b) /\ b # a
  BY <1>1, <1>2 DEF Owned, Running, Asked
<1>4. RefreshInv'
  <2>1. \A b \in Access \ {a} : permit' = b <=> permit = b
    BY Legs
  <2> QED BY <1>3, <2>1 DEF LegInv, RefreshInv
<1>5. RequiredInv'
  BY <1>1, <1>3 DEF LegInv, RequiredInv
<1>6. ~Present(a)'
  BY <1>1, <1>2 DEF Present, Opening, Running, Live
<1> QED BY <1>4, <1>5, <1>6 DEF LegInv, PairInv

\* received_sip and registered.
LEMMA LegReceives ==
  ASSUME TypeOK, LegInv, NEW a \in Access, NEW n \in BOOLEAN, Receive(a, n)
  PROVE  LegInv'
<1>1. /\ phase' = [phase EXCEPT ![a] = "idle"] /\ required' = required \ {a}
      /\ permit' = (IF permit = a THEN "none" ELSE permit) /\ overlap' = overlap
  BY DEF Receive, EndExchange, histVars
<1>2. CASE lease' = lease
  BY <1>1, <1>2, LegEnded
<1>3. CASE lease' = [b \in Access |-> Failed(lease[b])]
  BY <1>1, <1>3, LegGivenUp
<1>4. ASSUME NEW m \in BOOLEAN, NEW ok, Asked(a), m \/ a \notin required,
             lease' = [lease EXCEPT ![a] = Renewed(lease[a], m, ok)]
      PROVE  LegInv'
  <2>1. CASE lease[a].st = "failed"
    <3>1. lease' = [lease EXCEPT ![a] = lease[a]]
      BY <1>4, <2>1 DEF Renewed
    <3>2. lease' = lease
      BY <3>1 DEF TypeOK
    <3> QED BY <1>2, <3>2
  <2>2. CASE lease[a].st # "failed"
    <3>1. PICK l : l = [st |-> "live", neg |-> m, ok |-> ok]
      OBVIOUS
    <3>2. l.st = "live" /\ l.neg = m /\ lease' = [lease EXCEPT ![a] = l]
      BY <1>4, <2>2, <3>1 DEF Renewed
    <3> QED BY <1>1, <1>4, <2>2, <3>2, LegRenewed
  <2> QED BY <2>1, <2>2
<1>5. \/ lease' = lease \/ lease' = [b \in Access |-> Failed(lease[b])]
      \/ /\ phase[a] = "plain" /\ a \notin required
         /\ lease' = [lease EXCEPT ![a] = Renewed(lease[a], FALSE, lease[a].ok)]
      \/ /\ phase[a] = "outbound"
         /\ lease' = [lease EXCEPT ![a] = Renewed(lease[a], TRUE, n \/ lease[a].ok)]
  BY DEF Receive
<1>6. phase[a] \in {"plain", "outbound"} => Asked(a)
  BY DEF Asked
<1> QED BY <1>2, <1>3, <1>4, <1>5, <1>6

\* A cancelled request leaves at most the refresh of an owned flow behind.
LEMMA LegCancels ==
  ASSUME TypeOK, GateInv, LegInv, CancelBringUp
  PROVE  LegInv'
<1>1. lease' = lease /\ overlap' = overlap
  BY DEF CancelBringUp, histVars
<1>2. \/ /\ phase' = phase /\ required' = required
         /\ permit' = permit \/ (permit' = "none" /\ permit = "wlan" /\ Owned("wlan"))
      \/ /\ phase' = [phase EXCEPT !["wlan"] = "idle"] /\ required' = required \ {"wlan"}
         /\ permit' = "none" /\ permit = "wlan"
  BY DEF CancelBringUp, GateInv, exchVars
<1>3. "wlan" \in Access
  BY Legs
<1>4. CASE phase' = [phase EXCEPT !["wlan"] = "idle"] /\ required' = required \ {"wlan"}
           /\ permit' = "none" /\ permit = "wlan"
  BY <1>1, <1>3, <1>4, LegEnded
<1>5. CASE phase' = phase /\ required' = required /\ permit' = permit
  BY <1>1, <1>5, LegQuiet
<1>6. CASE phase' = phase /\ required' = required /\ permit' = "none" /\ permit = "wlan"
           /\ Owned("wlan")
  <2>1. /\ Running("wlan")' = Running("wlan") /\ Asked("wlan")' = Asked("wlan")
        /\ Owned("wlan")' = Owned("wlan") /\ Live("wlan")' = Live("wlan")
        /\ Present("wlan")' = Present("wlan")
    BY <1>1, <1>6 DEF Running, Asked, Opening, Present, Owned, Live
  <2>2. \A b \in Access \ {"wlan"} : permit' # b /\ permit # b
    BY <1>6, Legs
  <2> QED BY <1>1, <1>3, <1>6, <2>1, <2>2, LegFacts, LegChange
<1> QED BY <1>2, <1>4, <1>5, <1>6

\* Every step keeps what the flows and the exchanges on them agree upon.
LEMMA LegStep ==
  ASSUME TypeOK, GateInv, LegInv, [Next]_vars
  PROVE  LegInv'
<1> USE DEF profileVars, coordVars, exchVars, txVars, histVars
<1>1. CASE /\ lease' = lease /\ phase' = phase /\ required' = required
           /\ permit' = permit /\ overlap' = overlap
  BY <1>1, LegQuiet
<1>2. ASSUME NEW a \in Access, Teardown(a), permit' = permit PROVE LegInv'
  BY <1>2, LegTorn
<1>3. CASE PolicyStep \/ WriteStep
  <2>1. NextLeg \in Access
    BY Legs DEF NextLeg
  <2> QED BY <1>1, <1>2, <1>3, <2>1
     DEF PolicyStep, PolicyDecide, PolicyGate, PolicyRecheck, PolicyTakeLeg,
         PolicyCheckCall, PolicyDropLeg, WriteStep, PolicyClose, PolicyRestore,
         PolicyOpen, Park
<1>4. CASE ParkStep
  BY <1>1, <1>2, <1>4
     DEF ParkStep, WlanResetGate, ParkTakeLeg, ParkDropLeg, TypeOK, LegPcs
<1>5. CASE BringUpStep
  <2>1. CASE RequestPermit
    <3>1. permit = "none" /\ target \in Access
      BY <2>1 DEF RequestPermit, TypeOK, LegPcs
    <3>2. CASE /\ permit' = target /\ AdmitOk(target) /\ Overlapping(target)
               /\ phase' = [phase EXCEPT ![target] = "admitted"]
      BY <2>1, <3>1, <3>2, LegGranted DEF RequestPermit
    <3>3. CASE permit' = permit /\ phase' = phase /\ overlap' = overlap
      BY <1>1, <2>1, <3>3 DEF RequestPermit
    <3> QED BY <2>1, <3>2, <3>3 DEF RequestPermit
  <2>2. CASE Connect
    BY <1>1, <1>2, <2>2, Legs DEF Connect
  <2>3. CASE FinishBringUp \/ \E b \in BOOLEAN : BringUpPath(b)
    BY <1>1, <2>3 DEF FinishBringUp, BringUpPath
  <2>4. CASE \E b \in BOOLEAN : GiveUp(b)
    BY <1>2, <2>4, Legs DEF GiveUp
  <2> QED BY <1>5, <2>1, <2>2, <2>3, <2>4 DEF BringUpStep
<1>6. CASE HelperAdmit
  BY <1>6, LegGranted, Legs DEF HelperAdmit
<1>7. CASE CellularRefresh
  BY <1>7, LegRefreshes
<1>8. CASE Requests
  <2>1. CASE CancelBringUp
    BY <2>1, LegCancels
  <2>2. CASE NextCandidate
    BY <1>2, <2>2 DEF NextCandidate, TypeOK, LegPcs
  <2> QED BY <1>1, <1>8, <2>1, <2>2
     DEF Requests, BeginBringUp, BeginStop, BeginWlanReset, BeginObserve
<1>9. CASE Environment \/ ExternalDropLeg
  BY <1>1, <1>2, <1>9, Legs
     DEF Environment, CallStart, SetProfile, SetReady, SetIdentity, ExternalTakeLeg,
         HotplugReset, HelperIke, ExternalDropLeg
<1>10. CASE \/ BeginReconcile \/ EndObserve \/ BearerUp \/ CallEnd
            \/ \E ok \in BOOLEAN : HelperIkeDone(ok)
            \/ \E a \in Access : BackoffElapses(a) \/ CooldownElapses(a)
  BY <1>1, <1>10 DEF BeginReconcile, EndObserve, BearerUp, CallEnd, HelperIkeDone,
                     BackoffElapses, CooldownElapses
<1>11. ASSUME NEW a \in Access, ExchangeStep(a) PROVE LegInv'
  <2>1. CASE Lose(a)
    BY <2>1, LegEnded DEF Lose, EndExchange
  <2> QED BY <1>11, <2>1, LegPrepares, LegReceives, LegAnswered DEF ExchangeStep
<1>12. ASSUME NEW a \in Access, FlowStep(a) PROVE LegInv'
  BY <1>12, LegFlow
<1>13. CASE UNCHANGED vars
  BY <1>1, <1>13 DEF vars
<1> QED BY <1>3, <1>4, <1>5, <1>6, <1>7, <1>8, <1>9, <1>10, <1>11, <1>12, <1>13 DEF Next

\* What the flows and the exchanges of the two legs agree upon always holds.
THEOREM FlowInductive == Spec => [](IInv /\ LegInv)
<1>1. Init => LegInv
  <2> SUFFICES ASSUME Init PROVE LegInv
    OBVIOUS
  <2>1. \A a \in Access : ~Owned(a) /\ ~Present(a) /\ ~Running(a) /\ ~Asked(a)
    BY DEF Init, Owned, Live, Running, Asked, Opening, Present, NoLease
  <2> QED BY <2>1, Legs DEF LegInv, RefreshInv, RequiredInv, PairInv
<1>2. IInv /\ LegInv /\ [Next]_vars => LegInv'
  BY LegStep DEF IInv
<1> QED BY <1>1, <1>2, Inductive, PTL DEF Spec

\* Two flows count at the same time only if both negotiated outbound: whatever the
\* registrar answers, however a refresh of one leg interleaves with the
\* registration of the other, although leases run out under their own refresh and a
\* cancelled request leaves its exchange running without a permit; except where
\* neither leg's lease showed the other one its flow (Overlaps).
THEOREM SecondFlow == Spec => []SecondFlowNegotiated
<1>1. IInv /\ LegInv => SecondFlowNegotiated
  BY DEF LegInv, PairInv, Present, Agrees, SecondFlowNegotiated
<1> QED BY <1>1, FlowInductive, PTL

-----------------------------------------------------------------------------
(* A registrar that honours Require: outbound.                             *)

\* One exchange and one flow change; what has to be shown of them.
LEMMA HonestChange ==
  ASSUME HonestInv, NEW a \in Access,
         \A b \in Access \ {a} :
           /\ lease'[b].st = "failed" => lease[b].st = "failed" /\ lease'[b].neg = lease[b].neg
           /\ phase'[b] = phase[b]
           /\ b \in required' => b \in required,
         phase'[a] # "partial", phase'[a] = "plain" => a \notin required',
         lease'[a].st = "failed" => lease'[a].neg
  PROVE  HonestInv'
BY DEF HonestInv

\* A step that touches neither flows nor exchanges.
LEMMA HonestQuiet ==
  ASSUME HonestInv, lease' = lease, phase' = phase, required' = required
  PROVE  HonestInv'
BY DEF HonestInv

\* The line never gives a flow up because of a registrar that honours Require.
LEMMA HonestReceives ==
  ASSUME TypeOK, HonestInv, NEW a \in Access, NEW n \in BOOLEAN, Receive(a, n)
  PROVE  /\ \A b \in Access \ {a} : lease'[b] = lease[b]
         /\ lease[a].st = "failed" => lease'[a] = lease[a]
         /\ lease[a].st # "failed" => lease'[a].st # "failed"
         /\ Live(a)' => lease'[a] = lease[a] \/ phase[a] \in {"plain", "outbound"}
<1>1. \/ lease' = lease
      \/ /\ phase[a] \in {"plain", "outbound"}
         /\ \E l : /\ lease' = [lease EXCEPT ![a] = l]
                   /\ lease[a].st = "failed" => l = lease[a]
                   /\ lease[a].st # "failed" => l.st = "live"
  <2>1. CASE phase[a] = "plain" /\ lease' # lease
    <3>1. PICK l : l = Renewed(lease[a], FALSE, lease[a].ok)
      OBVIOUS
    <3>2. lease' = [lease EXCEPT ![a] = l]
      BY <2>1, <3>1 DEF HonestInv, Receive
    <3>3. /\ lease[a].st = "failed" => l = lease[a]
          /\ lease[a].st # "failed" => l.st = "live"
      BY <3>1 DEF Renewed
    <3> QED BY <2>1, <3>2, <3>3
  <2>2. CASE phase[a] = "outbound"
    <3>1. PICK l : l = Renewed(lease[a], TRUE, n \/ lease[a].ok)
      OBVIOUS
    <3>2. lease' = [lease EXCEPT ![a] = l]
      BY <2>2, <3>1 DEF Receive
    <3>3. /\ lease[a].st = "failed" => l = lease[a]
          /\ lease[a].st # "failed" => l.st = "live"
      BY <3>1 DEF Renewed
    <3> QED BY <2>2, <3>2, <3>3
  <2> QED BY <2>1, <2>2 DEF HonestInv, Receive
<1>2. CASE lease' = lease
  BY <1>2
<1>3. ASSUME NEW l, phase[a] \in {"plain", "outbound"}, lease' = [lease EXCEPT ![a] = l],
             lease[a].st = "failed" => l = lease[a],
             lease[a].st # "failed" => l.st = "live"
      PROVE  /\ \A b \in Access \ {a} : lease'[b] = lease[b]
             /\ lease[a].st = "failed" => lease'[a] = lease[a]
             /\ lease[a].st # "failed" => lease'[a].st # "failed"
  BY <1>3 DEF TypeOK
<1> QED BY <1>1, <1>2, <1>3

\* Every step keeps the registrar's part.
LEMMA HonestStep ==
  ASSUME Compliant, TypeOK, HonestInv, [Next]_vars
  PROVE  HonestInv'
<1> USE DEF profileVars, coordVars, exchVars, txVars, histVars
<1>1. CASE lease' = lease /\ phase' = phase /\ required' = required
  BY <1>1, HonestQuiet
<1>2. ASSUME NEW a \in Access, Teardown(a) PROVE HonestInv'
  <2>1. /\ lease'[a].st = "none" /\ phase'[a] \in {"cut", "idle"}
        /\ \A b \in Access \ {a} : lease'[b] = lease[b] /\ phase'[b] = phase[b]
        /\ required' \subseteq required
    BY <1>2 DEF Teardown, TypeOK, NoLease
  <2> QED BY <2>1, HonestChange
<1>3. ASSUME NEW a \in Access, NEW p \in {"idle", "admitted", "sent"}, lease' = lease,
             phase' = [phase EXCEPT ![a] = p],
             \A b \in Access \ {a} : b \in required' => b \in required
      PROVE  HonestInv'
  <2>1. phase'[a] = p /\ \A b \in Access \ {a} : phase'[b] = phase[b]
    BY <1>3 DEF TypeOK
  <2>2. lease[a].st = "failed" => lease[a].neg
    BY DEF HonestInv
  <2> QED BY <1>3, <2>1, <2>2, HonestChange
<1>4. CASE PolicyStep \/ WriteStep \/ ParkStep
  <2>1. NextLeg \in Access /\ (pc = "parkdrop" => target \in Access)
    BY Legs DEF NextLeg, TypeOK, LegPcs
  <2> QED BY <1>1, <1>2, <1>4, <2>1
     DEF PolicyStep, PolicyDecide, PolicyGate, PolicyRecheck, PolicyTakeLeg,
         PolicyCheckCall, PolicyDropLeg, WriteStep, PolicyClose, PolicyRestore,
         PolicyOpen, Park, ParkStep, WlanResetGate, ParkTakeLeg, ParkDropLeg
<1>5. CASE BringUpStep
  <2>1. CASE RequestPermit
    BY <1>1, <1>3, <2>1 DEF RequestPermit, TypeOK, LegPcs
  <2> QED BY <1>1, <1>2, <1>5, <2>1, Legs
     DEF BringUpStep, Connect, FinishBringUp, BringUpPath, GiveUp
<1>6. CASE HelperAdmit \/ CellularRefresh
  BY <1>3, <1>6, Legs DEF HelperAdmit, CellularRefresh
<1>7. CASE Requests
  <2>1. CASE CancelBringUp
    BY <1>1, <1>3, <2>1, Legs DEF CancelBringUp
  <2>2. CASE NextCandidate
    BY <1>2, <2>2 DEF NextCandidate, TypeOK, LegPcs
  <2> QED BY <1>1, <1>7, <2>1, <2>2
     DEF Requests, BeginBringUp, BeginStop, BeginWlanReset, BeginObserve
<1>8. CASE Environment \/ ExternalDropLeg
  BY <1>1, <1>2, <1>8, Legs
     DEF Environment, CallStart, SetProfile, SetReady, SetIdentity, ExternalTakeLeg,
         HotplugReset, HelperIke, ExternalDropLeg
<1>9. CASE \/ BeginReconcile \/ EndObserve \/ BearerUp \/ CallEnd
           \/ \E ok \in BOOLEAN : HelperIkeDone(ok)
           \/ \E a \in Access : BackoffElapses(a) \/ CooldownElapses(a)
  BY <1>1, <1>9 DEF BeginReconcile, EndObserve, BearerUp, CallEnd, HelperIkeDone,
                    BackoffElapses, CooldownElapses
<1>10. ASSUME NEW a \in Access, ExchangeStep(a) PROVE HonestInv'
  <2>1. CASE Lose(a)
    BY <1>3, <2>1 DEF Lose, EndExchange
  <2>2. CASE \E f \in Offers : Prepare(a, f)
    BY <1>3, <2>2 DEF Prepare, EndExchange
  <2>3. CASE Registrar(a)
    <3>1. PICK p \in Answers(a) : phase' = [phase EXCEPT ![a] = p]
      BY <2>3 DEF Registrar
    <3>2. lease' = lease /\ required' = required
      BY <2>3 DEF Registrar
    <3>3. p # "partial" /\ (p = "plain" => a \notin required)
      BY <3>1 DEF Answers
    <3>4. phase'[a] = p /\ \A b \in Access \ {a} : phase'[b] = phase[b]
      BY <3>1 DEF TypeOK
    <3>5. lease[a].st = "failed" => lease[a].neg
      BY DEF HonestInv
    <3> QED BY <3>2, <3>3, <3>4, <3>5, HonestChange
  <2>4. ASSUME NEW n \in BOOLEAN, Receive(a, n) PROVE HonestInv'
    <3>1. /\ \A b \in Access \ {a} : lease'[b] = lease[b]
          /\ lease'[a].st = "failed" => lease'[a] = lease[a]
      BY <2>4, HonestReceives
    <3>2. /\ phase'[a] = "idle" /\ required' = required \ {a}
          /\ \A b \in Access \ {a} : phase'[b] = phase[b]
      BY <2>4 DEF Receive, EndExchange, TypeOK
    <3>3. lease[a].st = "failed" => lease[a].neg
      BY DEF HonestInv
    <3> QED BY <3>1, <3>2, <3>3, HonestChange
  <2> QED BY <1>10, <2>1, <2>2, <2>3, <2>4 DEF ExchangeStep
<1>11. ASSUME NEW a \in Access, FlowStep(a) PROVE HonestInv'
  <2>0. lease \in [Access -> Lease] /\ lease[a] \in Lease
    BY DEF TypeOK
  <2>1. /\ phase' = phase /\ required' = required
        /\ \A b \in Access \ {a} : lease'[b] = lease[b]
    BY <1>11, <2>0 DEF FlowStep, Pong, HealthLapses, FlowFail, Expire, SessionLoss
  <2>2. lease'[a].st = "failed" => lease'[a].neg
    <3>1. CASE FlowFail(a)
      BY <2>0, <3>1 DEF FlowFail, Failed, Lease
    <3>2. CASE Pong(a) \/ HealthLapses(a) \/ Expire(a)
      BY <2>0, <3>2 DEF Pong, HealthLapses, Expire, Proven, Live, Lease
    <3>3. CASE \E p \in BOOLEAN : SessionLoss(a, p)
      BY <2>0, <3>3 DEF SessionLoss, NoLease
    <3> QED BY <1>11, <3>1, <3>2, <3>3 DEF FlowStep
  <2>3. phase[a] # "partial" /\ (phase[a] = "plain" => a \notin required)
    BY DEF HonestInv
  <2> QED BY <2>1, <2>2, <2>3, HonestChange
<1>12. CASE UNCHANGED vars
  BY <1>1, <1>12 DEF vars
<1> QED BY <1>4, <1>5, <1>6, <1>7, <1>8, <1>9, <1>10, <1>11, <1>12 DEF Next

\* A step that makes no flow count and takes away no contact of one that does.
LEMMA BoundQuiet ==
  ASSUME BoundInv,
         \A a \in Access : Counts(a)' /\ a \notin overlap' =>
           Counts(a) /\ a \notin overlap /\ (a \in bound => a \in bound')
  PROVE  BoundInv'
BY DEF BoundInv

\* A plain 200 displaces no contact of a flow that counts.
LEMMA BoundAnswered ==
  ASSUME Compliant, TypeOK, HonestInv, LegInv, BoundInv, NEW a \in Access, Registrar(a)
  PROVE  BoundInv'
<1> DEFINE o == Opposite(a)
<1>1. PICK p \in Answers(a) :
        /\ phase' = [phase EXCEPT ![a] = p]
        /\ bound' = CASE p = "outbound" -> bound \cup {a}
                      [] p \in {"plain", "partial"} -> {a}
                      [] OTHER -> bound
  BY DEF Registrar
<1>2. lease' = lease /\ overlap' = overlap /\ phase[a] = "sent" /\ Asked(a)
  BY DEF Registrar, Asked, histVars
<1>3. p \in {"outbound", "refused", "plain"} /\ (p = "plain" => a \notin required)
  BY DEF Answers
<1>4. phase'[a] = p /\ \A b \in Access \ {a} : phase'[b] = phase[b]
  BY <1>1 DEF TypeOK
<1>5. CASE p = "plain"
  <2>1. o \in Access \ {a} /\ \A b \in Access : b \in {a, o}
    BY Legs DEF Opposite
  <2>2. Present(a)
    <3>1. lease[a].st # "failed"
      BY <1>2, <1>3, <1>5, LegFacts DEF HonestInv, Owned
    <3>2. lease[a].st \in {"none", "live", "expired", "failed"}
      BY DEF TypeOK, Lease
    <3> QED BY <1>2, <3>1, <3>2 DEF Present, Opening, Running, Live
  <2>3. ~(Counts(o) /\ o \notin overlap)
    <3> SUFFICES ASSUME Counts(o), o \notin overlap PROVE FALSE
      OBVIOUS
    <3>1. lease[o].st \in {"none", "live", "expired", "failed"}
      BY <2>1 DEF TypeOK, Lease
    <3>2. Present(o) /\ overlap # Access
      BY <2>1, <3>1 DEF Counts, Present, Opening, Running, Live
    <3> QED BY <1>2, <1>3, <1>5, <2>2, <3>2, LegFacts
  <2>4. ~(Counts(o)' /\ o \notin overlap') /\ bound' = {a}
    BY <1>1, <1>2, <1>4, <1>5, <2>1, <2>3 DEF Counts, Live
  <2> QED BY <2>1, <2>4 DEF BoundInv
<1>6. CASE p # "plain"
  <2>1. bound \subseteq bound' /\ (p = "outbound" => a \in bound')
    BY <1>1, <1>3, <1>6
  <2>2. \A b \in Access : Counts(b)' => Counts(b) \/ (b = a /\ p = "outbound")
    BY <1>2, <1>3, <1>4, <1>6 DEF Counts, Live
  <2> QED BY <1>2, <2>1, <2>2 DEF BoundInv, Counts
<1> QED BY <1>5, <1>6

\* Every step keeps the contacts of the flows that count.
LEMMA BoundStep ==
  ASSUME Compliant, TypeOK, HonestInv, LegInv, BoundInv, [Next]_vars
  PROVE  BoundInv'
<1> USE DEF profileVars, coordVars, exchVars, txVars, histVars
<1>1. CASE lease' = lease /\ phase' = phase /\ bound' = bound /\ overlap' = overlap
  BY <1>1 DEF BoundInv, Counts, Live
<1>2. ASSUME NEW a \in Access, Teardown(a) PROVE BoundInv'
  <2>1. /\ lease'[a].st = "none" /\ phase'[a] \in {"cut", "idle"} /\ bound' = bound \ {a}
        /\ overlap' = overlap \ {a}
        /\ \A b \in Access \ {a} : lease'[b] = lease[b] /\ phase'[b] = phase[b]
    BY <1>2 DEF Teardown, TypeOK, NoLease
  <2>2. \A b \in Access : Counts(b)' => b # a /\ Counts(b)
    BY <2>1 DEF Counts, Live
  <2> QED BY <2>1, <2>2, BoundQuiet
<1>3. ASSUME NEW a \in Access, NEW p \in {"idle", "admitted", "sent"}, lease' = lease,
             phase' = [phase EXCEPT ![a] = p], bound' = bound,
             overlap' \in {overlap, Access}
      PROVE  BoundInv'
  <2>1. phase'[a] = p /\ \A b \in Access \ {a} : phase'[b] = phase[b]
    BY <1>3 DEF TypeOK
  <2>2. \A b \in Access : Counts(b)' => Counts(b)
    BY <1>3, <2>1 DEF Counts, Live
  <2> QED BY <1>3, <2>2, BoundQuiet
<1>4. CASE PolicyStep \/ WriteStep \/ ParkStep
  <2>1. NextLeg \in Access /\ (pc = "parkdrop" => target \in Access)
    BY Legs DEF NextLeg, TypeOK, LegPcs
  <2> QED BY <1>1, <1>2, <1>4, <2>1
     DEF PolicyStep, PolicyDecide, PolicyGate, PolicyRecheck, PolicyTakeLeg,
         PolicyCheckCall, PolicyDropLeg, WriteStep, PolicyClose, PolicyRestore,
         PolicyOpen, Park, ParkStep, WlanResetGate, ParkTakeLeg, ParkDropLeg
<1>5. CASE BringUpStep
  <2>1. CASE RequestPermit
    BY <1>1, <1>3, <2>1 DEF RequestPermit, Overlapping, TypeOK, LegPcs
  <2> QED BY <1>1, <1>2, <1>5, <2>1, Legs
     DEF BringUpStep, Connect, FinishBringUp, BringUpPath, GiveUp
<1>6. CASE HelperAdmit \/ CellularRefresh
  BY <1>3, <1>6, Legs DEF HelperAdmit, Overlapping, CellularRefresh
<1>7. CASE Requests
  <2>1. CASE CancelBringUp
    BY <1>1, <1>3, <2>1, Legs DEF CancelBringUp
  <2>2. CASE NextCandidate
    BY <1>2, <2>2 DEF NextCandidate, TypeOK, LegPcs
  <2> QED BY <1>1, <1>7, <2>1, <2>2
     DEF Requests, BeginBringUp, BeginStop, BeginWlanReset, BeginObserve
<1>8. CASE Environment \/ ExternalDropLeg
  BY <1>1, <1>2, <1>8, Legs
     DEF Environment, CallStart, SetProfile, SetReady, SetIdentity, ExternalTakeLeg,
         HotplugReset, HelperIke, ExternalDropLeg
<1>9. CASE \/ BeginReconcile \/ EndObserve \/ BearerUp \/ CallEnd
           \/ \E ok \in BOOLEAN : HelperIkeDone(ok)
           \/ \E a \in Access : BackoffElapses(a) \/ CooldownElapses(a)
  BY <1>1, <1>9 DEF BeginReconcile, EndObserve, BearerUp, CallEnd, HelperIkeDone,
                    BackoffElapses, CooldownElapses
<1>10. ASSUME NEW a \in Access, ExchangeStep(a) PROVE BoundInv'
  <2>1. CASE Lose(a)
    BY <1>3, <2>1 DEF Lose, EndExchange
  <2>2. CASE \E f \in Offers : Prepare(a, f)
    BY <1>3, <2>2 DEF Prepare, Overlapping, EndExchange
  <2>3. CASE Registrar(a)
    BY <2>3, BoundAnswered
  <2>4. ASSUME NEW n \in BOOLEAN, Receive(a, n) PROVE BoundInv'
    <3>1. /\ \A b \in Access \ {a} : lease'[b] = lease[b]
          /\ lease[a].st = "failed" => lease'[a] = lease[a]
          /\ Live(a)' => lease'[a] = lease[a] \/ phase[a] \in {"plain", "outbound"}
      BY <2>4, HonestReceives
    <3>2. /\ phase'[a] = "idle" /\ bound' = bound /\ overlap' = overlap
          /\ \A b \in Access \ {a} : phase'[b] = phase[b]
      BY <2>4 DEF Receive, EndExchange, TypeOK
    <3>3. \A b \in Access : Counts(b)' => Counts(b)
      BY <3>1, <3>2 DEF Counts, Live
    <3> QED BY <3>2, <3>3, BoundQuiet
  <2> QED BY <1>10, <2>1, <2>2, <2>3, <2>4 DEF ExchangeStep
<1>11. ASSUME NEW a \in Access, FlowStep(a) PROVE BoundInv'
  <2>0. lease \in [Access -> Lease] /\ lease[a] \in Lease
    BY DEF TypeOK
  <2>1. phase' = phase /\ \A b \in Access \ {a} : lease'[b] = lease[b]
    BY <1>11, <2>0 DEF FlowStep, Pong, HealthLapses, FlowFail, Expire, SessionLoss
  <2>2. CASE Pong(a) \/ HealthLapses(a) \/ FlowFail(a)
    <3>1. bound' = bound /\ overlap' = overlap /\ lease'[a].st \in {lease[a].st, "failed"}
      BY <2>0, <2>2 DEF Pong, HealthLapses, FlowFail, Failed, Lease
    <3>2. \A b \in Access : Counts(b)' => Counts(b)
      BY <2>1, <3>1 DEF Counts, Live
    <3> QED BY <3>1, <3>2, BoundQuiet
  <2>3. CASE Expire(a)
    <3>1. /\ overlap' = overlap /\ Live(a) /\ bound \ {a} \subseteq bound'
          /\ lease'[a].st = "expired"
          /\ phase[a] \in {"outbound", "plain"} => bound' = bound
      BY <2>0, <2>3 DEF Expire, Lease
    <3>2. \A b \in Access : Counts(b)' =>
            Counts(b) /\ (b = a => phase[a] \in {"outbound", "plain"})
      BY <2>1, <3>1 DEF Counts, Live
    <3> QED BY <3>1, <3>2, BoundQuiet
  <2>4. CASE \E p \in BOOLEAN : SessionLoss(a, p)
    <3>1. /\ phase[a] = "idle" /\ lease'[a].st = "none"
          /\ bound' = bound \ {a} /\ overlap' = overlap \ {a}
      BY <2>0, <2>4 DEF SessionLoss, NoLease
    <3>2. \A b \in Access : Counts(b)' => b # a /\ Counts(b)
      BY <2>1, <3>1 DEF Counts, Live
    <3> QED BY <3>1, <3>2, BoundQuiet
  <2> QED BY <1>11, <2>2, <2>3, <2>4 DEF FlowStep
<1>12. CASE UNCHANGED vars
  BY <1>1, <1>12 DEF vars
<1> QED BY <1>4, <1>5, <1>6, <1>7, <1>8, <1>9, <1>10, <1>11, <1>12 DEF Next

\* With a registrar that honours Require: outbound, a flow the coordinator counts is
\* a contact the registrar holds: no REGISTER of one leg silently displaces the
\* contact of the other, for every number and kind of outside event, unless it was
\* sent while that leg's lease had run out under its own refresh (Overlaps).
THEOREM NoGhost == ASSUME Compliant PROVE Spec => []GhostOnlyByOverlap
<1> DEFINE I == IInv /\ LegInv
           J == HonestInv /\ BoundInv
<1>1. Init => J
  BY DEF Init, NoLease, HonestInv, BoundInv, Counts, Live
<1>2. I /\ J /\ [Next]_vars => J'
  BY HonestStep, BoundStep DEF IInv
<1>3. J => GhostOnlyByOverlap
  BY DEF BoundInv, Counts, GhostOnlyByOverlap
<1>4. Spec => []I
  BY FlowInductive
<1> HIDE DEF I, J
<1> QED BY <1>1, <1>2, <1>3, <1>4, PTL DEF Spec
=============================================================================
