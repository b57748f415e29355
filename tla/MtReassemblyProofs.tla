-------------------------- MODULE MtReassemblyProofs --------------------------
(***************************************************************************)
(* Proofs about the multipart map of the VoWiFi listener, for any messages *)
(* with any senders, references, lengths and days, and any number of       *)
(* retransmissions and restarts.                                           *)
(***************************************************************************)
EXTENDS MtReassembly, TLAPS

Whole(m) == [s \in Parts(m) |-> m]

\* A group of parts is a function from sequence numbers to messages.
GroupType ==
  /\ DOMAIN groups = Keys
  /\ \A k \in Keys : groups[k] = [s \in DOMAIN groups[k] |-> groups[k][s]]
  /\ DOMAIN since = Keys
  /\ today \in Nat
  /\ \A k \in Keys : since[k] \in Nat /\ since[k] <= today
  /\ DOMAIN got = Messages
  /\ \A m \in Messages : got[m] \subseteq Parts(m)

\* What a group holds was sent under its key on the day the group began.
GroupInv ==
  \A k \in Keys : \A s \in DOMAIN groups[k] :
    LET m == groups[k][s] IN
    m \in Messages /\ Key(m) = k /\ Day[m] = since[k] /\ s \in Parts(m)

\* A message has no part before its day.  One that was not passed on is
\* incomplete, and on its day the group of its key began that day and holds every
\* part that came in.
HeldInv ==
  \A m \in Messages :
    /\ got[m] # {} => Day[m] <= today
    /\ Whole(m) \notin assembled /\ got[m] # {} =>
         /\ got[m] # Parts(m)
         /\ Day[m] = today => /\ since[Key(m)] = today
                              /\ got[m] \subseteq DOMAIN groups[Key(m)]

IInv == GroupType /\ GroupInv /\ WholeMessages /\ HeldInv

-----------------------------------------------------------------------------
(* Keys and groups.                                                        *)

\* A sender, a reference, a number of parts and a day name one message.
LEMMA OneMessagePerDay ==
  ASSUME Leg = "vowifi", NEW m \in Messages, NEW n \in Messages,
         Key(m) = Key(n), Day[m] = Day[n]
  PROVE  m = n
BY ReassemblyAssumption DEF Key

\* What is left of a group when a part of m comes in on m's day is parts of m.
LEMMA RetainedParts ==
  ASSUME Leg = "vowifi", GroupType, GroupInv, NEW m \in Messages, Day[m] = today
  PROVE  LET g == Retained(Key(m)) IN
         /\ g = [s \in DOMAIN g |-> m]
         /\ DOMAIN g \subseteq Parts(m)
         /\ g # NoParts => since[Key(m)] = today /\ g = groups[Key(m)]
<1> DEFINE k == Key(m)
           g == Retained(k)
<1>1. k \in Keys
  BY DEF Keys
<1>2. CASE since[k] < today
  BY <1>2 DEF Retained, NoParts
<1>3. CASE ~(since[k] < today)
  <2>1. g = groups[k] /\ since[k] = today
    BY <1>1, <1>3 DEF Retained, GroupType
  <2>2. \A s \in DOMAIN g : g[s] = m /\ s \in Parts(m)
    BY <1>1, <2>1, OneMessagePerDay DEF GroupInv
  <2>3. g = [s \in DOMAIN g |-> g[s]]
    BY <1>1, <2>1 DEF GroupType
  <2> QED
    BY <2>1, <2>2, <2>3
<1> QED
  BY <1>2, <1>3

\* With the new part the group is still parts of m.
LEMMA GrownParts ==
  ASSUME Leg = "vowifi", GroupType, GroupInv, NEW m \in Messages, Day[m] = today,
         NEW s \in Parts(m)
  PROVE  LET g == WithPart(Retained(Key(m)), s, m) IN
         /\ DOMAIN g = DOMAIN Retained(Key(m)) \cup {s}
         /\ DOMAIN g \subseteq Parts(m)
         /\ g = [i \in DOMAIN g |-> m]
         /\ IsComplete(g, m) => g = Whole(m)
<1> DEFINE r == Retained(Key(m))
           g == WithPart(r, s, m)
<1>1. r = [i \in DOMAIN r |-> m] /\ DOMAIN r \subseteq Parts(m)
  BY RetainedParts
<1>2. DOMAIN g = DOMAIN r \cup {s}
  BY DEF WithPart
<1>3. \A i \in DOMAIN g : g[i] = m
  BY <1>1 DEF WithPart
<1>4. g = [i \in DOMAIN g |-> g[i]]
  BY DEF WithPart
<1>5. g = [i \in DOMAIN g |-> m]
  BY <1>3, <1>4
<1>6. IsComplete(g, m) => DOMAIN g = Parts(m)
  BY <1>1, <1>2 DEF IsComplete
<1> QED
  BY <1>1, <1>2, <1>5, <1>6 DEF Whole

-----------------------------------------------------------------------------
(* The steps.                                                              *)

\* Nothing has come in at first.
LEMMA ReassemblyInit == Init => IInv
BY ReassemblyAssumption
   DEF Init, IInv, GroupType, GroupInv, WholeMessages, HeldInv, NoParts

\* A part that comes in leaves the groups in order.
LEMMA IngestStep ==
  ASSUME Leg = "vowifi", IInv, NEW m \in Messages, NEW s \in Parts(m),
         Ingest(m, s)
  PROVE  IInv'
<1> DEFINE k == Key(m)
           g == WithPart(Retained(k), s, m)
<1> USE DEF IInv
<1>0. k \in Keys /\ Day[m] = today /\ today' = today
  BY DEF Ingest, Keys
<1>1. /\ DOMAIN g = DOMAIN Retained(k) \cup {s}
      /\ DOMAIN g \subseteq Parts(m)
      /\ g = [i \in DOMAIN g |-> m]
      /\ IsComplete(g, m) => g = Whole(m)
  BY <1>0, GrownParts
<1>2. /\ Retained(k) # NoParts => since[k] = today /\ Retained(k) = groups[k]
      /\ Retained(k) = [i \in DOMAIN Retained(k) |-> m]
  BY <1>0, RetainedParts
<1>3. since' = [since EXCEPT ![k] = today]
  BY <1>0, <1>2 DEF Ingest, GroupType
<1>4. got' = [got EXCEPT ![m] = @ \cup {s}]
  BY DEF Ingest
<1>5. \A j \in Keys : j # k =>
        \/ groups'[j] = groups[j]
        \/ groups'[j] = NoParts /\ since[j] < today
  BY <1>0 DEF Ingest, Retained
<1>6. DOMAIN groups' = Keys
  BY <1>0 DEF Ingest
<1>7. \/ IsComplete(g, m) /\ groups'[k] = NoParts /\ assembled' = assembled \cup {g}
      \/ ~IsComplete(g, m) /\ groups'[k] = g /\ assembled' = assembled
  BY <1>0 DEF Ingest
<1> HIDE DEF g, k
<1>8. GroupType'
  BY <1>0, <1>1, <1>3, <1>4, <1>5, <1>6, <1>7 DEF GroupType, NoParts
<1>9. GroupInv'
  BY <1>0, <1>1, <1>3, <1>5, <1>6, <1>7 DEF GroupInv, NoParts, k, GroupType
<1>10. WholeMessages'
  BY <1>1, <1>7 DEF WholeMessages, Whole
<1>11. HeldInv'
  <2> SUFFICES ASSUME NEW n \in Messages, got'[n] # {}
               PROVE  /\ Day[n] <= today
                      /\ Whole(n) \notin assembled' =>
                           /\ got'[n] # Parts(n)
                           /\ Day[n] = today =>
                                /\ since'[Key(n)] = today
                                /\ got'[n] \subseteq DOMAIN groups'[Key(n)]
    BY <1>0 DEF HeldInv
  <2>1. Key(n) \in Keys /\ Day[n] \in Nat
    BY ReassemblyAssumption DEF Keys
  <2>2. CASE n = m
    <3>1. Day[n] <= today
      BY <1>0, <2>1, <2>2
    <3>2. CASE IsComplete(g, m)
      BY <1>1, <1>7, <2>2, <3>1, <3>2
    <3>3. CASE ~IsComplete(g, m) /\ Whole(m) \notin assembled
      <4>1. got[m] \subseteq DOMAIN Retained(k)
        BY <1>0, <1>2, <3>3, ReassemblyAssumption
           DEF HeldInv, Retained, k, GroupType
      <4>2. got'[m] = got[m] \cup {s}
        BY <1>4 DEF GroupType
      <4>3. got'[m] \subseteq DOMAIN g
        BY <1>1, <4>1, <4>2
      <4>4. ~(Parts(m) \subseteq DOMAIN g)
        BY <3>3 DEF IsComplete
      <4> QED
        BY <1>0, <1>3, <1>7, <2>2, <3>1, <3>3, <4>3, <4>4 DEF k, GroupType
    <3> QED
      BY <1>7, <2>2, <3>1, <3>2, <3>3
  <2>3. CASE n # m
    <3>1. got'[n] = got[n] /\ (Whole(n) \in assembled => Whole(n) \in assembled')
      BY <1>4, <1>7, <2>3 DEF GroupType
    <3>2. Day[n] <= today
      BY <3>1 DEF HeldInv
    <3>3. Day[n] = today => Key(n) # k
      BY <1>0, <2>3, OneMessagePerDay DEF k
    <3>4. since[Key(n)] = today /\ Key(n) # k =>
            /\ groups'[Key(n)] = groups[Key(n)]
            /\ since'[Key(n)] = since[Key(n)]
      BY <1>0, <1>3, <1>5, <2>1 DEF GroupType
    <3> QED
      BY <3>1, <3>2, <3>3, <3>4 DEF HeldInv
  <2> QED
    BY <2>2, <2>3
<1> QED
  BY <1>8, <1>9, <1>10, <1>11

\* Every step of the map leaves it in order.
LEMMA ReassemblyStep ==
  ASSUME Leg = "vowifi" PROVE IInv /\ [Next]_vars => IInv'
<1> SUFFICES ASSUME IInv, [Next]_vars PROVE IInv'
  OBVIOUS
<1>1. ASSUME NEW m \in Messages, NEW s \in Parts(m), Ingest(m, s) PROVE IInv'
  BY <1>1, IngestStep
<1>2. CASE NextDay
  <2> USE <1>2 DEF NextDay, IInv
  <2>1. GroupType'
    BY DEF GroupType
  <2>2. GroupInv'
    BY DEF GroupInv
  <2>3. WholeMessages'
    BY DEF WholeMessages
  <2>4. HeldInv'
    BY ReassemblyAssumption DEF HeldInv, GroupType
  <2> QED
    BY <2>1, <2>2, <2>3, <2>4
<1>3. CASE Restart
  BY <1>3 DEF Restart, IInv, GroupType, GroupInv, WholeMessages, HeldInv, NoParts
<1>4. CASE UNCHANGED vars
  BY <1>4 DEF vars, IInv, GroupType, GroupInv, WholeMessages, HeldInv
<1> QED
  BY <1>1, <1>2, <1>3, <1>4 DEF Next

\* What the VoWiFi map passes on is one message, whole and in order, whichever
\* senders share a reference, however often parts are retransmitted and however
\* often the process restarts: the key vowifi_mt_delivery_group_key builds and
\* the day's retention keep two messages out of one group.
THEOREM VowifiWhole == ASSUME Leg = "vowifi" PROVE Spec => []WholeMessages
<1>1. IInv => WholeMessages
  BY DEF IInv
<1> QED
  BY <1>1, ReassemblyInit, ReassemblyStep, PTL DEF Spec

\* A message all of whose parts came in since the VoWiFi listener started was
\* passed on, whatever other parts came in between.
THEOREM VowifiNothingHeldBack ==
  ASSUME Leg = "vowifi" PROVE Spec => []NothingHeldBack
<1>1. IInv => NothingHeldBack
  <2>1. \A m \in Messages : Parts(m) # {}
    BY ReassemblyAssumption DEF Parts
  <2> QED
    BY <2>1 DEF IInv, HeldInv, NothingHeldBack, Whole
<1> QED
  BY <1>1, ReassemblyInit, ReassemblyStep, PTL DEF Spec
=============================================================================
