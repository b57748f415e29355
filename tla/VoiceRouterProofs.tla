-------------------------- MODULE VoiceRouterProofs --------------------------
(***************************************************************************)
(* What the voice router keeps for any number of calls, any number of lost *)
(* links and policy changes and any set of offers: a call is on one leg, a *)
(* call a leg holds can be reached, nothing costly is sent without leave,  *)
(* and a cancellation is final.                                            *)
(*                                                                         *)
(* The inductive invariant follows a call from its opener (a start in the  *)
(* queue, a request, an incoming call) to its end.  An opener finds        *)
(* everything about its call untouched (Untouched); a leg that the plan    *)
(* has still to try is clean (Planned); a leg that said the call is over   *)
(* is done with it (Given).                                                *)
(***************************************************************************)
EXTENDS VoiceRouter, SequenceTheorems, FiniteSetTheorems, TLAPS

-----------------------------------------------------------------------------
(* Messages in a queue.                                                    *)

\* The queue holds this message for the call.
Has(q, op, c) == \E i \in 1 .. Len(q) : q[i].op = op /\ q[i].call = c

\* The queue holds a message for the call.
About(q, c) == \E i \in 1 .. Len(q) : q[i].call = c

\* The message comes before every other one for its call.
Leads(q, op, c) ==
  \A i, j \in 1 .. Len(q) : i < j /\ q[j].op = op /\ q[j].call = c => q[i].call # c

\* No second transfer and no answer follows a transfer.
TransferLast(q, c) ==
  \A i, j \in 1 .. Len(q) :
    i < j /\ q[i].op = "Transfer" /\ q[i].call = c /\ q[j].call = c
      => q[j].op \notin {"Transfer", "Accept"}

\* Nothing, one message, or a start and the stop that takes it back.
LEMMA HasNone ==
  \A op, c : ~Has(<<>>, op, c) /\ ~About(<<>>, c) /\ Leads(<<>>, op, c)
BY DEF Has, About, Leads

\* A queue of one message.
LEMMA HasOne ==
  ASSUME NEW m
  PROVE  /\ Len(<<m>>) = 1
         /\ \A op, c : Has(<<m>>, op, c) <=> m.op = op /\ m.call = c
         /\ \A c : About(<<m>>, c) <=> m.call = c
         /\ \A op, c : Leads(<<m>>, op, c)
BY DEF Has, About, Leads

\* A message for a call is about it.
LEMMA HasAbout ==
  ASSUME NEW q, NEW op, NEW c, Has(q, op, c)
  PROVE  About(q, c)
BY DEF Has, About

\* Reading the head of a queue.
LEMMA TailFacts ==
  ASSUME NEW S, NEW q \in Seq(S), q # <<>>
  PROVE  /\ Head(q) \in S /\ Tail(q) \in Seq(S)
         /\ \A op, c : Has(Tail(q), op, c) => Has(q, op, c)
         /\ \A c : About(Tail(q), c) => About(q, c)
         /\ \A op, c : Leads(q, op, c) => Leads(Tail(q), op, c)
         /\ \A c : TransferLast(q, c) => TransferLast(Tail(q), c)
         /\ \A op, c : Has(q, op, c) =>
              Has(Tail(q), op, c) \/ (Head(q).op = op /\ Head(q).call = c)
         /\ \A c : About(q, c) => About(Tail(q), c) \/ Head(q).call = c
         /\ Has(q, Head(q).op, Head(q).call) /\ About(q, Head(q).call)
         /\ \A op : Leads(q, op, Head(q).call) => ~Has(Tail(q), op, Head(q).call)
         /\ TransferLast(q, Head(q).call) /\ Head(q).op = "Transfer" =>
              \A op \in {"Transfer", "Accept"} : ~Has(Tail(q), op, Head(q).call)
<1> DEFINE t == Tail(q)
<1>1. /\ Head(q) \in S /\ t \in Seq(S) /\ Len(t) = Len(q) - 1
      /\ \A i \in 1 .. Len(t) : t[i] = q[i + 1]
  BY HeadTailProperties
<1>2. Len(q) \in Nat \ {0} /\ Head(q) = q[1]
  BY EmptySeq
<1> HIDE DEF t
<1>3. \A i \in 1 .. Len(t) : i + 1 \in 1 .. Len(q) /\ t[i] = q[i + 1] /\ i < i + 1
  BY <1>1, <1>2
<1>4. \A i \in 1 .. Len(q) : i = 1 \/ (i - 1 \in 1 .. Len(t) /\ t[i - 1] = q[i])
  BY <1>1, <1>2
<1>5. /\ \A op, c : Has(t, op, c) => Has(q, op, c)
      /\ \A c : About(t, c) => About(q, c)
  BY <1>3 DEF Has, About
<1>6. ASSUME NEW op, NEW c, Leads(q, op, c) PROVE Leads(t, op, c)
  <2> SUFFICES ASSUME NEW i \in 1 .. Len(t), NEW j \in 1 .. Len(t), i < j,
                      t[j].op = op, t[j].call = c
               PROVE  t[i].call # c
    BY DEF Leads
  <2>1. i + 1 < j + 1 /\ q[j + 1].op = op /\ q[j + 1].call = c
    BY <1>3, <1>1, <1>2
  <2> QED BY <2>1, <1>3, <1>6 DEF Leads
<1>7. ASSUME NEW c, TransferLast(q, c) PROVE TransferLast(t, c)
  <2> SUFFICES ASSUME NEW i \in 1 .. Len(t), NEW j \in 1 .. Len(t), i < j,
                      t[i].op = "Transfer", t[i].call = c, t[j].call = c
               PROVE  t[j].op \notin {"Transfer", "Accept"}
    BY DEF TransferLast
  <2>1. i + 1 < j + 1 /\ q[i + 1].op = "Transfer" /\ q[i + 1].call = c
          /\ q[j + 1].call = c
    BY <1>3, <1>1, <1>2
  <2> QED BY <2>1, <1>3, <1>7 DEF TransferLast
<1>8. \A op, c : Has(q, op, c) =>
              Has(t, op, c) \/ (Head(q).op = op /\ Head(q).call = c)
  BY <1>4, <1>2 DEF Has
<1>13. \A c : About(q, c) => About(t, c) \/ Head(q).call = c
  BY <1>4, <1>2 DEF About
<1>9. Has(q, Head(q).op, Head(q).call) /\ About(q, Head(q).call)
  BY <1>2 DEF Has, About
<1>10. 1 \in 1 .. Len(q) /\ \A i \in 1 .. Len(t) : 1 < i + 1
  BY <1>1, <1>2
<1>11. \A op : Leads(q, op, Head(q).call) => ~Has(t, op, Head(q).call)
  BY <1>3, <1>2, <1>10 DEF Leads, Has
<1>12. TransferLast(q, Head(q).call) /\ Head(q).op = "Transfer" =>
         \A op \in {"Transfer", "Accept"} : ~Has(t, op, Head(q).call)
  BY <1>3, <1>2, <1>10 DEF TransferLast, Has
<1> QED BY <1>1, <1>5, <1>6, <1>7, <1>8, <1>9, <1>11, <1>12, <1>13 DEF t

\* A queue that lost one message.
LEMMA RemoveFacts ==
  ASSUME NEW S, NEW q \in Seq(S), NEW k \in 1 .. Len(q)
  PROVE  /\ RemoveAt(q, k) \in Seq(S)
         /\ \A op, c : Has(RemoveAt(q, k), op, c) => Has(q, op, c)
         /\ \A c : About(RemoveAt(q, k), c) => About(q, c)
         /\ \A op, c : Leads(q, op, c) => Leads(RemoveAt(q, k), op, c)
         /\ \A op, c : Has(q, op, c) =>
              Has(RemoveAt(q, k), op, c) \/ (q[k].op = op /\ q[k].call = c)
<1> DEFINE n == Len(q)
           a == SubSeq(q, 1, k - 1)
           b == SubSeq(q, k + 1, n)
           t == RemoveAt(q, k)
<1>1. n \in Nat /\ k \in Nat /\ 1 <= k /\ k <= n
  BY LenProperties
<1>2. \A i \in 1 .. n : q[i] \in S
  BY ElementOfSeq
<1>3. /\ a \in Seq(S) /\ Len(a) = k - 1
      /\ \A i \in 1 .. k - 1 : a[i] = q[i]
  BY <1>1, <1>2, SubSeqProperties
<1>4. /\ b \in Seq(S) /\ Len(b) = n - k
      /\ \A i \in 1 .. n - k : b[i] = q[k + i]
  BY <1>1, <1>2, SubSeqProperties
<1>5. t = a \o b
  BY DEF RemoveAt
<1> HIDE DEF a, b, t
<1>6. /\ t \in Seq(S) /\ Len(t) = n - 1
      /\ \A i \in 1 .. Len(a) + Len(b) :
           t[i] = IF i <= Len(a) THEN a[i] ELSE b[i - Len(a)]
  <2>1. /\ t \in Seq(S) /\ Len(t) = Len(a) + Len(b)
        /\ \A i \in 1 .. Len(a) + Len(b) :
             t[i] = IF i <= Len(a) THEN a[i] ELSE b[i - Len(a)]
    BY <1>3, <1>4, <1>5, ConcatProperties
  <2>2. Len(a) + Len(b) = n - 1
    BY <1>1, <1>3, <1>4
  <2> QED BY <2>1, <2>2
<1> HIDE DEF n
<1>7. \A i \in 1 .. n - 1 : t[i] = IF i < k THEN q[i] ELSE q[i + 1]
  <2> SUFFICES ASSUME NEW i \in 1 .. n - 1
               PROVE  t[i] = IF i < k THEN q[i] ELSE q[i + 1]
    OBVIOUS
  <2>1. CASE i < k
    <3>1. i \in 1 .. Len(a) + Len(b) /\ i <= Len(a) /\ i \in 1 .. k - 1
      BY <2>1, <1>1, <1>3, <1>4
    <3> QED BY <3>1, <2>1, <1>3, <1>6
  <2>2. CASE ~(i < k)
    <3>1. /\ i \in 1 .. Len(a) + Len(b) /\ ~(i <= Len(a))
          /\ i - Len(a) \in 1 .. n - k /\ k + (i - Len(a)) = i + 1
      BY <2>2, <1>1, <1>3, <1>4
    <3> QED BY <3>1, <2>2, <1>4, <1>6
  <2> QED BY <2>1, <2>2
<1> DEFINE at(i) == IF i < k THEN i ELSE i + 1
<1>8. /\ \A i \in 1 .. n - 1 : at(i) \in 1 .. n /\ t[i] = q[at(i)]
      /\ \A i, j \in 1 .. n - 1 : i < j => at(i) < at(j)
  BY <1>1, <1>7
<1>9. \A i \in 1 .. n : i = k \/ \E j \in 1 .. n - 1 : t[j] = q[i]
  <2> SUFFICES ASSUME NEW i \in 1 .. n, i # k
               PROVE  \E j \in 1 .. n - 1 : t[j] = q[i]
    OBVIOUS
  <2>1. CASE i < k
    BY <2>1, <1>1, <1>7
  <2>2. CASE i > k
    <3>1. i - 1 \in 1 .. n - 1 /\ ~(i - 1 < k) /\ (i - 1) + 1 = i
      BY <2>2, <1>1
    <3> QED BY <3>1, <1>7
  <2> QED BY <2>1, <2>2, <1>1
<1> HIDE DEF at
<1>10. /\ \A op, c : Has(t, op, c) => Has(q, op, c)
       /\ \A c : About(t, c) => About(q, c)
  BY <1>6, <1>8 DEF Has, About, n
<1>11. \A op, c : Leads(q, op, c) => Leads(t, op, c)
  BY <1>6, <1>8 DEF Leads, n
<1>12. \A op, c : Has(q, op, c) => Has(t, op, c) \/ (q[k].op = op /\ q[k].call = c)
  BY <1>6, <1>9 DEF Has, n
<1> QED BY <1>6, <1>10, <1>11, <1>12 DEF t

\* Putting messages behind a queue.
LEMMA CatFacts ==
  ASSUME NEW S, NEW q \in Seq(S), NEW r \in Seq(S)
  PROVE  /\ q \o r \in Seq(S)
         /\ \A op, c : Has(q \o r, op, c) <=> Has(q, op, c) \/ Has(r, op, c)
         /\ \A c : About(q \o r, c) <=> About(q, c) \/ About(r, c)
         /\ \A op, c : Leads(q, op, c) /\ ~Has(r, op, c) => Leads(q \o r, op, c)
         /\ \A op, c : ~About(q, c) /\ Leads(r, op, c) => Leads(q \o r, op, c)
<1> DEFINE s == q \o r
<1>1. /\ s \in Seq(S) /\ Len(s) = Len(q) + Len(r)
      /\ \A i \in 1 .. Len(q) + Len(r) : s[i] =
           IF i <= Len(q) THEN q[i] ELSE r[i - Len(q)]
  BY ConcatProperties
<1>2. Len(q) \in Nat /\ Len(r) \in Nat
  BY LenProperties
<1> HIDE DEF s
<1>3. /\ \A i \in 1 .. Len(q) : i \in 1 .. Len(s) /\ s[i] = q[i]
      /\ \A i \in 1 .. Len(r) : i + Len(q) \in 1 .. Len(s) /\ s[i + Len(q)] = r[i]
  <2>1. \A i \in 1 .. Len(q) : i \in 1 .. Len(s) /\ s[i] = q[i]
    BY <1>1, <1>2
  <2>2. ASSUME NEW i \in 1 .. Len(r)
        PROVE  i + Len(q) \in 1 .. Len(s) /\ s[i + Len(q)] = r[i]
    <3>1. /\ i + Len(q) \in 1 .. Len(q) + Len(r) /\ ~(i + Len(q) <= Len(q))
          /\ (i + Len(q)) - Len(q) = i
      BY <1>2
    <3> QED BY <3>1, <1>1
  <2> QED BY <2>1, <2>2
<1>4. \A i \in 1 .. Len(s) :
        \/ i \in 1 .. Len(q) /\ s[i] = q[i]
        \/ i - Len(q) \in 1 .. Len(r) /\ s[i] = r[i - Len(q)] /\ i > Len(q)
  BY <1>1, <1>2
<1>5. /\ \A op, c : Has(s, op, c) <=> Has(q, op, c) \/ Has(r, op, c)
      /\ \A c : About(s, c) <=> About(q, c) \/ About(r, c)
  <2>1. ASSUME NEW op, NEW c PROVE Has(s, op, c) => Has(q, op, c) \/ Has(r, op, c)
    BY <1>4 DEF Has
  <2>2. ASSUME NEW op, NEW c PROVE Has(q, op, c) \/ Has(r, op, c) => Has(s, op, c)
    BY <1>3 DEF Has
  <2>3. ASSUME NEW c PROVE About(s, c) => About(q, c) \/ About(r, c)
    BY <1>4 DEF About
  <2>4. ASSUME NEW c PROVE About(q, c) \/ About(r, c) => About(s, c)
    BY <1>3 DEF About
  <2> QED BY <2>1, <2>2, <2>3, <2>4
<1>6. ASSUME NEW op, NEW c, \/ Leads(q, op, c) /\ ~Has(r, op, c)
                            \/ ~About(q, c) /\ Leads(r, op, c)
      PROVE  Leads(s, op, c)
  <2> SUFFICES ASSUME NEW i \in 1 .. Len(s), NEW j \in 1 .. Len(s), i < j,
                      s[j].op = op, s[j].call = c, s[i].call = c
               PROVE  FALSE
    BY DEF Leads
  <2>1. CASE Leads(q, op, c) /\ ~Has(r, op, c)
    <3>1. j \in 1 .. Len(q) /\ s[j] = q[j]
      BY <1>4, <2>1 DEF Has
    <3>2. i \in 1 .. Len(q) /\ s[i] = q[i]
      BY <1>4, <3>1, <1>2
    <3> QED BY <3>1, <3>2, <2>1 DEF Leads
  <2>2. CASE ~About(q, c) /\ Leads(r, op, c)
    <3>1. /\ i - Len(q) \in 1 .. Len(r) /\ s[i] = r[i - Len(q)]
          /\ j - Len(q) \in 1 .. Len(r) /\ s[j] = r[j - Len(q)]
      BY <1>4, <2>2 DEF About
    <3>2. i - Len(q) < j - Len(q)
      BY <1>1, <1>2
    <3> QED BY <3>1, <3>2, <2>2 DEF Leads
  <2> QED BY <1>6, <2>1, <2>2
<1> QED BY <1>1, <1>5, <1>6 DEF s

\* A command behind a queue, as a transfer or an answer to a call is.
LEMMA AppendTransfer ==
  ASSUME NEW S, NEW q \in Seq(S), NEW m \in S, NEW c,
         TransferLast(q, c),
         m.call = c /\ m.op \in {"Transfer", "Accept"} => ~Has(q, "Transfer", c)
  PROVE  TransferLast(Append(q, m), c)
<1> DEFINE s == Append(q, m)
<1>1. /\ Len(s) = Len(q) + 1 /\ \A i \in 1 .. Len(q) : s[i] = q[i]
      /\ s[Len(q) + 1] = m /\ Len(q) \in Nat
  BY AppendProperties, LenProperties
<1> HIDE DEF s
<1> SUFFICES ASSUME NEW i \in 1 .. Len(s), NEW j \in 1 .. Len(s), i < j,
                    s[i].op = "Transfer", s[i].call = c, s[j].call = c
             PROVE  s[j].op \notin {"Transfer", "Accept"}
  BY DEF TransferLast, s
<1>2. i \in 1 .. Len(q) /\ s[i] = q[i]
  BY <1>1
<1>3. CASE j \in 1 .. Len(q)
  BY <1>1, <1>2, <1>3 DEF TransferLast
<1>4. CASE j = Len(q) + 1
  <2>1. s[j] = m
    BY <1>1, <1>4
  <2> QED BY <2>1, <1>2 DEF Has
<1> QED BY <1>1, <1>3, <1>4

\* The messages of Each: one for every call of the set.
LEMMA EachFacts ==
  ASSUME NEW T \in SUBSET Calls, NEW msg
  PROVE  /\ \A S : msg \in S => Each(T, msg) \in Seq([op : S, call : Calls])
         /\ \A op, c : Has(Each(T, msg), op, c) <=> op = msg /\ c \in T
         /\ \A c : About(Each(T, msg), c) <=> c \in T
<1> DEFINE f == SetToSeq(T)
           n == Cardinality(T)
<1>1. IsFiniteSet(T)
  BY VoiceAssumption, FS_Subset
<1>2. n \in Nat /\ ExistsBijection(1 .. n, T)
  BY <1>1, FS_CardinalityType
<1>3. \E g \in [1 .. n -> T] : IsInjective(g)
  BY <1>2 DEF ExistsBijection, Bijection, Injection, IsInjective
<1>4. f \in [1 .. n -> T] /\ IsInjective(f)
  BY <1>3 DEF SetToSeq
<1> HIDE DEF f, n
<1>5. f \in Injection(1 .. n, T)
  BY <1>4 DEF Injection, IsInjective
<1>6. Cardinality(1 .. n) = n
  BY <1>2, FS_Interval
<1>7. f \in Surjection(1 .. n, T)
  BY <1>5, <1>6, <1>1, FS_Injection DEF n
<1>8. \A c \in T : \E i \in 1 .. n : f[i] = c
  BY <1>7 DEF Surjection
<1> DEFINE s == [i \in 1 .. n |-> [op |-> msg, call |-> f[i]]]
<1>9. Each(T, msg) = s
  BY <1>4 DEF Each, f
<1>10. \A i \in 1 .. n : f[i] \in T /\ f[i] \in Calls
  BY <1>4
<1>11. ASSUME NEW S, msg \in S PROVE s \in Seq([op : S, call : Calls])
  BY <1>2, <1>10, <1>11
<1>12. Len(s) = n /\ \A i \in 1 .. n : s[i].op = msg /\ s[i].call = f[i]
  BY <1>2
<1> HIDE DEF s
<1>13. /\ \A op, c : Has(s, op, c) <=> op = msg /\ c \in T
       /\ \A c : About(s, c) <=> c \in T
  BY <1>8, <1>10, <1>12 DEF Has, About
<1> QED BY <1>9, <1>11, <1>13

-----------------------------------------------------------------------------
(* The inductive invariant.                                                *)

\* The leg has nothing to do with the call.
Clean(l, c) ==
  /\ leg[l][c] = NoCall
  /\ ~About(toLeg[l], c) /\ ~About(evs[l], c)

\* The leg does not have the call and will not get it.
Dead(l, c) ==
  leg[l][c].st \notin {"calling", "ringing", "up"} /\ ~Has(toLeg[l], "Start", c)

\* The router has done nothing for the call.
Untouched(c) ==
  /\ route[c] = NoRoute /\ pending[c] = NoPending
  /\ met[c] = {} /\ ~stopped[c] /\ heard[c] = "nothing"

\* The trunk side or the API placed the call.
Outgoing(c) == "Start" \in asked[c] \/ api[c].st # "none"

Over == {"Rejected", "Unavailable", "Ended", "Cancelled"}

\* The action that would begin a call on this line.
Opens(act) ==
  act.kind = "request" \/ (act.kind = "command" /\ act.op = "Start")

Arriving(l, c) ==
  \/ Has(evs[l], "Incoming", c)
  \/ pending[c] # NoPending /\ pending[c].act = Event(l, "Incoming", c)

\* A link without a session has no call, and without a receiver no command.
SessionInv ==
  \A l \in Legs, c \in Calls :
    /\ link[l].session = "off" => toLeg[l] = <<>>
    /\ link[l].session # "on" => leg[l][c] = NoCall
    /\ leg[l][c].reinvite => leg[l][c].st = "up"

(* The rest is about one call at a time.                                   *)

\* What may wait for an observation.
Waits(c) ==
  /\ route[c].owner = "none" => route[c] = NoRoute
  /\ pending[c] # NoPending =>
       /\ pending[c].initial = 2
       /\ \/ \E op \in Costly : pending[c].act = Command(op, c)
          \/ pending[c].act = Request(c)
          \/ \E l \in Legs, op \in {"Incoming", "Unavailable"} :
               pending[c].act = Event(l, op, c)

\* An unused id is unknown everywhere.
Unused(c) ==
  c \notin used =>
    /\ Untouched(c) /\ asked[c] = {} /\ api[c].st = "none" /\ ~About(cmds, c)
    /\ \A l \in Legs : Clean(l, c)

\* A start in the queue comes first, and finds the call untouched.
Starts(c) ==
  /\ Leads(cmds, "Start", c)
  /\ Has(cmds, "Start", c) =>
       /\ Untouched(c) /\ api[c].st = "none" /\ asked[c] \subseteq {"Start", "Stop"}
       /\ \A l \in Legs : Clean(l, c)

\* So does a request.
Requested(c) ==
  api[c].st = "queued" =>
    /\ Untouched(c) /\ asked[c] = {} /\ ~About(cmds, c)
    /\ \A l \in Legs : Clean(l, c)

\* An incoming call not yet told of is known to one leg only.
Rings(c) ==
  \A l \in Legs :
    /\ Leads(evs[l], "Incoming", c)
    /\ Has(evs[l], "Incoming", c) => Untouched(c)
    /\ Arriving(l, c) =>
         /\ route[c] = NoRoute /\ asked[c] = {} /\ heard[c] = "nothing"
         /\ api[c].st = "none" /\ ~About(cmds, c)
         /\ ~About(toLeg[l], c) /\ \A k \in Legs \ {l} : Clean(k, c)
         /\ leg[l][c].st # "calling" /\ ~leg[l][c].reinvite
         /\ \A op \in Events :
              Has(evs[l], op, c) => op \in {"Incoming", "Ended", "Cancelled"}

\* A call is placed or received, never both.
OneWay(c) ==
  /\ \A op \in Commands : Has(cmds, op, c) => op \in asked[c]
  /\ heard[c] = "Incoming" \/ "Accept" \in asked[c] => ~Outgoing(c)
  /\ heard[c] = "Answered" \/ "Renegotiate" \in asked[c] => Outgoing(c)
  /\ \A l \in Legs :
       \/ leg[l][c].st = "calling" \/ leg[l][c].reinvite
       \/ Has(toLeg[l], "Start", c) \/ Has(toLeg[l], "Renegotiate", c)
       \/ Has(evs[l], "Answered", c)
       => Outgoing(c)

\* A start or a request that waits has been seen by no leg.
HeldStart(c) ==
  pending[c] # NoPending /\ Opens(pending[c].act) =>
    /\ route[c] = NoRoute /\ asked[c] \subseteq {"Start", "Stop"}
    /\ heard[c] = "nothing" /\ Outgoing(c)
    /\ \A l \in Legs : Clean(l, c)

\* The legs left to try are clean, and the call was not answered.
Planned(c) ==
  /\ \A l \in route[c].rest : Clean(l, c) /\ l # route[c].owner
  /\ route[c].start => /\ asked[c] \subseteq {"Start", "Stop"}
                       /\ heard[c] \in {"nothing", "over"}
                       /\ Outgoing(c)

\* A leg is told once to start a call, before anything else.
StartsOnce(c) ==
  \A l \in Legs :
    /\ Leads(toLeg[l], "Start", c)
    /\ Has(toLeg[l], "Start", c) => leg[l][c] = NoCall /\ ~About(evs[l], c)

\* A leg that said the call is over is done with it.
Given(c) ==
  \A l \in Legs :
    /\ \A op \in Over : Has(evs[l], op, c) => Dead(l, c)
    /\ Has(evs[l], "Unavailable", c) => ~Has(evs[l], "Answered", c)
    /\ pending[c] # NoPending /\ pending[c].act = Event(l, "Unavailable", c) =>
         /\ Dead(l, c) /\ ~Has(evs[l], "Answered", c)
         /\ route[c].owner \in {"none", l}

OnOneLeg(c) == Dead("vowifi", c) \/ Dead("cellular", c)

\* A call that a leg has is known to the router.
Reached(c) ==
  dropped[c] = "no" =>
    /\ pending[c] # NoPending /\ route[c] = NoRoute =>
         \/ Opens(pending[c].act)
         \/ \E l \in Legs :
              pending[c].act = Event(l, "Incoming", c) /\ pending[c].owner = l
    /\ \A l \in Legs :
         \/ Dead(l, c) \/ Has(toLeg[l], "Stop", c) \/ Owner(c) = l
         \/ Has(evs[l], "Incoming", c)

\* The transfer of the call has been read, and nothing costly can follow it.
Spent(c) ==
  "Transfer" \in asked[c] /\ ~Has(cmds, "Transfer", c) /\ ~Has(cmds, "Accept", c)

\* A route remembers the tightest mode its call was admitted in.  The mode of
\* an admission that was given up is forgotten only by a transfer.
Ratchet(c) ==
  /\ TransferLast(cmds, c)
  /\ "Transfer" \in asked[c] => "Accept" \in asked[c] \/ heard[c] \in {"Answered", "over"}
  /\ pending[c] # NoPending =>
       /\ 1 \notin met[c]
       /\ pending[c].act = Command("Transfer", c) => Spent(c)
       /\ \A op \in Costly : pending[c].act = Command(op, c) => op \in asked[c]
  /\ route[c] # NoRoute /\ 1 \in met[c] => route[c].mode = 1
  /\ route[c] # NoRoute /\ pending[c] = NoPending /\ 2 \in met[c]
       /\ route[c].mode = 0 => Spent(c)

\* A call whose end was handled has neither a route nor an admission.
Ended(c) == stopped[c] => route[c] = NoRoute /\ pending[c] = NoPending

CallInv(c) ==
  /\ Waits(c) /\ Unused(c) /\ Starts(c) /\ Requested(c) /\ Rings(c) /\ OneWay(c)
  /\ HeldStart(c) /\ Planned(c) /\ StartsOnce(c) /\ Given(c) /\ OnOneLeg(c)
  /\ Reached(c) /\ Ratchet(c) /\ Ended(c)

VoiceInv == TypeOK /\ SessionInv /\ \A c \in Calls : CallInv(c)

-----------------------------------------------------------------------------
(* What the outcome of an action respects.                                 *)

Messages == [op : Commands, call : Calls]

\* Commands about one call, for legs that have a receiver; a start leads.
Fits(to, c) ==
  /\ to \in [Legs -> Seq(Messages)]
  /\ \A l \in Legs :
       /\ ~HasConsumer(l) => to[l] = <<>>
       /\ \A d : About(to[l], d) => d = c
       /\ Leads(to[l], "Start", c)

\* What is known of an action when the router takes it.
Ready(act) ==
  LET c == act.call
  IN  /\ c \in Calls
      /\ \/ \E op \in Commands : act = Command(op, c) /\ op \in asked[c]
         \/ act = Request(c)
         \/ \E l \in Legs, op \in Events : act = Event(l, op, c)
      /\ Opens(act) =>
           /\ route[c] = NoRoute /\ asked[c] \subseteq {"Start", "Stop"}
           /\ heard[c] = "nothing" /\ Outgoing(c)
           /\ \A l \in Legs : Clean(l, c)
      /\ \A l \in Legs :
           /\ act = Event(l, "Incoming", c) =>
                route[c] = NoRoute /\ asked[c] = {} /\ ~Outgoing(c)
           /\ \A op \in Over : act = Event(l, op, c) => Dead(l, c)
           /\ act = Event(l, "Answered", c) => Outgoing(c)

\* A call is started on a clean leg while the other is done with it; a leg
\* left for later is clean; a leg the router turns away from does not have
\* the call, is told to stop, or the loss is recorded.
Sound(act, out) ==
  LET c == act.call
  IN  /\ out.route \in Routes /\ (out.route.owner = "none" => out.route = NoRoute)
      /\ Fits(out.to, c)
      /\ \A l \in Legs : Has(out.to[l], "Start", c) =>
           /\ Clean(l, c) /\ Outgoing(c)
           /\ \A k \in Legs \ {l} : Dead(k, c) /\ ~Has(out.to[k], "Start", c)
           /\ out.route.owner = l \/ Has(out.to[l], "Stop", c)
      /\ \A l \in out.route.rest :
           Clean(l, c) /\ l # out.route.owner /\ ~About(out.to[l], c)
      /\ out.route.start =>
           /\ asked[c] \subseteq {"Start", "Stop"} /\ Outgoing(c)
           /\ heard[c] \in {"nothing", "over"}
           /\ "Answered" \notin out.told /\ "Incoming" \notin out.told
      /\ \A l \in Legs : route[c].owner = l =>
           \/ out.route.owner = l \/ Dead(l, c) \/ Has(out.to[l], "Stop", c)
           \/ DropReason(act, out) # "no"
      /\ \A l \in Legs : Has(out.to[l], "Renegotiate", c) =>
           "Renegotiate" \in asked[c]
      /\ "Incoming" \in out.told => asked[c] = {} /\ ~Outgoing(c)
      /\ "Answered" \in out.told => Outgoing(c)
      /\ out.route # NoRoute =>
           \/ route[c] # NoRoute \/ Opens(act)
           \/ \E l \in Legs : act = Event(l, "Incoming", c)
      /\ \A l \in Legs, op \in Costly : Has(out.to[l], op, c) =>
           route[c] # NoRoute \/ Opens(act)

\* An incoming call is routed to its leg, or the leg is rid of it.
Placed(act, out) ==
  \A l \in Legs : act = Event(l, "Incoming", act.call) =>
    \/ out.route.owner = l \/ Dead(l, act.call)
    \/ Has(out.to[l], "Stop", act.call)

\* Nothing costly goes to cellular while only VoWiFi may have it.
Priced(act, out, onlyWifi) ==
  \A op \in Costly : Has(out.to["cellular"], op, act.call) =>
    /\ ~onlyWifi /\ NeedsAdmission(act)
    /\ IF op = "Start" THEN Opens(act) \/ route[act.call].start
                       ELSE act = Command(op, act.call)

\* What holds of the outcome of an action that is carried out.
Carried(act, out, onlyWifi) ==
  /\ Sound(act, out) /\ Placed(act, out) /\ Priced(act, out, onlyWifi)
  /\ act = Command("Stop", act.call) => out.route = NoRoute

\* No command for any leg.
LEMMA NothingFacts ==
  ASSUME NEW c
  PROVE  /\ Fits(Nothing, c)
         /\ \A l \in Legs : \A op, d : ~Has(Nothing[l], op, d) /\ ~About(Nothing[l], d)
         /\ \A l \in Legs : Nothing[l] = <<>>
BY HasNone, EmptySeq DEF Nothing, Fits

\* A command for one leg, if it has a receiver.
LEMMA OnlyOut ==
  ASSUME NEW l \in Legs, NEW op \in Commands, NEW c \in Calls, NEW to,
         to = Only(l, op, c)
  PROVE  /\ Fits(to, c)
         /\ \A k \in Legs, o \in Commands : Has(to[k], o, c) => k = l /\ o = op
         /\ \A k \in Legs : About(to[k], c) => k = l
         /\ HasConsumer(l) => Has(to[l], op, c)
<1> DEFINE m == [op |-> op, call |-> c]
<1>1. m \in Messages /\ m.op = op /\ m.call = c
  BY DEF Messages
<1>2. <<m>> \in Seq(Messages) /\ <<>> \in Seq(Messages)
  BY <1>1
<1> HIDE DEF m
<1>3. to = [Nothing EXCEPT ![l] = IF HasConsumer(l) THEN <<m>> ELSE <<>>]
  BY DEF Only, m
<1>4. Nothing = [k \in Legs |-> <<>>]
  BY DEF Nothing
<1>5. /\ to \in [Legs -> Seq(Messages)]
      /\ \A k \in Legs : k # l \/ ~HasConsumer(k) => to[k] = <<>>
      /\ HasConsumer(l) => to[l] = <<m>>
  BY <1>2, <1>3, <1>4
<1>6. /\ \A o, d : Has(<<m>>, o, d) <=> op = o /\ c = d
      /\ \A d : About(<<m>>, d) <=> c = d
      /\ \A o, d : Leads(<<m>>, o, d)
  BY <1>1, HasOne
<1>7. \A k \in Legs : to[k] = <<>> \/ (k = l /\ to[k] = <<m>>)
  BY <1>5
<1>8. Fits(to, c)
  BY <1>5, <1>6, <1>7, HasNone DEF Fits
<1> QED BY <1>5, <1>6, <1>7, <1>8, HasNone

\* A plan fails, or its first leg that may be used is told to start.
LEMMA AttemptCases ==
  ASSUME NEW c \in Calls, NEW legs \in SUBSET Legs, NEW eligible
  PROVE  \/ Attempt(c, legs, eligible) = Outcome(NoRoute, Nothing, {"Unavailable"})
         \/ \E l \in legs \cap eligible :
              Attempt(c, legs, eligible) =
                Outcome([owner |-> l, gen |-> link[l].gen, rest |-> legs \cap After(l),
                         start |-> TRUE, mode |-> route[c].mode],
                        Only(l, "Start", c), {})
<1> DEFINE next == First(legs \cap eligible)
<1>1. next = "none" \/ next \in legs \cap eligible
  BY DEF First, Legs
<1>2. CASE next = "none"
  BY <1>2 DEF Attempt
<1>3. CASE next # "none"
  <2>1. next \in legs \cap eligible
    BY <1>1, <1>3
  <2> QED BY <2>1, <1>3 DEF Attempt
<1> QED BY <1>2, <1>3

\* A leg without a receiver has no call.
LEMMA OffDead ==
  ASSUME SessionInv, NEW l \in Legs, NEW c \in Calls, ~HasConsumer(l)
  PROVE  Dead(l, c)
BY HasNone DEF SessionInv, HasConsumer, Dead, NoCall

\* A leg that has nothing to do with a call does not have it.
LEMMA CleanDead ==
  ASSUME NEW l, NEW c, Clean(l, c)
  PROVE  Dead(l, c)
BY HasAbout DEF Clean, Dead, NoCall

\* A leg that holds a call has it or will start it, and no stop is queued.
LEMMA HoldsFacts ==
  ASSUME TypeOK, NEW l \in Legs, NEW c \in Calls, StartsOnce(c), Holds(l, c)
  PROVE  ~Dead(l, c) /\ ~Has(toLeg[l], "Stop", c)
<1> DEFINE q == toLeg[l]
<1>1. /\ q \in Seq(Messages) /\ DOMAIN q = 1 .. Len(q) /\ Len(q) \in Nat
      /\ \A i \in 1 .. Len(q) : q[i] \in Messages
  BY LenProperties, ElementOfSeq DEF TypeOK, Messages
<1>2. Leads(q, "Start", c)
  BY DEF StartsOnce
<1> HIDE DEF q
<1>3. \A op : LastQueued(l, c, op) <=>
        \E i \in 1 .. Len(q) : q[i] = [op |-> op, call |-> c] /\ \A j \in 1 .. Len(q) :
          j > i /\ q[j].call = c => q[j].op \notin {"Start", "Stop"} \ {op}
  BY <1>1 DEF LastQueued, q
<1>4. CASE LastQueued(l, c, "Start")
  <2>1. PICK i \in 1 .. Len(q) : q[i] = [op |-> "Start", call |-> c] /\
          \A j \in 1 .. Len(q) : j > i /\ q[j].call = c => q[j].op # "Stop"
    BY <1>3, <1>4
  <2>2. \A j \in 1 .. Len(q) : j < i => q[j].call # c
    BY <1>2, <2>1 DEF Leads
  <2>3. \A j \in 1 .. Len(q) : j < i \/ j = i \/ j > i
    BY <1>1
  <2>4. ~Has(q, "Stop", c) /\ Has(q, "Start", c)
    BY <2>1, <2>2, <2>3 DEF Has
  <2> QED BY <2>4 DEF Dead, q
<1>5. CASE ~LastQueued(l, c, "Stop") /\ leg[l][c].st \in {"calling", "ringing", "up"}
  <2>1. SUFFICES ASSUME Has(q, "Stop", c) PROVE FALSE
    BY <1>5 DEF Dead, q
  <2>2. PICK i \in 1 .. Len(q) : q[i].op = "Stop" /\ q[i].call = c
    BY <2>1 DEF Has
  <2>3. q[i] = [op |-> "Stop", call |-> c]
    BY <2>2, <1>1 DEF Messages
  <2>4. PICK j \in 1 .. Len(q) : j > i /\ q[j].call = c /\ q[j].op = "Start"
    BY <2>3, <1>3, <1>5
  <2> QED BY <2>2, <2>4, <1>2 DEF Leads
<1> QED BY <1>4, <1>5 DEF Holds

\* The parts of an outcome.
LEMMA OutcomeParts ==
  ASSUME NEW rt, NEW to, NEW told
  PROVE  /\ Outcome(rt, to, told).route = rt
         /\ Outcome(rt, to, told).to = to
         /\ Outcome(rt, to, told).told = told
BY DEF Outcome

\* What the invariant says of a route, for the outcomes that keep it.
LEMMA RouteFacts ==
  ASSUME TypeOK, NEW c \in Calls, Waits(c), Planned(c)
  PROVE  /\ route[c] \in Routes /\ NoRoute \in Routes
         /\ route[c].owner \in Legs \cup {"none"}
         /\ route[c].owner = "none" <=> route[c] = NoRoute
         /\ \A l \in route[c].rest : Clean(l, c) /\ l # route[c].owner /\ l \in Legs
         /\ route[c].start => /\ asked[c] \subseteq {"Start", "Stop"}
                              /\ heard[c] \in {"nothing", "over"} /\ Outgoing(c)
         /\ NoRoute.owner = "none" /\ NoRoute.rest = {} /\ ~NoRoute.start
<1>1. route[c] \in Routes /\ NoRoute \in Routes
  BY DEF TypeOK, Routes, NoRoute, Modes
<1>2. /\ NoRoute.owner = "none" /\ NoRoute.rest = {} /\ ~NoRoute.start
      /\ route[c].owner \in Legs \cup {"none"} /\ route[c].rest \subseteq Legs
  BY <1>1 DEF Routes, NoRoute
<1>3. route[c].owner = "none" <=> route[c] = NoRoute
  BY <1>2 DEF Waits
<1> QED BY <1>1, <1>2, <1>3 DEF Planned

\* The route stays as it is and the legs hear nothing.
LEMMA KeepSound ==
  ASSUME TypeOK, NEW act, act.call \in Calls, Waits(act.call), Planned(act.call), NEW told,
         "Incoming" \notin told, "Answered" \notin told
  PROVE  Sound(act, Outcome(route[act.call], Nothing, told))
<1> DEFINE c == act.call
           out == Outcome(route[c], Nothing, told)
<1>1. /\ out.route = route[c] /\ out.to = Nothing /\ out.told = told
  BY OutcomeParts
<1>2. /\ Fits(out.to, c) /\ \A l \in Legs : \A op, d : ~Has(out.to[l], op, d)
      /\ \A l \in Legs : \A d : ~About(out.to[l], d)
  BY <1>1, NothingFacts
<1> HIDE DEF out
<1>3. Sound(act, out)
  <2>1. /\ route[c] \in Routes /\ (route[c].owner = "none" => route[c] = NoRoute)
        /\ \A l \in route[c].rest : Clean(l, c) /\ l # route[c].owner /\ l \in Legs
        /\ route[c].start => /\ asked[c] \subseteq {"Start", "Stop"}
                             /\ heard[c] \in {"nothing", "over"} /\ Outgoing(c)
    BY RouteFacts
  <2> QED BY <1>1, <1>2, <2>1 DEF Sound
<1> QED BY <1>3 DEF out

\* The route is dropped and the legs hear nothing.
LEMMA DropSound ==
  ASSUME TypeOK, NEW act, act.call \in Calls, Waits(act.call), Planned(act.call), NEW told,
         "Incoming" \notin told, "Answered" \notin told,
         \A l \in Legs : route[act.call].owner = l =>
           Dead(l, act.call) \/ DropReason(act, Outcome(NoRoute, Nothing, told)) # "no"
  PROVE  Sound(act, Outcome(NoRoute, Nothing, told))
<1> DEFINE c == act.call
           out == Outcome(NoRoute, Nothing, told)
<1>1. /\ out.route = NoRoute /\ out.to = Nothing /\ out.told = told
  BY OutcomeParts
<1>2. /\ Fits(out.to, c) /\ \A l \in Legs : \A op, d : ~Has(out.to[l], op, d)
      /\ \A l \in Legs : \A d : ~About(out.to[l], d)
  BY <1>1, NothingFacts
<1>3. \A l \in Legs : route[c].owner = l => Dead(l, c) \/ DropReason(act, out) # "no"
  OBVIOUS
<1> HIDE DEF out
<1> QED BY <1>1, <1>2, <1>3, RouteFacts DEF Sound, out

\* The route is dropped and its leg told to stop.
LEMMA StopSound ==
  ASSUME TypeOK, SessionInv, NEW act, act.call \in Calls, Waits(act.call), Planned(act.call), NEW told,
         "Incoming" \notin told, "Answered" \notin told, NEW l \in Legs,
         route[act.call].owner \in {"none", l}
  PROVE  /\ Sound(act, Outcome(NoRoute, Only(l, "Stop", act.call), told))
         /\ Placed(act, Outcome(NoRoute, Only(l, "Stop", act.call), told))
              \/ act # Event(l, "Incoming", act.call)
<1> DEFINE c == act.call
           out == Outcome(NoRoute, Only(l, "Stop", c), told)
<1>1. "Stop" \in Commands /\ "Stop" \notin Costly
  BY DEF Commands, Costly
<1>2. HasConsumer(l) \/ Dead(l, c)
  BY OffDead
<1>3. Sound(act, out)
  <2>1. /\ out.route = NoRoute /\ out.to = Only(l, "Stop", c) /\ out.told = told
    BY OutcomeParts
  <2>2. /\ Fits(out.to, c)
        /\ \A k \in Legs, o \in Commands : Has(out.to[k], o, c) => k = l /\ o = "Stop"
        /\ HasConsumer(l) => Has(out.to[l], "Stop", c)
    BY <2>1, <1>1, OnlyOut
  <2>3. {"Start", "Renegotiate"} \cup Costly \subseteq Commands
    BY DEF Commands, Costly
  <2> HIDE DEF out
  <2> QED BY <2>1, <2>2, <2>3, <1>1, <1>2, RouteFacts DEF Sound
<1>4. act = Event(l, "Incoming", c) => Placed(act, out)
  BY <1>1, <1>2, OnlyOut, OutcomeParts DEF Placed, Event
<1> QED BY <1>3, <1>4

\* The route stays and its leg gets a command that starts nothing.
LEMMA SendSound ==
  ASSUME TypeOK, NEW act, act.call \in Calls, Waits(act.call), Planned(act.call), NEW told,
         "Incoming" \notin told, "Answered" \notin told,
         NEW op \in {"Accept", "Transfer", "Renegotiate"}, op \in asked[act.call],
         route[act.call] # NoRoute
  PROVE  Sound(act, Outcome(route[act.call],
                            Only(route[act.call].owner, op, act.call), told))
<1> DEFINE c == act.call
           l == route[c].owner
<1>1. op \in Commands /\ op # "Start" /\ l \in Legs
  BY RouteFacts DEF Commands
<1>2. \A k \in route[c].rest : k # l /\ k \in Legs
  BY RouteFacts
<1>3. ~route[c].start
  BY RouteFacts, <1>1
<1> DEFINE out == Outcome(route[c], Only(l, op, c), told)
<1>4. /\ out.route = route[c] /\ out.to = Only(l, op, c) /\ out.told = told
  BY OutcomeParts
<1>5. /\ Fits(out.to, c)
      /\ \A k \in Legs, o \in Commands : Has(out.to[k], o, c) => k = l /\ o = op
      /\ \A k \in Legs : About(out.to[k], c) => k = l
  BY <1>4, <1>1, OnlyOut
<1>7. {"Start", "Renegotiate"} \cup Costly \subseteq Commands
  BY DEF Commands, Costly
<1> HIDE DEF out
<1>6. Sound(act, out)
  BY <1>1, <1>2, <1>3, <1>4, <1>5, <1>7, RouteFacts DEF Sound
<1> QED BY <1>6 DEF out

\* A start: on a leg of a plan whose legs are clean, while the others are
\* done with the call.
LEMMA AttemptSound ==
  ASSUME TypeOK, NEW act, act.call \in Calls, Waits(act.call), Planned(act.call),
         NEW legs \in SUBSET Legs, NEW eligible,
         \A l \in legs : Clean(l, act.call),
         \A l \in Legs \ legs : Dead(l, act.call),
         legs # {} => /\ asked[act.call] \subseteq {"Start", "Stop"}
                      /\ Outgoing(act.call) /\ heard[act.call] \in {"nothing", "over"}
                      /\ route[act.call] # NoRoute \/ Opens(act)
  PROVE  LET out == Attempt(act.call, legs, eligible)
         IN  /\ Sound(act, out)
             /\ \A l \in Legs, op \in Commands : Has(out.to[l], op, act.call) =>
                  op = "Start" /\ l \in legs \cap eligible
<1> DEFINE c == act.call
           out == Attempt(c, legs, eligible)
<1>0. \A l \in Legs : Dead(l, c)
  BY CleanDead
<1>1. CASE out = Outcome(NoRoute, Nothing, {"Unavailable"})
  <2>1. Sound(act, Outcome(NoRoute, Nothing, {"Unavailable"}))
    BY <1>0, DropSound
  <2> QED BY <2>1, <1>1, NothingFacts, OutcomeParts
<1>2. ASSUME NEW l \in legs \cap eligible,
             out = Outcome([owner |-> l, gen |-> link[l].gen, rest |-> legs \cap After(l),
                            start |-> TRUE, mode |-> route[c].mode],
                           Only(l, "Start", c), {})
      PROVE  /\ Sound(act, out)
             /\ \A k \in Legs, op \in Commands : Has(out.to[k], op, c) =>
                  op = "Start" /\ k \in legs \cap eligible
  <2> DEFINE rt == [owner |-> l, gen |-> link[l].gen, rest |-> legs \cap After(l),
                    start |-> TRUE, mode |-> route[c].mode]
  <2>1. l \in Legs /\ l \notin After(l) /\ "Start" \in Commands
    BY DEF After, Legs, Commands
  <2>2. link[l].gen \in Nat /\ route[c].mode \in Modes
    BY <2>1 DEF TypeOK, Routes
  <2>3. /\ rt \in Routes /\ rt.owner = l /\ rt.rest = legs \cap After(l) /\ rt.start
        /\ l # "none"
    BY <2>1, <2>2 DEF Routes, Legs
  <2>4. /\ out.route = rt /\ out.to = Only(l, "Start", c) /\ out.told = {}
    BY <1>2, OutcomeParts
  <2> HIDE DEF rt, out
  <2>5. /\ Fits(out.to, c)
        /\ \A k \in Legs, o \in Commands : Has(out.to[k], o, c) => k = l /\ o = "Start"
        /\ \A k \in Legs : About(out.to[k], c) => k = l
    BY <2>1, <2>4, OnlyOut
  <2>8. {"Start", "Renegotiate"} \cup Costly \subseteq Commands
    BY DEF Commands, Costly
  <2>6. \A k \in rt.rest : Clean(k, c) /\ k # rt.owner /\ k \in Legs /\ k # l
    BY <2>1, <2>3
  <2>7. Sound(act, out)
    BY <1>0, <2>1, <2>3, <2>4, <2>5, <2>6, <2>8 DEF Sound
  <2> QED BY <2>5, <2>7
<1> QED BY <1>1, <1>2, AttemptCases

\* Outcomes that send nothing costly.
LEMMA CheapOut ==
  ASSUME NEW act, NEW out, NEW onlyWifi, NEW c,
         c = act.call, c \in Calls,
         out.to = Nothing \/ \E l \in Legs, op \in Commands \ Costly : out.to = Only(l, op, c)
  PROVE  Priced(act, out, onlyWifi)
<1>1. "cellular" \in Legs /\ Costly \subseteq Commands
  BY DEF Legs, Costly, Commands
<1>2. CASE out.to = Nothing
  BY <1>1, <1>2, NothingFacts DEF Priced
<1>3. ASSUME NEW l \in Legs, NEW op \in Commands \ Costly, out.to = Only(l, op, c)
      PROVE  Priced(act, out, onlyWifi)
  <2>1. \A k \in Legs, o \in Commands : Has(out.to[k], o, c) => k = l /\ o = op
    BY <1>3, OnlyOut
  <2> QED BY <2>1, <1>1 DEF Priced
<1> QED BY <1>2, <1>3

\* An action that is not an incoming call has none to place.
LEMMA PlacedOther ==
  ASSUME NEW act, NEW out, act.kind # "event" \/ act.op # "Incoming"
  PROVE  Placed(act, out)
BY DEF Placed, Event

\* route_command for a call that is already routed.
LEMMA ControlCarried ==
  ASSUME TypeOK, SessionInv, NEW c \in Calls, Waits(c), Planned(c),
         NEW op \in Commands \ {"Start"}, NEW onlyWifi,
         op \in asked[c]
  PROVE  Carried(Command(op, c), RouteControl(c, op, onlyWifi), onlyWifi)
<1> DEFINE act == Command(op, c)
           rt == route[c]
           out == RouteControl(c, op, onlyWifi)
<1>1. act.call = c /\ act.kind = "command" /\ act.op = op
  BY DEF Command
<1>2. "Incoming" \notin Refusal(op) /\ "Answered" \notin Refusal(op)
  BY DEF Refusal
<1>3. rt # NoRoute => rt.owner \in Legs
  BY RouteFacts
<1>4. Placed(act, out)
  BY <1>1, PlacedOther
<1>5. act = Command("Stop", c) => op = "Stop"
  BY DEF Command
<1> SUFFICES Carried(act, out, onlyWifi)
  OBVIOUS
<1> HIDE DEF act
<1>6. CASE rt = NoRoute
  <2>1. out = Outcome(NoRoute, Nothing, Refusal(op))
    BY <1>6 DEF RouteControl
  <2>2. \A l \in Legs : route[c].owner # l
    BY <1>6 DEF Legs, NoRoute
  <2>3. Sound(act, out)
    BY <2>1, <2>2, <1>1, <1>2, DropSound
  <2>4. Priced(act, out, onlyWifi) /\ out.route = NoRoute
    BY <2>1, <1>1, OutcomeParts, CheapOut
  <2> QED BY <2>3, <2>4, <1>4 DEF Carried
<1>7. CASE rt # NoRoute /\ ~CurrentGeneration(c)
  <2>1. out = Outcome(NoRoute, Nothing, {"Unavailable"})
    BY <1>7 DEF RouteControl
  <2>2. DropReason(act, out) = "stale"
    BY <2>1, <1>1, <1>7, OutcomeParts DEF DropReason
  <2>3. Sound(act, out)
    BY <2>1, <2>2, <1>1, DropSound
  <2>4. Priced(act, out, onlyWifi) /\ out.route = NoRoute
    BY <2>1, <1>1, OutcomeParts, CheapOut
  <2> QED BY <2>3, <2>4, <1>4 DEF Carried
<1>8. CASE rt # NoRoute /\ CurrentGeneration(c) /\ DeniedOnCellular(c, op, onlyWifi)
  <2>1. CASE op = "Accept"
    <3>1. out = Outcome(NoRoute, Only(rt.owner, "Stop", c), Refusal(op))
      BY <1>8, <2>1 DEF RouteControl
    <3>2. Sound(act, out)
      BY <3>1, <1>1, <1>2, <1>3, <1>8, StopSound
    <3>3. "Stop" \in Commands \ Costly
      BY DEF Commands, Costly
    <3>4. Priced(act, out, onlyWifi) /\ out.route = NoRoute
      BY <3>1, <3>3, <1>1, <1>3, <1>8, OutcomeParts, CheapOut
    <3> QED BY <3>2, <3>4, <1>4 DEF Carried
  <2>2. CASE op # "Accept"
    <3>1. out = Outcome(rt, Nothing, Refusal(op))
      BY <1>8, <2>2 DEF RouteControl
    <3>2. Sound(act, out)
      BY <3>1, <1>1, <1>2, KeepSound
    <3>3. Priced(act, out, onlyWifi)
      BY <3>1, <1>1, OutcomeParts, CheapOut
    <3>4. op # "Stop"
      BY <1>8 DEF DeniedOnCellular
    <3> QED BY <3>2, <3>3, <3>4, <1>1, <1>4, <1>5 DEF Carried
  <2> QED BY <2>1, <2>2
<1>9. CASE rt # NoRoute /\ CurrentGeneration(c) /\ ~DeniedOnCellular(c, op, onlyWifi)
  <2> DEFINE told == IF HasConsumer(rt.owner) THEN {} ELSE Refusal(op)
  <2>1. out = Outcome(IF op = "Stop" THEN NoRoute ELSE rt, Only(rt.owner, op, c), told)
    BY <1>9 DEF RouteControl
  <2>2. "Incoming" \notin told /\ "Answered" \notin told
    BY <1>2
  <2> HIDE DEF told
  <2>3. CASE op = "Stop"
    <3>1. Sound(act, out)
      BY <2>1, <2>2, <2>3, <1>1, <1>3, <1>9, StopSound
    <3>2. "Stop" \in Commands \ Costly
      BY DEF Commands, Costly
    <3>3. Priced(act, out, onlyWifi) /\ out.route = NoRoute
      BY <2>1, <2>3, <3>2, <1>1, <1>3, <1>9, OutcomeParts, CheapOut
    <3> QED BY <3>1, <3>3, <1>4 DEF Carried
  <2>4. CASE op # "Stop"
    <3>1. op \in {"Accept", "Transfer", "Renegotiate"}
      BY <2>4 DEF Commands
    <3>2. Sound(act, out)
      BY <2>1, <2>2, <2>4, <3>1, <1>1, <1>9, SendSound
    <3>3. \A k \in Legs, o \in Commands : Has(out.to[k], o, c) => k = rt.owner /\ o = op
      BY <2>1, <1>3, <1>9, OutcomeParts, OnlyOut
    <3>4. /\ "cellular" \in Legs /\ Costly \subseteq Commands
          /\ op \in Costly /\ rt.owner = "cellular" => ~onlyWifi
      BY <3>1, <1>9 DEF Legs, Costly, Commands, DeniedOnCellular
    <3>5. Priced(act, out, onlyWifi)
      <4>1. op \in Costly => NeedsAdmission(act)
        BY <1>1 DEF NeedsAdmission
      <4> QED BY <4>1, <3>1, <3>3, <3>4, <1>1 DEF Priced, act
    <3> QED BY <3>2, <3>5, <2>4, <1>1, <1>4, <1>5 DEF Carried
  <2> QED BY <2>3, <2>4
<1> QED BY <1>6, <1>7, <1>8, <1>9

\* What is told of an outcome may be left out.
LEMMA RetoldSound ==
  ASSUME NEW act, NEW out, NEW other, Sound(act, out),
         other.route = out.route, other.to = out.to,
         "Incoming" \notin other.told, "Answered" \notin other.told
  PROVE  Sound(act, other)
<1>1. DropReason(act, other) = DropReason(act, out)
  BY DEF DropReason
<1> QED BY <1>1 DEF Sound

\* A start of the trunk or of the API, on the legs of a plan.
LEMMA OpenCarried ==
  ASSUME TypeOK, NEW act, Waits(act.call), Planned(act.call), Ready(act), Opens(act),
         NEW plan \in SUBSET Legs, NEW eligible, NEW onlyWifi,
         eligible \subseteq AllowedLegs(onlyWifi), NEW out,
         LET tried == Attempt(act.call, plan, eligible)
         IN  out = tried \/ out = [tried EXCEPT !.told = {}]
  PROVE  Carried(act, out, onlyWifi)
<1> DEFINE c == act.call
           tried == Attempt(c, plan, eligible)
<1>1. /\ c \in Calls /\ asked[c] \subseteq {"Start", "Stop"} /\ heard[c] = "nothing"
      /\ Outgoing(c) /\ \A l \in Legs : Clean(l, c)
  BY DEF Ready
<1>2. \A l \in Legs : Dead(l, c)
  BY <1>1, CleanDead
<1>3. /\ Sound(act, tried)
      /\ \A l \in Legs, op \in Commands : Has(tried.to[l], op, c) =>
           op = "Start" /\ l \in plan \cap eligible
  BY <1>1, <1>2, AttemptSound
<1>4. ASSUME NEW rt, NEW to, NEW told, tried = Outcome(rt, to, told),
             told \in {{}, {"Unavailable"}}
      PROVE  /\ out.route = tried.route /\ out.to = tried.to
             /\ "Incoming" \notin out.told /\ "Answered" \notin out.told
  <2>1. [Outcome(rt, to, told) EXCEPT !.told = {}] = Outcome(rt, to, {})
    BY DEF Outcome
  <2>2. out = Outcome(rt, to, told) \/ out = Outcome(rt, to, {})
    BY <2>1, <1>4
  <2> QED BY <2>2, <1>4, OutcomeParts
<1>6. /\ out.route = tried.route /\ out.to = tried.to
      /\ "Incoming" \notin out.told /\ "Answered" \notin out.told
  <2>1. CASE tried = Outcome(NoRoute, Nothing, {"Unavailable"})
    BY <2>1, <1>4
  <2>2. ASSUME NEW l \in plan \cap eligible,
               tried = Outcome([owner |-> l, gen |-> link[l].gen,
                                rest |-> plan \cap After(l), start |-> TRUE,
                                mode |-> route[c].mode], Only(l, "Start", c), {})
        PROVE  /\ out.route = tried.route /\ out.to = tried.to
               /\ "Incoming" \notin out.told /\ "Answered" \notin out.told
    <3> DEFINE rt == [owner |-> l, gen |-> link[l].gen, rest |-> plan \cap After(l),
                      start |-> TRUE, mode |-> route[c].mode]
    <3>1. tried = Outcome(rt, Only(l, "Start", c), {})
      BY <2>2
    <3> HIDE DEF rt
    <3> QED BY <3>1, <1>4
  <2> QED BY <2>1, <2>2, <1>1, AttemptCases
<1>7. Sound(act, out)
  BY <1>3, <1>6, RetoldSound
<1>8. act.kind # "event" /\ act # Command("Stop", c)
  BY DEF Opens, Command
<1>9. "cellular" \in AllowedLegs(onlyWifi) => ~onlyWifi
  BY DEF AllowedLegs
<1>10. Costly \subseteq Commands /\ "cellular" \in Legs
  BY DEF Costly, Commands, Legs
<1> HIDE DEF tried
<1>11. Priced(act, out, onlyWifi)
  <2>1. NeedsAdmission(act)
    BY DEF Opens, NeedsAdmission, Costly
  <2> QED BY <2>1, <1>3, <1>6, <1>9, <1>10 DEF Priced
<1> QED BY <1>7, <1>8, <1>11, PlacedOther DEF Carried

\* A route for a call nobody placed, which starts nothing.
LEMMA RingSound ==
  ASSUME NEW act, NEW out, act.call \in Calls, out.route \in Routes, Fits(out.to, act.call),
         route[act.call] = NoRoute, asked[act.call] = {}, ~Outgoing(act.call),
         out.route.owner # "none", out.route.rest = {}, ~out.route.start,
         \A k \in Legs : \A op, d : ~Has(out.to[k], op, d),
         "Answered" \notin out.told,
         \E k \in Legs : act = Event(k, "Incoming", act.call)
  PROVE  Sound(act, out)
<1>1. \A l \in Legs : route[act.call].owner # l
  BY DEF NoRoute, Legs
<1> QED BY <1>1 DEF Sound

\* route_event for an incoming call.
LEMMA IncomingCarried ==
  ASSUME TypeOK, SessionInv, NEW l \in Legs, NEW c \in Calls, Waits(c), Planned(c),
         NEW onlyWifi, Ready(Event(l, "Incoming", c))
  PROVE  Carried(Event(l, "Incoming", c), RouteIncoming(l, c, onlyWifi), onlyWifi)
<1> DEFINE act == Event(l, "Incoming", c)
           out == RouteIncoming(l, c, onlyWifi)
<1>1. /\ act.call = c /\ act.kind = "event" /\ act.op = "Incoming" /\ act.leg = l
      /\ act # Command("Stop", c) /\ \A k \in Legs : act = Event(k, "Incoming", c) => k = l
  BY DEF Event, Command
<1>2. route[c] = NoRoute /\ asked[c] = {} /\ ~Outgoing(c)
  BY <1>1 DEF Ready
<1>3. route[c].owner = "none"
  BY <1>2 DEF NoRoute
<1> SUFFICES Carried(act, out, onlyWifi)
  OBVIOUS
<1>4. CASE l \in RoutePlanForTrunk(onlyWifi)
  <2> DEFINE rt == [owner |-> l, gen |-> link[l].gen, rest |-> {}, start |-> FALSE,
                    mode |-> 0]
  <2>1. out = Outcome(rt, Nothing, {"Incoming"})
    BY <1>2, <1>4 DEF RouteIncoming
  <2>2. link[l].gen \in Nat
    BY DEF TypeOK
  <2>3. rt \in Routes /\ rt.owner = l /\ rt.rest = {} /\ ~rt.start /\ l # "none"
    BY <2>2 DEF Routes, Legs, Modes
  <2> HIDE DEF rt
  <2>4. out.route = rt /\ out.to = Nothing /\ out.told = {"Incoming"}
    BY <2>1, OutcomeParts
  <2>5. /\ Fits(out.to, c) /\ \A k \in Legs : \A op, d : ~Has(out.to[k], op, d)
        /\ \A k \in Legs : \A d : ~About(out.to[k], d)
    BY <2>4, NothingFacts
  <2>6. \E k \in Legs : act = Event(k, "Incoming", c)
    OBVIOUS
  <2>7. Placed(act, out) /\ Priced(act, out, onlyWifi)
    BY <2>3, <2>4, <1>1, CheapOut DEF Placed
  <2> HIDE DEF out, act
  <2>8. Sound(act, out)
    BY <2>3, <2>4, <2>5, <2>6, <1>1, <1>2, <1>3, RingSound
  <2> QED BY <2>7, <2>8, <1>1 DEF Carried
<1>5. CASE l \notin RoutePlanForTrunk(onlyWifi)
  <2>1. out = Outcome(NoRoute, Only(l, "Stop", c), {})
    BY <1>2, <1>5 DEF RouteIncoming
  <2>2. Sound(act, out) /\ Placed(act, out)
    BY <2>1, <1>1, <1>3, StopSound
  <2>3. "Stop" \in Commands \ Costly
    BY DEF Commands, Costly
  <2>4. Priced(act, out, onlyWifi)
    BY <2>1, <2>3, <1>1, OutcomeParts, CheapOut
  <2> QED BY <2>2, <2>4, <1>1 DEF Carried
<1> QED BY <1>4, <1>5

\* An outcome that only drops or shortens the route.
LEMMA ShortSound ==
  ASSUME NEW act, NEW out, act.call \in Calls, out.route \in Routes, out.to = Nothing,
         out.route.owner = route[act.call].owner, route[act.call] # NoRoute,
         out.route.owner # "none", out.route.rest = {}, ~out.route.start,
         "Incoming" \notin out.told, Outgoing(act.call)
  PROVE  Sound(act, out)
<1>1. /\ Fits(out.to, act.call) /\ \A l \in Legs : \A op, d : ~Has(out.to[l], op, d)
      /\ \A l \in Legs : \A d : ~About(out.to[l], d)
  BY NothingFacts
<1> QED BY <1>1 DEF Sound

\* route_event for every other event, the failover included.
LEMMA EventCarried ==
  ASSUME TypeOK, SessionInv, NEW l \in Legs, NEW c \in Calls, Waits(c), Planned(c),
         NEW op \in Events \ {"Incoming"}, NEW onlyWifi, NEW admitted,
         Ready(Event(l, op, c))
  PROVE  Carried(Event(l, op, c), RouteEvent(l, op, c, onlyWifi, admitted), onlyWifi)
<1> DEFINE act == Event(l, op, c)
           rt == route[c]
           out == RouteEvent(l, op, c, onlyWifi, admitted)
<1>1. /\ act.call = c /\ act.kind = "event" /\ act.op = op /\ act.leg = l
      /\ act # Command("Stop", c)
  BY DEF Event, Command
<1>2. (op \in Over => Dead(l, c)) /\ (op = "Answered" => Outgoing(c))
  BY <1>1 DEF Ready
<1>3. Placed(act, out)
  BY <1>1, PlacedOther
<1>4. rt.owner = l => rt # NoRoute
  BY DEF NoRoute, Legs
<1> SUFFICES Carried(act, out, onlyWifi)
  OBVIOUS
<1> HIDE DEF act
<1>5. CASE rt.owner # l
  <2>1. out = Outcome(rt, Nothing, {})
    BY <1>5 DEF RouteEvent, Stays
  <2>2. Sound(act, out)
    BY <2>1, <1>1, KeepSound
  <2>3. Priced(act, out, onlyWifi)
    BY <2>1, <1>1, OutcomeParts, CheapOut
  <2> QED BY <2>2, <2>3, <1>1, <1>3 DEF Carried
<1>6. CASE rt.owner = l /\ ~CurrentGeneration(c) /\ ~(op = "Unavailable" /\ rt.start)
  <2>1. out = Outcome(NoRoute, Nothing, {"Unavailable"})
    BY <1>6 DEF RouteEvent
  <2>2. DropReason(act, out) = "stale"
    BY <2>1, <1>1, <1>4, <1>6, OutcomeParts DEF DropReason
  <2>3. Sound(act, out)
    BY <2>1, <2>2, <1>1, DropSound
  <2>4. Priced(act, out, onlyWifi)
    BY <2>1, <1>1, OutcomeParts, CheapOut
  <2> QED BY <2>3, <2>4, <1>1, <1>3 DEF Carried
<1>7. CASE rt.owner = l /\ op = "Unavailable" /\ (CurrentGeneration(c) \/ rt.start)
  <2> DEFINE legs == IF admitted /\ rt.start THEN rt.rest ELSE {}
             eligible == RoutePlanForTrunk(onlyWifi)
  <2>1. out = Attempt(c, legs, eligible)
    BY <1>7 DEF RouteEvent, FailOver
  <2>2. Dead(l, c)
    BY <1>2, <1>7 DEF Over
  <2>3. CASE legs = {}
    <3>1. First(legs \cap eligible) = "none"
      BY <2>3 DEF First
    <3>2. out = Outcome(NoRoute, Nothing, {"Unavailable"})
      BY <2>1, <3>1 DEF Attempt
    <3>3. Sound(act, out)
      BY <3>2, <2>2, <1>1, <1>7, DropSound
    <3>4. Priced(act, out, onlyWifi)
      BY <3>2, <1>1, OutcomeParts, CheapOut
    <3> QED BY <3>3, <3>4, <1>1, <1>3 DEF Carried
  <2>4. CASE legs # {}
    <3>1. /\ rt.start /\ legs = rt.rest
      BY <2>4
    <3>2. /\ \A k \in legs : Clean(k, c) /\ k # l /\ k \in Legs
          /\ asked[c] \subseteq {"Start", "Stop"} /\ Outgoing(c)
          /\ heard[c] \in {"nothing", "over"}
      BY <3>1, <1>7, RouteFacts
    <3> HIDE DEF legs
    <3>3. \A k \in Legs \ legs : Dead(k, c)
      <4>1. Legs \ legs = {l}
        BY <2>4, <3>2 DEF Legs
      <4> QED BY <4>1, <2>2
    <3>4. /\ Sound(act, out)
          /\ \A k \in Legs, o \in Commands : Has(out.to[k], o, c) =>
               o = "Start" /\ k \in legs \cap eligible
      <4> DEFINE tried == Attempt(act.call, legs, eligible)
      <4>1. legs \in SUBSET Legs
        BY <3>2
      <4> HIDE DEF eligible
      <4>2. /\ Sound(act, tried)
            /\ \A k \in Legs, o \in Commands : Has(tried.to[k], o, act.call) =>
                 o = "Start" /\ k \in legs \cap eligible
        BY <4>1, <3>2, <3>3, <1>1, <1>4, <1>7, AttemptSound
      <4> QED BY <4>2, <2>1, <1>1
    <3>5. /\ Costly \subseteq Commands /\ "cellular" \in Legs
          /\ "cellular" \in eligible => ~onlyWifi
      BY DEF Costly, Commands, Legs, RoutePlanForTrunk
    <3> HIDE DEF eligible
    <3>6. Priced(act, out, onlyWifi)
      <4>1. NeedsAdmission(act)
        BY <1>1, <1>7 DEF NeedsAdmission
      <4> QED BY <4>1, <3>1, <3>4, <3>5, <1>1 DEF Priced
    <3> QED BY <3>4, <3>6, <1>1, <1>3 DEF Carried
  <2> QED BY <2>3, <2>4
<1>8. CASE /\ rt.owner = l /\ op # "Unavailable" /\ CurrentGeneration(c)
  <2>1. CASE op \in TerminalEvents
    <3>1. out = Outcome(NoRoute, Nothing, {op})
      BY <1>8, <2>1 DEF RouteEvent
    <3>2. Dead(l, c) \/ DropReason(act, out) # "no"
      <4>1. op \in Over \/ op = "ReinviteRejected"
        BY <2>1 DEF TerminalEvents, Over
      <4>2. CASE op = "ReinviteRejected"
        BY <4>2, <1>1, <1>8 DEF DropReason
      <4> QED BY <4>1, <4>2, <1>2
    <3>3. op \notin {"Incoming", "Answered"}
      BY <2>1 DEF TerminalEvents
    <3>4. Sound(act, out)
      BY <3>1, <3>2, <3>3, <1>1, <1>8, DropSound
    <3>5. Priced(act, out, onlyWifi)
      BY <3>1, <1>1, OutcomeParts, CheapOut
    <3> QED BY <3>4, <3>5, <1>1, <1>3 DEF Carried
  <2>2. CASE op = "Answered"
    <3> DEFINE short == [rt EXCEPT !.start = FALSE, !.rest = {}]
    <3>1. out = Outcome(short, Nothing, {op})
      BY <1>8, <2>2 DEF RouteEvent, TerminalEvents
    <3>2. rt \in Routes
      BY RouteFacts
    <3>3. short \in Routes /\ short.owner = rt.owner /\ short.rest = {} /\ ~short.start
      BY <3>2 DEF Routes
    <3> HIDE DEF short
    <3>4. out.route = short /\ out.to = Nothing /\ out.told = {op}
      BY <3>1, OutcomeParts
    <3>5. l # "none"
      BY DEF Legs
    <3> HIDE DEF out
    <3>6. Sound(act, out)
      BY <3>3, <3>4, <3>5, <2>2, <1>1, <1>2, <1>4, <1>8, ShortSound
    <3>7. Priced(act, out, onlyWifi)
      BY <3>4, <1>1, CheapOut
    <3> QED BY <3>6, <3>7, <1>1, <1>3 DEF Carried
  <2>3. CASE op \notin TerminalEvents /\ op # "Answered"
    <3>1. out = Outcome(rt, Nothing, {op})
      BY <1>8, <2>3 DEF RouteEvent
    <3>2. Sound(act, out)
      BY <3>1, <2>3, <1>1, KeepSound
    <3>3. Priced(act, out, onlyWifi)
      BY <3>1, <1>1, OutcomeParts, CheapOut
    <3> QED BY <3>2, <3>3, <1>1, <1>3 DEF Carried
  <2> QED BY <2>1, <2>2, <2>3
<1> QED BY <1>5, <1>6, <1>7, <1>8

\* The plans are sets of legs.
LEMMA PlanLegs ==
  ASSUME TypeOK
  PROVE  RoutePlan \in SUBSET Legs /\ \A l \in RoutePlan : HasConsumer(l)
BY DEF TypeOK, RoutePlan, IsAvailable

\* Whatever the action, its outcome is sound, placed and priced.
LEMMA RoutedCarried ==
  ASSUME TypeOK, SessionInv, NEW act, Waits(act.call), Planned(act.call), Ready(act),
         NEW onlyWifi, NEW admitted
  PROVE  Carried(act, Routed(act, onlyWifi, admitted), onlyWifi)
<1> DEFINE c == act.call
           out == Routed(act, onlyWifi, admitted)
<1>1. c \in Calls
  BY DEF Ready
<1>2. ASSUME act = Command("Start", c) PROVE Carried(act, out, onlyWifi)
  <2>1. Opens(act) /\ act.kind = "command" /\ act.op = "Start"
    BY <1>2 DEF Opens, Command
  <2>2. out = Attempt(c, RoutePlan, AllowedLegs(onlyWifi))
    BY <2>1 DEF Routed, RouteStart
  <2> QED BY <2>1, <2>2, PlanLegs, OpenCarried
<1>3. ASSUME NEW op \in Commands \ {"Start"}, act = Command(op, c), op \in asked[c]
      PROVE  Carried(act, out, onlyWifi)
  <2>1. act.kind = "command" /\ act.op = op
    BY <1>3 DEF Command
  <2>2. out = RouteControl(c, op, onlyWifi)
    BY <2>1 DEF Routed
  <2>3. Carried(Command(op, c), RouteControl(c, op, onlyWifi), onlyWifi)
    BY <1>1, <1>3, ControlCarried
  <2> QED BY <2>2, <2>3, <1>3
<1>4. ASSUME act = Request(c) PROVE Carried(act, out, onlyWifi)
  <2>1. Opens(act) /\ act.kind = "request"
    BY <1>4 DEF Opens, Request
  <2> DEFINE plan == IF admitted THEN RoutePlan ELSE {}
             eligible == AllowedLegs(onlyWifi) \cap api[c].offers
  <2>2. out = [Attempt(c, plan, eligible) EXCEPT !.told = {}]
    BY <2>1 DEF Routed, RouteCallPlan
  <2>3. plan \in SUBSET Legs /\ eligible \subseteq AllowedLegs(onlyWifi)
    BY PlanLegs
  <2> HIDE DEF plan, eligible
  <2> QED BY <2>1, <2>2, <2>3, OpenCarried
<1>5. ASSUME NEW l \in Legs, act = Event(l, "Incoming", c)
      PROVE  Carried(act, out, onlyWifi)
  <2>1. act.kind = "event" /\ act.op = "Incoming" /\ act.leg = l
    BY <1>5 DEF Event
  <2>2. out = RouteIncoming(l, c, onlyWifi)
    BY <2>1 DEF Routed
  <2>3. Carried(Event(l, "Incoming", c), RouteIncoming(l, c, onlyWifi), onlyWifi)
    BY <1>1, <1>5, IncomingCarried
  <2> QED BY <2>2, <2>3, <1>5
<1>6. ASSUME NEW l \in Legs, NEW op \in Events \ {"Incoming"}, act = Event(l, op, c)
      PROVE  Carried(act, out, onlyWifi)
  <2>1. act.kind = "event" /\ act.op = op /\ act.leg = l
    BY <1>6 DEF Event
  <2>2. out = RouteEvent(l, op, c, onlyWifi, admitted)
    BY <2>1 DEF Routed
  <2>3. Carried(Event(l, op, c), RouteEvent(l, op, c, onlyWifi, admitted), onlyWifi)
    BY <1>1, <1>6, EventCarried
  <2> QED BY <2>2, <2>3, <1>6
<1>7. \/ \E op \in Commands : act = Command(op, c) /\ op \in asked[c]
      \/ act = Request(c)
      \/ \E l \in Legs, op \in Events : act = Event(l, op, c)
  BY DEF Ready
<1> SUFFICES Carried(act, out, onlyWifi)
  OBVIOUS
<1> HIDE DEF out, c
<1> QED BY <1>2, <1>3, <1>4, <1>5, <1>6, <1>7

\* The mode a route is kept with changes nothing else.
LEMMA ModeCarried ==
  ASSUME NEW act, NEW out, NEW other, NEW onlyWifi, Carried(act, out, onlyWifi),
         other.to = out.to, other.told = out.told, other.route \in Routes,
         other.route.owner = out.route.owner, other.route.rest = out.route.rest,
         other.route.start = out.route.start,
         other.route = NoRoute <=> out.route = NoRoute
  PROVE  Carried(act, other, onlyWifi)
<1>1. DropReason(act, other) = DropReason(act, out)
  BY DEF DropReason
<1>2. Sound(act, other)
  BY <1>1 DEF Sound, Carried
<1> QED BY <1>2 DEF Carried, Placed, Priced

\* A call just started and stopped again.
LEMMA WithdrawnCarried ==
  ASSUME TypeOK, NEW act, Waits(act.call), Planned(act.call), Ready(act), act.kind = "request",
         NEW out, NEW onlyWifi, Carried(act, out, onlyWifi),
         out.route.owner \in Legs, HasConsumer(out.route.owner)
  PROVE  Carried(act, Withdrawn(out, act.call), onlyWifi)
<1> DEFINE c == act.call
           l == out.route.owner
           m == [op |-> "Stop", call |-> c]
           other == Withdrawn(out, c)
<1>1. /\ c \in Calls /\ route[c] = NoRoute /\ Outgoing(c)
      /\ act # Command("Stop", c)
  BY DEF Ready, Opens, Command
<1>2. /\ Fits(out.to, c) /\ out.to \in [Legs -> Seq(Messages)]
      /\ "Incoming" \notin out.told
  BY <1>1 DEF Carried, Sound, Fits
<1>3. m \in Messages /\ m.op = "Stop" /\ m.call = c
  BY <1>1 DEF Messages, Commands
<1>4. /\ other.route = NoRoute /\ other.told = out.told
      /\ other.to = [out.to EXCEPT ![l] = Append(@, m)]
  BY OutcomeParts DEF Withdrawn
<1> HIDE DEF m, other
<1>5. out.to[l] \in Seq(Messages) /\ <<m>> \in Seq(Messages)
  BY <1>2, <1>3
<1>6. /\ Append(out.to[l], m) = out.to[l] \o <<m>>
      /\ Append(out.to[l], m) \in Seq(Messages)
  BY <1>3, <1>5, AppendIsConcat, AppendProperties
<1>7. /\ \A o, d : Has(<<m>>, o, d) <=> "Stop" = o /\ c = d
      /\ \A d : About(<<m>>, d) <=> c = d
  BY <1>3, HasOne
<1>8. /\ \A o, d : Has(out.to[l] \o <<m>>, o, d) <=> Has(out.to[l], o, d) \/ ("Stop" = o /\ c = d)
      /\ \A d : About(out.to[l] \o <<m>>, d) <=> About(out.to[l], d) \/ c = d
      /\ Leads(out.to[l], "Start", c) => Leads(out.to[l] \o <<m>>, "Start", c)
  <2> DEFINE q == out.to[l]
             r == <<m>>
  <2>1. q \in Seq(Messages) /\ r \in Seq(Messages) /\ ~Has(r, "Start", c)
    BY <1>5, <1>7
  <2>2. /\ \A o, d : Has(r, o, d) <=> "Stop" = o /\ c = d
        /\ \A d : About(r, d) <=> c = d
    BY <1>7
  <2> HIDE DEF q, r
  <2>3. /\ \A o, d : Has(q \o r, o, d) <=> Has(q, o, d) \/ Has(r, o, d)
        /\ \A d : About(q \o r, d) <=> About(q, d) \/ About(r, d)
        /\ \A o, d : Leads(q, o, d) /\ ~Has(r, o, d) => Leads(q \o r, o, d)
    BY <2>1, CatFacts
  <2>4. /\ \A o, d : Has(q \o r, o, d) <=> Has(q, o, d) \/ ("Stop" = o /\ c = d)
        /\ \A d : About(q \o r, d) <=> About(q, d) \/ c = d
        /\ Leads(q, "Start", c) => Leads(q \o r, "Start", c)
    BY <2>1, <2>2, <2>3
  <2> QED BY <2>4 DEF q, r
<1>9. /\ other.to \in [Legs -> Seq(Messages)]
      /\ \A k \in Legs : k # l => other.to[k] = out.to[k]
      /\ other.to[l] = out.to[l] \o <<m>>
  BY <1>2, <1>4, <1>6
<1>10. Fits(other.to, c)
  BY <1>2, <1>8, <1>9 DEF Fits
<1>11. \A k \in Legs, o \in Commands : Has(other.to[k], o, c) => Has(out.to[k], o, c) \/ o = "Stop"
  <2>1. \A o \in Commands : Has(other.to[l], o, c) => Has(out.to[l], o, c) \/ o = "Stop"
    BY <1>8, <1>9
  <2> QED BY <2>1, <1>9
<1>12. /\ {"Start", "Renegotiate"} \cup Costly \subseteq Commands /\ "Stop" \notin Costly
       /\ Has(other.to[l], "Stop", c) /\ "cellular" \in Legs
  BY <1>8, <1>9 DEF Commands, Costly, Legs
<1>13. \A k \in Legs : Has(out.to[k], "Start", c) =>
         /\ Clean(k, c) /\ \A j \in Legs \ {k} : Dead(j, c) /\ ~Has(out.to[j], "Start", c)
         /\ k = l \/ Has(out.to[k], "Stop", c)
  BY DEF Carried, Sound
<1>14. \A k \in Legs : Has(out.to[k], "Stop", c) => Has(other.to[k], "Stop", c)
  BY <1>8, <1>9
<1>15. /\ NoRoute.rest = {} /\ ~NoRoute.start /\ NoRoute \in Routes
       /\ route[c].owner = "none" /\ \A k \in Legs : k # "none"
  BY <1>1, RouteFacts DEF Legs
<1>16. /\ \A k \in Legs : ~Has(out.to[k], "Renegotiate", c) \/ "Renegotiate" \in asked[c]
       /\ Opens(act)
  BY DEF Carried, Sound, Opens
<1>17. Sound(act, other)
  BY <1>1, <1>2, <1>4, <1>10, <1>11, <1>12, <1>13, <1>14, <1>15, <1>16 DEF Sound
<1>18. Priced(act, other, onlyWifi)
  BY <1>11, <1>12 DEF Carried, Priced
<1> QED BY <1>1, <1>17, <1>18, PlacedOther DEF Carried, other

\* So is what dispatch_cost_checked makes of it, in the mode it was given.
LEMMA DispatchCarried ==
  ASSUME TypeOK, SessionInv, NEW act, Waits(act.call), Planned(act.call), Ready(act),
         NEW mode \in Modes, NEW onlyWifi, NEW admitted, NEW vanishes,
         vanishes => act.kind = "request", NEW out,
         out = Dispatch(act, mode, onlyWifi, admitted, vanishes)
  PROVE  /\ Carried(act, out, onlyWifi)
         /\ out.route # NoRoute => out.route.mode = mode
<1> DEFINE routed == Routed(act, onlyWifi, admitted)
           kept == IF routed.route = NoRoute THEN NoRoute
                   ELSE [routed.route EXCEPT !.mode = mode]
<1>1. Carried(act, routed, onlyWifi)
  BY RoutedCarried
<1>2. /\ routed.route \in Routes /\ NoRoute \in Routes /\ NoRoute.owner = "none"
      /\ routed.route.owner = "none" => routed.route = NoRoute
  BY <1>1, RouteFacts DEF Carried, Sound, Ready
<1>3. out = IF vanishes /\ kept # NoRoute THEN Withdrawn(routed, act.call)
            ELSE Outcome(kept, routed.to, routed.told)
  BY DEF Dispatch
<1> HIDE DEF routed
<1>4. /\ kept \in Routes /\ kept.owner = routed.route.owner
      /\ kept.rest = routed.route.rest /\ kept.start = routed.route.start
      /\ kept # NoRoute => kept.mode = mode
  BY <1>2 DEF Routes
<1>5. kept = NoRoute <=> routed.route = NoRoute
  BY <1>2, <1>4
<1> HIDE DEF kept
<1>6. CASE vanishes /\ kept # NoRoute
  <2>1. out = Withdrawn(routed, act.call) /\ out.route = NoRoute
    BY <1>3, <1>6, OutcomeParts DEF Withdrawn
  <2>2. HasConsumer(routed.route.owner) /\ routed.route.owner \in Legs
    <3> DEFINE c == act.call
               plan == IF admitted THEN RoutePlan ELSE {}
               eligible == AllowedLegs(onlyWifi) \cap api[c].offers
               tried == Attempt(c, plan, eligible)
    <3>1. routed = [tried EXCEPT !.told = {}]
      BY <1>6 DEF routed, Routed, RouteCallPlan
    <3>2. plan \in SUBSET Legs /\ (\A l \in plan : HasConsumer(l)) /\ c \in Calls
      BY PlanLegs DEF Ready
    <3> HIDE DEF plan, eligible
    <3>3. CASE tried = Outcome(NoRoute, Nothing, {"Unavailable"})
      <4>1. routed.route = NoRoute
        BY <3>1, <3>3 DEF Outcome
      <4> QED BY <4>1, <1>5, <1>6
    <3>4. ASSUME NEW l \in plan \cap eligible,
                 tried = Outcome([owner |-> l, gen |-> link[l].gen,
                                  rest |-> plan \cap After(l), start |-> TRUE,
                                  mode |-> route[c].mode], Only(l, "Start", c), {})
          PROVE  HasConsumer(routed.route.owner) /\ routed.route.owner \in Legs
      <4>1. routed.route.owner = l
        BY <3>1, <3>4 DEF Outcome
      <4> QED BY <4>1, <3>2
    <3> HIDE DEF tried
    <3> QED BY <3>2, <3>3, <3>4, AttemptCases DEF tried
  <2>3. Carried(act, Withdrawn(routed, act.call), onlyWifi)
    BY <2>2, <1>1, <1>6, WithdrawnCarried
  <2> QED BY <2>1, <2>3
<1>7. CASE ~(vanishes /\ kept # NoRoute)
  <2>1. out.route = kept /\ out.to = routed.to /\ out.told = routed.told
    BY <1>3, <1>7, OutcomeParts
  <2>2. Carried(act, out, onlyWifi)
    BY <2>1, <1>1, <1>4, <1>5, ModeCarried
  <2> QED BY <2>1, <2>2, <1>4
<1> QED BY <1>6, <1>7

\* What an action that waited in vain leaves: at most a stop for its leg.
LEMMA RejectSound ==
  ASSUME TypeOK, SessionInv, NEW act, Waits(act.call), Planned(act.call), Ready(act),
         NeedsAdmission(act),
         \A l \in Legs : act = Event(l, "Unavailable", act.call) =>
           route[act.call].owner \in {"none", l},
         NEW out, out = RejectCostChecked(act)
  PROVE  /\ Sound(act, out) /\ Placed(act, out)
         /\ out.route = route[act.call] \/ out.route = NoRoute
         /\ act.kind = "request" => out.route = NoRoute
         /\ out.route # NoRoute => act = Command("Transfer", act.call)
         /\ "Answered" \notin out.told /\ "Incoming" \notin out.told
         /\ \A l \in Legs, op \in Commands : Has(out.to[l], op, act.call) => op = "Stop"
         /\ \A l \in Legs : out.to[l] # <<>> => Has(out.to[l], "Stop", act.call)
         /\ \A l \in Legs : route[act.call].owner = l =>
              out.route = route[act.call] \/ Dead(l, act.call) \/ Has(out.to[l], "Stop", act.call)
<1> DEFINE c == act.call
           Goal == /\ Sound(act, out) /\ Placed(act, out)
                   /\ out.route = route[c] \/ out.route = NoRoute
                   /\ act.kind = "request" => out.route = NoRoute
                   /\ out.route # NoRoute => act = Command("Transfer", c)
                   /\ "Answered" \notin out.told /\ "Incoming" \notin out.told
                   /\ \A l \in Legs, op \in Commands : Has(out.to[l], op, c) => op = "Stop"
                   /\ \A l \in Legs : out.to[l] # <<>> => Has(out.to[l], "Stop", c)
                   /\ \A l \in Legs : route[c].owner = l =>
                        out.route = route[c] \/ Dead(l, c) \/ Has(out.to[l], "Stop", c)
<1>1. /\ c \in Calls /\ (route[c].owner = "none" <=> route[c] = NoRoute)
      /\ route[c].owner \in Legs \cup {"none"} /\ "Stop" \in Commands
  BY RouteFacts DEF Ready, Commands
<1>2. ASSUME NEW told, out = Outcome(NoRoute, Nothing, told), told \in {{}, {"Unavailable"}},
             \A l \in Legs : act # Event(l, "Incoming", c),
             \A l \in Legs : route[c].owner = l => Dead(l, c)
      PROVE  Goal
  <2>1. Sound(act, out)
    BY <1>1, <1>2, DropSound
  <2>2. out.route = NoRoute /\ out.to = Nothing /\ out.told = told
    BY <1>2, OutcomeParts
  <2>3. Placed(act, out)
    BY <1>2 DEF Placed
  <2> QED BY <2>1, <2>2, <2>3, <1>2, NothingFacts
<1>3. ASSUME NEW told, NEW l \in Legs, out = Outcome(NoRoute, Only(l, "Stop", c), told),
             told \in {{}, {"Unavailable"}}, route[c].owner \in {"none", l},
             \A k \in Legs : act = Event(k, "Incoming", c) => k = l
      PROVE  Goal
  <2>1. Sound(act, out) /\ (Placed(act, out) \/ act # Event(l, "Incoming", c))
    BY <1>1, <1>3, StopSound
  <2>2. out.route = NoRoute /\ out.to = Only(l, "Stop", c) /\ out.told = told
    BY <1>3, OutcomeParts
  <2>3. Placed(act, out)
    BY <2>1, <1>3 DEF Placed
  <2>4. /\ \A k \in Legs, op \in Commands : Has(out.to[k], op, c) => op = "Stop"
        /\ HasConsumer(l) => Has(out.to[l], "Stop", c)
    BY <2>2, <1>1, OnlyOut
  <2>5. \A k \in Legs : out.to[k] # <<>> => k = l /\ HasConsumer(l)
    BY <2>2 DEF Only, Nothing
  <2>6. \A k \in Legs : route[c].owner = k => Dead(k, c) \/ Has(out.to[k], "Stop", c)
    BY <2>4, <1>1, <1>3, OffDead DEF Legs
  <2> QED BY <2>1, <2>2, <2>3, <2>4, <2>5, <2>6, <1>3
<1>4. CASE act = Request(c)
  <2>1. route[c] = NoRoute /\ act.kind = "request"
    BY <1>4 DEF Ready, Opens, Request
  <2>2. out = Outcome(NoRoute, Nothing, {})
    BY <2>1 DEF RejectCostChecked, Stays
  <2>3. \A l \in Legs : act # Event(l, "Incoming", c) /\ route[c].owner # l
    BY <2>1 DEF Event, NoRoute, Legs
  <2> QED BY <2>2, <2>3, <1>2
<1>5. CASE act = Command("Start", c)
  <2>1. route[c] = NoRoute /\ act.kind = "command" /\ act.op = "Start"
    BY <1>5 DEF Ready, Opens, Command
  <2>2. out = Outcome(NoRoute, Nothing, {"Unavailable"})
    BY <2>1 DEF RejectCostChecked
  <2>3. \A l \in Legs : act # Event(l, "Incoming", c) /\ route[c].owner # l
    BY <2>1 DEF Event, NoRoute, Legs
  <2> QED BY <2>2, <2>3, <1>2
<1>6. CASE act = Command("Transfer", c)
  <2>1. act.kind = "command" /\ act.op = "Transfer"
    BY <1>6 DEF Command
  <2>2. out = Outcome(route[c], Nothing, Refusal("Transfer"))
    BY <2>1 DEF RejectCostChecked
  <2>3. "Answered" \notin Refusal("Transfer") /\ "Incoming" \notin Refusal("Transfer")
    BY DEF Refusal
  <2>4. out.route = route[c] /\ out.to = Nothing /\ out.told = Refusal("Transfer")
    BY <2>2, OutcomeParts
  <2>5. Sound(act, out) /\ Placed(act, out)
    BY <2>1, <2>2, <2>3, <1>1, KeepSound, PlacedOther
  <2> QED BY <2>1, <2>3, <2>4, <2>5, <1>6, NothingFacts
<1>7. CASE act = Command("Accept", c)
  <2>1. act.kind = "command" /\ act.op = "Accept"
    BY <1>7 DEF Command
  <2>2. out = Outcome(NoRoute, IF route[c] = NoRoute THEN Nothing
                               ELSE Only(route[c].owner, "Stop", c), {"Unavailable"})
    BY <2>1 DEF RejectCostChecked
  <2>3. \A l \in Legs : act # Event(l, "Incoming", c)
    BY <2>1 DEF Event
  <2>4. CASE route[c] = NoRoute
    BY <2>2, <2>3, <2>4, <1>1, <1>2 DEF Legs
  <2>5. CASE route[c] # NoRoute
    BY <2>2, <2>3, <2>5, <1>1, <1>3
  <2> QED BY <2>4, <2>5
<1>8. ASSUME NEW l \in Legs, act = Event(l, "Incoming", c) PROVE Goal
  <2>1. act.kind = "event" /\ act.op = "Incoming" /\ act.leg = l
    BY <1>8 DEF Event
  <2>2. route[c] = NoRoute
    BY <1>8 DEF Ready
  <2>3. out = Outcome(NoRoute, Only(l, "Stop", c), {})
    BY <2>1, <2>2 DEF RejectCostChecked
  <2>4. \A k \in Legs : act = Event(k, "Incoming", c) => k = l
    BY <2>1 DEF Event
  <2> QED BY <2>2, <2>3, <2>4, <1>1, <1>3
<1>9. ASSUME NEW l \in Legs, act = Event(l, "Unavailable", c) PROVE Goal
  <2>1. act.kind = "event" /\ act.op = "Unavailable"
    BY <1>9 DEF Event
  <2>2. out = Outcome(NoRoute, Nothing, {"Unavailable"})
    BY <2>1 DEF RejectCostChecked
  <2>3. Dead(l, c)
    BY <1>9 DEF Ready, Over
  <2>4. \A k \in Legs : act # Event(k, "Incoming", c)
    BY <2>1 DEF Event
  <2>5. \A k \in Legs : route[c].owner = k => Dead(k, c)
    BY <2>3, <1>9 DEF Legs
  <2> QED BY <2>2, <2>4, <2>5, <1>2
<1>10. \/ act = Request(c) \/ act = Command("Start", c) \/ act = Command("Transfer", c)
       \/ act = Command("Accept", c)
       \/ \E l \in Legs : act = Event(l, "Incoming", c) \/ act = Event(l, "Unavailable", c)
  BY DEF Ready, NeedsAdmission, Command, Event, Request, Costly
<1> QED BY <1>4, <1>5, <1>6, <1>7, <1>8, <1>9, <1>10

\* What an action that is not carried out leaves.
LEMMA IgnoredSound ==
  ASSUME TypeOK, NEW act, Waits(act.call), Planned(act.call), Ready(act),
         \A l \in Legs : act # Event(l, "Incoming", act.call),
         NEW out, out = IgnoredOutcome(act)
  PROVE  /\ Sound(act, out) /\ out.to = Nothing
         /\ out.route = route[act.call] \/ out.route = NoRoute
         /\ ~(Lost(act) /\ ~Foreign(act)) => out = Stays(act.call)
         /\ Lost(act) /\ ~Foreign(act) => out.route = NoRoute
         /\ "Answered" \notin out.told /\ "Incoming" \notin out.told
<1> DEFINE c == act.call
<1>1. c \in Calls /\ (route[c].owner = "none" <=> route[c] = NoRoute)
  BY RouteFacts DEF Ready
<1>2. ~(Foreign(act) /\ act.op = "Incoming")
  <2>1. act.kind = "event" => \E l \in Legs, op \in Events : act = Event(l, op, c)
    BY DEF Ready, Command, Request
  <2> QED BY <2>1 DEF Foreign, Event
<1>3. CASE ~Foreign(act) /\ Lost(act) /\ route[c] # NoRoute
  <2>1. out = Outcome(NoRoute, Nothing, {"Unavailable"})
    BY <1>2, <1>3 DEF IgnoredOutcome
  <2>2. PICK l \in Legs : act = Event(l, "Unavailable", c)
    BY <1>3 DEF Ready, Lost, Command, Request, Event
  <2>3. Dead(l, c) /\ act.leg = l /\ act.kind = "event"
    BY <2>2 DEF Ready, Over, Event
  <2>4. route[c].owner = l
    BY <2>3, <1>1, <1>3 DEF Foreign, Owner
  <2>5. Sound(act, out)
    BY <2>1, <2>3, <2>4, <1>1, DropSound
  <2> QED BY <2>1, <2>5, <1>3, OutcomeParts
<1>4. CASE ~(~Foreign(act) /\ Lost(act) /\ route[c] # NoRoute)
  <2>1. out = Outcome(route[c], Nothing, {})
    BY <1>2, <1>4 DEF IgnoredOutcome, Stays
  <2>2. Sound(act, out)
    BY <2>1, <1>1, KeepSound
  <2> QED BY <2>1, <2>2, <1>4, OutcomeParts DEF Stays
<1> QED BY <1>3, <1>4

-----------------------------------------------------------------------------
(* Calls that a step is not about.                                         *)

Notices == [op : Events, call : Calls]

\* A queue has lost messages about a call, or none.
Fewer(q, r, c) ==
  /\ \A op : Has(r, op, c) => Has(q, op, c)
  /\ About(r, c) => About(q, c)
  /\ \A op : Leads(q, op, c) => Leads(r, op, c)

\* A queue has the same messages about a call.
Alike(q, r, c) ==
  /\ \A op : Has(r, op, c) <=> Has(q, op, c)
  /\ About(r, c) <=> About(q, c)
  /\ \A op : Leads(q, op, c) => Leads(r, op, c)

Frame(c) ==
  /\ route'[c] = route[c] /\ pending'[c] = pending[c] /\ met'[c] = met[c]
  /\ stopped'[c] = stopped[c] /\ heard'[c] = heard[c] /\ dropped'[c] = dropped[c]
  /\ asked'[c] = asked[c] /\ (c \in used' <=> c \in used)
  /\ api'[c].st = "none" <=> api[c].st = "none"
  /\ api'[c].st = "queued" => api[c].st = "queued"
  /\ Fewer(cmds, cmds', c) /\ (TransferLast(cmds, c) => TransferLast(cmds', c))
  /\ \A l \in Legs :
       /\ leg'[l][c] = leg[l][c] /\ Alike(toLeg[l], toLeg'[l], c)
       /\ Fewer(evs[l], evs'[l], c)
       /\ Has(evs[l], "Incoming", c) => Has(evs'[l], "Incoming", c)

\* What a step about another call leaves of this one.
LEMMA FrameFacts ==
  ASSUME NEW c \in Calls, Frame(c)
  PROVE  /\ Untouched(c)' <=> Untouched(c)
         /\ Outgoing(c)' <=> Outgoing(c)
         /\ Owner(c)' = Owner(c)
         /\ Spent(c) => Spent(c)'
         /\ \A l \in Legs :
              /\ Clean(l, c) => Clean(l, c)'
              /\ Dead(l, c)' <=> Dead(l, c)
              /\ Arriving(l, c)' => Arriving(l, c)
<1>1. (Untouched(c)' <=> Untouched(c)) /\ (Outgoing(c)' <=> Outgoing(c))
  BY DEF Frame, Untouched, Outgoing
<1>2. Owner(c)' = Owner(c) /\ (Spent(c) => Spent(c)')
  BY DEF Frame, Owner, Spent, Fewer
<1>3. ASSUME NEW l \in Legs
      PROVE  /\ Clean(l, c) => Clean(l, c)'
             /\ Dead(l, c)' <=> Dead(l, c)
             /\ Arriving(l, c)' => Arriving(l, c)
  BY DEF Frame, Clean, Dead, Arriving, Fewer, Alike
<1> QED BY <1>1, <1>2, <1>3

\* The invariant of a call is kept by a step about another one.
LEMMA FrameInv ==
  ASSUME NEW c \in Calls, Frame(c), CallInv(c), TypeOK
  PROVE  CallInv(c)'
<1> USE FrameFacts
<1>1. Waits(c)' /\ Ended(c)' /\ HeldStart(c)'
  BY DEF CallInv, Frame, Waits, Ended, HeldStart
<1>2. Unused(c)' /\ Starts(c)' /\ Requested(c)'
  BY DEF CallInv, Frame, Fewer, Unused, Starts, Requested
<1>3. Rings(c)'
  BY DEF CallInv, Frame, Fewer, Alike, Rings
<1>4. OneWay(c)'
  BY DEF CallInv, Frame, Fewer, Alike, OneWay
<1>5. Planned(c)' /\ StartsOnce(c)' /\ OnOneLeg(c)'
  <2>1. route[c].rest \subseteq Legs
    BY DEF TypeOK, Routes
  <2>2. Planned(c)'
    BY <2>1 DEF CallInv, Frame, Planned
  <2>3. StartsOnce(c)'
    BY DEF CallInv, Frame, Fewer, Alike, StartsOnce
  <2>4. OnOneLeg(c)'
    BY DEF CallInv, OnOneLeg, Legs
  <2> QED BY <2>2, <2>3, <2>4
<1>6. Given(c)'
  BY DEF CallInv, Frame, Fewer, Given
<1>7. Reached(c)'
  BY DEF CallInv, Frame, Alike, Reached
<1>8. Ratchet(c)'
  BY DEF CallInv, Frame, Fewer, Ratchet
<1> QED BY <1>1, <1>2, <1>3, <1>4, <1>5, <1>6, <1>7, <1>8 DEF CallInv

-----------------------------------------------------------------------------
(* The call that a turn of the router is about.                            *)

\* The queue s is q followed by r, as far as one call can tell.
Joined(q, r, s, c) ==
  /\ \A op \in Commands : Has(s, op, c) <=> Has(q, op, c) \/ Has(r, op, c)
  /\ About(s, c) <=> About(q, c) \/ About(r, c)
  /\ Leads(q, "Start", c) /\ ~Has(r, "Start", c) => Leads(s, "Start", c)
  /\ ~About(q, c) /\ Leads(r, "Start", c) => Leads(s, "Start", c)

\* An outcome has been carried out, and the action that led to it is gone.
Taken(act, out) ==
  LET c == act.call
  IN  /\ c \in used /\ used' = used /\ asked'[c] = asked[c]
      /\ route'[c] = out.route /\ heard'[c] = Hears(heard[c], out.told)
      /\ dropped'[c] = "no" => dropped[c] = "no"
      /\ \A l \in Legs : route[c].owner = l =>
           \/ out.route.owner = l \/ Dead(l, c) \/ Has(out.to[l], "Stop", c)
           \/ dropped'[c] # "no"
      /\ api'[c].st # "queued" /\ (api'[c].st = "none" <=> api[c].st = "none")
      /\ ~Has(cmds', "Start", c) /\ Fewer(cmds, cmds', c)
      /\ TransferLast(cmds, c) => TransferLast(cmds', c)
      /\ \A l \in Legs :
           /\ leg'[l][c] = leg[l][c] /\ Joined(toLeg[l], out.to[l], toLeg'[l], c)
           /\ Fewer(evs[l], evs'[l], c) /\ ~Has(evs'[l], "Incoming", c)

\* What the trunk side can have heard.
LEMMA HearsFacts ==
  ASSUME NEW before, NEW told
  PROVE  /\ Hears(before, told) = "Incoming" => "Incoming" \in told \/ before = "Incoming"
         /\ Hears(before, told) = "Answered" => "Answered" \in told \/ before = "Answered"
         /\ "Answered" \notin told /\ "Incoming" \notin told =>
              Hears(before, told) \in {before, "over"}
         /\ before \in {"Answered", "over"} /\ "Incoming" \notin told =>
              Hears(before, told) \in {"Answered", "over"}
         /\ Hears(before, {}) = before
         /\ Hears(before, told) \in {before, "Incoming", "Answered", "over"}
BY DEF Hears

\* What an outcome that was carried out leaves of its call.
LEMMA TakenFacts ==
  ASSUME TypeOK, NEW act, NEW out, act.call \in Calls, Taken(act, out), Sound(act, out),
         StartsOnce(act.call)
  PROVE  LET c == act.call
         IN  /\ Outgoing(c)' <=> Outgoing(c)
             /\ Spent(c) => Spent(c)'
             /\ \A l \in Legs :
                  /\ Dead(l, c)' <=> Dead(l, c) /\ ~Has(out.to[l], "Start", c)
                  /\ Clean(l, c) /\ ~About(out.to[l], c) => Clean(l, c)'
                  /\ ~Has(out.to[l], "Start", c) \/ Clean(l, c)
<1> DEFINE c == act.call
<1>1. Outgoing(c)' <=> Outgoing(c)
  BY DEF Taken, Outgoing
<1>2. Spent(c) => Spent(c)'
  BY DEF Taken, Spent, Fewer
<1>3. ASSUME NEW l \in Legs
      PROVE  /\ Dead(l, c)' <=> Dead(l, c) /\ ~Has(out.to[l], "Start", c)
             /\ Clean(l, c) /\ ~About(out.to[l], c) => Clean(l, c)'
  BY DEF Taken, Joined, Commands, Dead, Clean, Fewer
<1>4. \A l \in Legs : ~Has(out.to[l], "Start", c) \/ Clean(l, c)
  BY DEF Sound
<1> QED BY <1>1, <1>2, <1>3, <1>4

\* The parts of the invariant in which no admission is named.
LEMMA TakenKeeps ==
  ASSUME TypeOK, NEW act, NEW out, act.call \in Calls, CallInv(act.call),
         Sound(act, out), Taken(act, out)
  PROVE  LET c == act.call
         IN  /\ Unused(c)' /\ Starts(c)' /\ Requested(c)' /\ OneWay(c)' /\ Planned(c)'
             /\ StartsOnce(c)' /\ OnOneLeg(c)'
             /\ TransferLast(cmds, c)'
             /\ ("Transfer" \in asked[c] =>
                   "Accept" \in asked[c] \/ heard[c] \in {"Answered", "over"})'
<1> DEFINE c == act.call
<1>0. StartsOnce(c)
  BY DEF CallInv
<1>1. /\ Outgoing(c)' <=> Outgoing(c)
      /\ \A l \in Legs :
           /\ Dead(l, c)' <=> Dead(l, c) /\ ~Has(out.to[l], "Start", c)
           /\ Clean(l, c) /\ ~About(out.to[l], c) => Clean(l, c)'
           /\ ~Has(out.to[l], "Start", c) \/ Clean(l, c)
  BY <1>0, TakenFacts
<1>2. Unused(c)' /\ Starts(c)' /\ Requested(c)'
  BY DEF CallInv, Taken, Fewer, Unused, Starts, Requested
<1>3. OneWay(c)'
  <2>1. \A op \in Commands : Has(cmds', op, c) => op \in asked'[c]
    BY DEF CallInv, OneWay, Taken, Fewer
  <2>2. heard'[c] = "Incoming" \/ "Accept" \in asked'[c] => ~Outgoing(c)'
    BY <1>1, HearsFacts DEF CallInv, OneWay, Taken, Sound
  <2>3. heard'[c] = "Answered" \/ "Renegotiate" \in asked'[c] => Outgoing(c)'
    BY <1>1, HearsFacts DEF CallInv, OneWay, Taken, Sound
  <2>4. ASSUME NEW l \in Legs,
               \/ leg'[l][c].st = "calling" \/ leg'[l][c].reinvite
               \/ Has(toLeg'[l], "Start", c) \/ Has(toLeg'[l], "Renegotiate", c)
               \/ Has(evs'[l], "Answered", c)
        PROVE  Outgoing(c)'
    <3>1. /\ leg'[l][c] = leg[l][c] /\ (Has(evs'[l], "Answered", c) => Has(evs[l], "Answered", c))
          /\ \A op \in {"Start", "Renegotiate"} : Has(toLeg'[l], op, c) =>
               Has(toLeg[l], op, c) \/ Has(out.to[l], op, c)
      BY DEF Taken, Joined, Fewer, Commands
    <3>2. /\ Has(out.to[l], "Start", c) => Outgoing(c)
          /\ Has(out.to[l], "Renegotiate", c) => "Renegotiate" \in asked[c]
      BY DEF Sound
    <3> QED BY <3>1, <3>2, <2>4, <1>1 DEF CallInv, OneWay
  <2> QED BY <2>1, <2>2, <2>3, <2>4 DEF OneWay
<1>4. Planned(c)'
  <2>1. \A l \in out.route.rest : Clean(l, c) /\ l # out.route.owner /\ ~About(out.to[l], c)
                                    /\ l \in Legs
    BY DEF Sound, Routes
  <2>2. out.route.start => /\ asked'[c] \subseteq {"Start", "Stop"}
                           /\ heard'[c] \in {"nothing", "over"} /\ Outgoing(c)'
    BY <1>1, HearsFacts DEF Sound, Taken
  <2>3. route'[c] = out.route
    BY DEF Taken
  <2> QED BY <2>1, <2>2, <2>3, <1>1 DEF Planned
<1>5. StartsOnce(c)'
  <2> SUFFICES ASSUME NEW l \in Legs
               PROVE  /\ Leads(toLeg'[l], "Start", c)
                      /\ Has(toLeg'[l], "Start", c) => leg'[l][c] = NoCall /\ ~About(evs'[l], c)
    BY DEF StartsOnce
  <2>1. /\ Joined(toLeg[l], out.to[l], toLeg'[l], c) /\ leg'[l][c] = leg[l][c]
        /\ Fewer(evs[l], evs'[l], c)
    BY DEF Taken
  <2>2. Leads(toLeg[l], "Start", c) /\ Leads(out.to[l], "Start", c)
    BY <1>0 DEF StartsOnce, Sound, Fits
  <2>3. Leads(toLeg'[l], "Start", c)
    BY <2>1, <2>2, <1>1 DEF Joined, Clean
  <2>4. Has(toLeg'[l], "Start", c) => Has(toLeg[l], "Start", c) \/ Clean(l, c)
    BY <2>1, <1>1 DEF Joined, Commands
  <2> QED BY <2>1, <2>3, <2>4, <1>0 DEF StartsOnce, Clean, Fewer
<1>6. OnOneLeg(c)'
  <2>1. \A l \in Legs : Has(out.to[l], "Start", c) =>
          \A k \in Legs \ {l} : Dead(k, c) /\ ~Has(out.to[k], "Start", c)
    BY DEF Sound
  <2> QED BY <2>1, <1>1 DEF CallInv, OnOneLeg, Legs
<1>7. TransferLast(cmds', c)
  BY DEF CallInv, Ratchet, Taken
<1>8. "Transfer" \in asked'[c] =>
        "Accept" \in asked'[c] \/ heard'[c] \in {"Answered", "over"}
  BY HearsFacts DEF CallInv, Ratchet, Taken, Sound
<1> QED BY <1>2, <1>3, <1>4, <1>5, <1>6, <1>7, <1>8

\* The turn leaves no admission waiting for the call.
LEMMA TakenEnds ==
  ASSUME TypeOK, NEW act, NEW out, act.call \in Calls, CallInv(act.call),
         Sound(act, out), Taken(act, out),
         pending'[act.call] = NoPending,
         \A l \in Legs : Arriving(l, act.call) =>
           out.route.owner = l \/ Dead(l, act.call) \/ Has(out.to[l], "Stop", act.call),
         out.route # NoRoute =>
           /\ 1 \in met'[act.call] => out.route.mode = 1
           /\ 2 \in met'[act.call] /\ out.route.mode = 0 => Spent(act.call)',
         stopped'[act.call] => out.route = NoRoute
  PROVE  CallInv(act.call)'
<1> DEFINE c == act.call
<1>0. StartsOnce(c) /\ route'[c] = out.route /\ "Start" \in Commands /\ "Stop" \in Commands
  BY DEF CallInv, Taken, Commands
<1>1. /\ Unused(c)' /\ Starts(c)' /\ Requested(c)' /\ OneWay(c)' /\ Planned(c)'
      /\ StartsOnce(c)' /\ OnOneLeg(c)' /\ TransferLast(cmds', c)
      /\ "Transfer" \in asked'[c] =>
           "Accept" \in asked'[c] \/ heard'[c] \in {"Answered", "over"}
  BY TakenKeeps
<1>2. /\ Spent(c) => Spent(c)'
      /\ \A l \in Legs :
           /\ Dead(l, c)' <=> Dead(l, c) /\ ~Has(out.to[l], "Start", c)
           /\ ~Has(out.to[l], "Start", c) \/ Clean(l, c)
  BY <1>0, TakenFacts
<1>3. Waits(c)' /\ HeldStart(c)' /\ Ended(c)'
  BY <1>0 DEF Waits, HeldStart, Ended, Sound
<1>4. Rings(c)'
  BY DEF CallInv, Rings, Arriving, Taken, Fewer
<1>5. Given(c)'
  <2>1. \A l \in Legs, op \in Events : Has(evs'[l], op, c) => Has(evs[l], op, c) /\ About(evs[l], c)
    BY HasAbout DEF Taken, Fewer
  <2>2. \A l \in Legs, op \in Over : Has(evs'[l], op, c) => Dead(l, c)'
    BY <2>1, <1>2 DEF CallInv, Given, Clean, Over, Events
  <2>3. \A l \in Legs : Has(evs'[l], "Unavailable", c) => ~Has(evs'[l], "Answered", c)
    BY <2>1 DEF CallInv, Given, Events
  <2> QED BY <2>2, <2>3 DEF Given
<1>6. Reached(c)'
  <2> SUFFICES ASSUME dropped'[c] = "no", NEW l \in Legs
               PROVE  Dead(l, c)' \/ Has(toLeg'[l], "Stop", c) \/ out.route.owner = l
    <3>1. \A l \in Legs : out.route.owner = l => Owner(c)' = l
      BY <1>0 DEF Owner, NoRoute, Legs
    <3> QED BY <3>1 DEF Reached
  <2>1. dropped[c] = "no"
    BY DEF Taken
  <2>2. /\ Has(toLeg[l], "Stop", c) => Has(toLeg'[l], "Stop", c)
        /\ Has(out.to[l], "Stop", c) => Has(toLeg'[l], "Stop", c)
    BY <1>0 DEF Taken, Joined
  <2>3. CASE Dead(l, c)
    BY <2>2, <2>3, <1>2 DEF Sound
  <2>4. CASE route[c].owner = l
    BY <2>2, <2>3, <2>4 DEF Taken
  <2>5. CASE Arriving(l, c)
    BY <2>2, <2>3, <2>5
  <2>6. CASE Owner(c) = l /\ route[c] = NoRoute
    <3>1. pending[c].owner = l /\ pending[c] # NoPending
      BY <2>6 DEF Owner, NoPending, Legs
    <3>2. CASE Opens(pending[c].act)
      <4>1. Clean(l, c)
        BY <3>1, <3>2 DEF CallInv, HeldStart
      <4> QED BY <4>1, <2>3, CleanDead
    <3>3. ASSUME NEW k \in Legs, pending[c].act = Event(k, "Incoming", c), pending[c].owner = k
          PROVE  Arriving(l, c)
      BY <3>1, <3>3 DEF Arriving
    <3> QED BY <3>1, <3>2, <3>3, <2>1, <2>5, <2>6 DEF CallInv, Reached
  <2>7. \/ Dead(l, c) \/ Has(toLeg[l], "Stop", c) \/ Owner(c) = l
        \/ Has(evs[l], "Incoming", c)
    BY <2>1 DEF CallInv, Reached
  <2>8. Owner(c) = l => route[c].owner = l \/ route[c] = NoRoute
    BY DEF Owner
  <2> QED BY <2>2, <2>3, <2>4, <2>5, <2>6, <2>7, <2>8 DEF Arriving
<1>7. Ratchet(c)'
  BY <1>0, <1>1 DEF Ratchet
<1> QED BY <1>1, <1>3, <1>4, <1>5, <1>6, <1>7 DEF CallInv

\* An admission waits on while the turn does something else for its call.
LEMMA TakenWaits ==
  ASSUME TypeOK, NEW act, NEW out, act.call \in Calls, CallInv(act.call),
         Sound(act, out), Taken(act, out),
         pending[act.call] # NoPending, pending'[act.call] = pending[act.call],
         met'[act.call] = met[act.call], stopped'[act.call] = stopped[act.call],
         out.route.owner \in {"none", route[act.call].owner},
         \A l \in Legs : ~Has(out.to[l], "Start", act.call),
         route[act.call] # NoRoute /\ out.route = NoRoute => dropped'[act.call] # "no",
         \/ out = Stays(act.call)
         \/ /\ ~Opens(pending[act.call].act)
            /\ \A l \in Legs : pending[act.call].act # Event(l, "Incoming", act.call)
  PROVE  CallInv(act.call)'
<1> DEFINE c == act.call
<1>0. StartsOnce(c) /\ route'[c] = out.route /\ "Start" \in Commands /\ "Stop" \in Commands
  BY DEF CallInv, Taken, Commands
<1>1. /\ Unused(c)' /\ Starts(c)' /\ Requested(c)' /\ OneWay(c)' /\ Planned(c)'
      /\ StartsOnce(c)' /\ OnOneLeg(c)' /\ TransferLast(cmds', c)
      /\ "Transfer" \in asked'[c] =>
           "Accept" \in asked'[c] \/ heard'[c] \in {"Answered", "over"}
  BY TakenKeeps
<1>2. /\ (Spent(c) => Spent(c)') /\ (Outgoing(c)' <=> Outgoing(c))
      /\ \A l \in Legs :
           /\ Dead(l, c)' <=> Dead(l, c)
           /\ Clean(l, c) /\ ~About(out.to[l], c) => Clean(l, c)'
  BY <1>0, TakenFacts
<1>3. out = Stays(c) => /\ out.route = route[c] /\ heard'[c] = heard[c]
                        /\ \A l \in Legs : \A op : ~Has(out.to[l], op, c) /\ ~About(out.to[l], c)
  <2> SUFFICES ASSUME out = Stays(c)
               PROVE  /\ out.route = route[c] /\ heard'[c] = heard[c]
                      /\ \A l \in Legs : \A op : ~Has(out.to[l], op, c) /\ ~About(out.to[l], c)
    OBVIOUS
  <2>1. out.route = route[c] /\ out.to = Nothing /\ out.told = {}
    BY OutcomeParts DEF Stays
  <2>2. heard'[c] = Hears(heard[c], {})
    BY <2>1 DEF Taken
  <2> QED BY <2>1, <2>2, NothingFacts, HearsFacts
<1>4. Waits(c)'
  BY <1>0 DEF CallInv, Waits, Sound
<1>5. Ended(c)' /\ HeldStart(c)'
  <2>1. Ended(c)'
    BY DEF CallInv, Ended
  <2>2. asked'[c] = asked[c]
    BY DEF Taken
  <2>5. Opens(pending[c].act)' <=> Opens(pending[c].act)
    BY DEF Opens
  <2>3. CASE ~Opens(pending[c].act)
    BY <2>1, <2>3, <2>5 DEF HeldStart
  <2>4. CASE Opens(pending[c].act)
    <3>1. /\ route[c] = NoRoute /\ asked[c] \subseteq {"Start", "Stop"}
          /\ heard[c] = "nothing" /\ Outgoing(c)
          /\ \A l \in Legs : Clean(l, c)
      BY <2>4 DEF CallInv, HeldStart
    <3>2. /\ out.route = NoRoute /\ heard'[c] = "nothing"
          /\ \A l \in Legs : ~About(out.to[l], c)
      BY <3>1, <2>4, <1>3
    <3>3. \A l \in Legs : Clean(l, c)'
      BY <3>1, <3>2, <1>2
    <3> QED BY <2>1, <3>1, <3>2, <3>3, <2>2, <1>0, <1>2 DEF HeldStart
  <2> QED BY <2>1, <2>3, <2>4
<1>6. \A l \in Legs, op \in Events : Has(evs'[l], op, c) => Has(evs[l], op, c)
  BY DEF Taken, Fewer
<1>7. Rings(c)'
  <2> SUFFICES ASSUME NEW l \in Legs, Arriving(l, c)'
               PROVE  /\ route'[c] = NoRoute /\ asked'[c] = {} /\ heard'[c] = "nothing"
                      /\ api'[c].st = "none" /\ ~About(cmds', c)
                      /\ ~About(toLeg'[l], c) /\ \A k \in Legs \ {l} : Clean(k, c)'
                      /\ leg'[l][c].st # "calling" /\ ~leg'[l][c].reinvite
                      /\ \A op \in Events :
                           Has(evs'[l], op, c) => op \in {"Incoming", "Ended", "Cancelled"}
    BY DEF CallInv, Rings, Taken, Fewer
  <2>1. pending[c].act = Event(l, "Incoming", c)
    BY DEF Arriving, Taken
  <2>2. Arriving(l, c) /\ out = Stays(c)
    BY <2>1 DEF Arriving
  <2>3. ~About(toLeg'[l], c)
    BY <2>2, <1>3 DEF CallInv, Rings, Taken, Joined
  <2> QED BY <2>2, <2>3, <1>0, <1>2, <1>3, <1>6 DEF CallInv, Rings, Taken, Fewer
<1>8. Given(c)'
  BY <1>0, <1>2, <1>6 DEF CallInv, Given, Over, Events
<1>9. Reached(c)'
  <2> SUFFICES ASSUME dropped'[c] = "no"
               PROVE  /\ out.route = NoRoute =>
                           \/ Opens(pending[c].act)
                           \/ \E l \in Legs :
                                pending[c].act = Event(l, "Incoming", c) /\ pending[c].owner = l
                      /\ \A l \in Legs :
                           Dead(l, c)' \/ Has(toLeg'[l], "Stop", c) \/ Owner(c)' = l
    BY <1>0 DEF Reached
  <2>1. dropped[c] = "no"
    BY DEF Taken
  <2>2. out.route = NoRoute => route[c] = NoRoute
    OBVIOUS
  <2>3. out.route.owner = "none" <=> out.route = NoRoute
    BY DEF Sound, NoRoute
  <2>4. Owner(c)' = Owner(c)
    <3>1. CASE route[c] = NoRoute
      <4>1. out.route = NoRoute
        BY <3>1, <2>3 DEF NoRoute
      <4> QED BY <4>1, <3>1, <1>0 DEF Owner
    <3>2. CASE route[c] # NoRoute
      <4>1. out.route # NoRoute /\ out.route.owner = route[c].owner
        BY <3>2, <2>2, <2>3
      <4> QED BY <4>1, <3>2, <1>0 DEF Owner
    <3> QED BY <3>1, <3>2
  <2>5. \A l \in Legs : Has(toLeg[l], "Stop", c) => Has(toLeg'[l], "Stop", c)
    BY <1>0 DEF Taken, Joined
  <2>6. \A l \in Legs : ~Has(evs[l], "Incoming", c)
    BY DEF CallInv, Rings, Untouched
  <2> QED BY <2>1, <2>2, <2>4, <2>5, <2>6, <1>2 DEF CallInv, Reached
<1>10. Ratchet(c)'
  BY <1>0, <1>1, <1>2 DEF CallInv, Ratchet, Taken
<1> QED BY <1>1, <1>4, <1>5, <1>7, <1>8, <1>9, <1>10 DEF CallInv

\* The action itself begins to wait.
LEMMA TakenHolds ==
  ASSUME TypeOK, NEW act, NEW out, act.call \in Calls, CallInv(act.call), Ready(act),
         Sound(act, out), Taken(act, out), out = Stays(act.call), NeedsAdmission(act),
         ~Foreign(act), pending[act.call] = NoPending,
         pending'[act.call] # NoPending, pending'[act.call].act = act,
         pending'[act.call].initial = 2,
         pending'[act.call].owner = IF route[act.call] # NoRoute THEN route[act.call].owner
                                    ELSE act.leg,
         met'[act.call] = met[act.call] \cup {2}, stopped'[act.call] = stopped[act.call],
         1 \notin met[act.call],
         ~stopped[act.call] \/ route[act.call] # NoRoute,
         ~Opens(act) /\ (\A l \in Legs : act # Event(l, "Incoming", act.call)) =>
           route[act.call] # NoRoute,
         \A l \in Legs, op \in Events :
           act = Event(l, op, act.call) => Has(evs[l], op, act.call),
         \A l \in Legs : Has(evs[l], "Incoming", act.call) => act = Event(l, "Incoming", act.call),
         act = Command("Transfer", act.call) => Spent(act.call)'
  PROVE  CallInv(act.call)'
<1> DEFINE c == act.call
<1>0. StartsOnce(c) /\ route'[c] = out.route /\ "Start" \in Commands /\ "Stop" \in Commands
  BY DEF CallInv, Taken, Commands
<1>1. /\ Unused(c)' /\ Starts(c)' /\ Requested(c)' /\ OneWay(c)' /\ Planned(c)'
      /\ StartsOnce(c)' /\ OnOneLeg(c)' /\ TransferLast(cmds', c)
      /\ "Transfer" \in asked'[c] =>
           "Accept" \in asked'[c] \/ heard'[c] \in {"Answered", "over"}
  BY TakenKeeps
<1>3. /\ route'[c] = route[c] /\ heard'[c] = heard[c] /\ asked'[c] = asked[c]
      /\ \A l \in Legs : \A op : ~Has(out.to[l], op, c) /\ ~About(out.to[l], c)
  <2>1. out.route = route[c] /\ out.to = Nothing /\ out.told = {}
    BY OutcomeParts DEF Stays
  <2>2. heard'[c] = Hears(heard[c], {}) /\ route'[c] = out.route /\ asked'[c] = asked[c]
    BY <2>1 DEF Taken
  <2> QED BY <2>1, <2>2, NothingFacts, HearsFacts
<1>2. /\ Outgoing(c)' <=> Outgoing(c)
      /\ \A l \in Legs : (Dead(l, c)' <=> Dead(l, c)) /\ (Clean(l, c) => Clean(l, c)')
  BY <1>0, <1>3, TakenFacts
<1>4. /\ \/ \E op \in Costly : act = Command(op, c)
         \/ act = Request(c)
         \/ \E l \in Legs, op \in {"Incoming", "Unavailable"} : act = Event(l, op, c)
      /\ \A op \in Commands : act = Command(op, c) => op \in asked[c]
  BY DEF Ready, NeedsAdmission, Command, Event, Request
<1>5. Waits(c)'
  BY <1>3, <1>4 DEF CallInv, Waits
<1>6. Ended(c)' /\ HeldStart(c)'
  BY <1>2, <1>3 DEF CallInv, Ended, HeldStart, Ready
<1>7. \A l \in Legs, op \in Events : Has(evs'[l], op, c) => Has(evs[l], op, c)
  BY DEF Taken, Fewer
<1>8. Rings(c)'
  <2> SUFFICES ASSUME NEW l \in Legs, Arriving(l, c)'
               PROVE  /\ route'[c] = NoRoute /\ asked'[c] = {} /\ heard'[c] = "nothing"
                      /\ api'[c].st = "none" /\ ~About(cmds', c)
                      /\ ~About(toLeg'[l], c) /\ \A k \in Legs \ {l} : Clean(k, c)'
                      /\ leg'[l][c].st # "calling" /\ ~leg'[l][c].reinvite
                      /\ \A op \in Events :
                           Has(evs'[l], op, c) => op \in {"Incoming", "Ended", "Cancelled"}
    BY DEF CallInv, Rings, Taken, Fewer
  <2>1. act = Event(l, "Incoming", c)
    BY DEF Arriving, Taken
  <2>2. Arriving(l, c)
    BY <2>1 DEF Arriving, Events
  <2>3. ~About(toLeg'[l], c)
    BY <2>2, <1>3 DEF CallInv, Rings, Taken, Joined
  <2> QED BY <2>2, <2>3, <1>2, <1>3, <1>7 DEF CallInv, Rings, Taken, Fewer
<1>9. Given(c)'
  <2>1. ASSUME NEW l \in Legs, act = Event(l, "Unavailable", c)
        PROVE  Dead(l, c)' /\ ~Has(evs'[l], "Answered", c) /\ route'[c].owner \in {"none", l}
    <3>1. Has(evs[l], "Unavailable", c) /\ act.leg = l /\ act.kind = "event"
      BY <2>1 DEF Events, Event
    <3>2. route[c].owner \in {"none", l}
      BY <3>1 DEF Foreign, Owner, NoRoute
    <3> QED BY <3>1, <3>2, <1>2, <1>3, <1>7 DEF CallInv, Given, Over, Events
  <2> QED BY <2>1, <1>2, <1>7 DEF CallInv, Given, Over, Events
<1>10. Reached(c)'
  <2> SUFFICES ASSUME dropped'[c] = "no"
               PROVE  /\ route[c] = NoRoute =>
                           \/ Opens(act)
                           \/ \E l \in Legs :
                                act = Event(l, "Incoming", c) /\ pending'[c].owner = l
                      /\ \A l \in Legs :
                           Dead(l, c)' \/ Has(toLeg'[l], "Stop", c) \/ Owner(c)' = l
    BY <1>3 DEF Reached
  <2>1. dropped[c] = "no"
    BY DEF Taken
  <2>2. ASSUME NEW l \in Legs, act = Event(l, "Incoming", c), route[c] = NoRoute
        PROVE  pending'[c].owner = l
    BY <2>2 DEF Event
  <2>3. ASSUME NEW l \in Legs, Owner(c) = l PROVE Owner(c)' = l
    BY <2>3, <1>3 DEF Owner, NoPending, Legs
  <2>4. ASSUME NEW l \in Legs, Has(evs[l], "Incoming", c) PROVE Owner(c)' = l
    <3>1. act = Event(l, "Incoming", c) /\ route[c] = NoRoute
      BY <2>4 DEF CallInv, Rings, Untouched
    <3> QED BY <3>1, <2>2, <1>3 DEF Owner
  <2>5. \A l \in Legs : Has(toLeg[l], "Stop", c) => Has(toLeg'[l], "Stop", c)
    BY <1>0 DEF Taken, Joined
  <2> QED BY <2>1, <2>2, <2>3, <2>4, <2>5, <1>2 DEF CallInv, Reached
<1>11. Ratchet(c)'
  <2>1. 1 \notin met'[c]
    OBVIOUS
  <2>2. \A op \in Costly : act = Command(op, c) => op \in asked'[c]
    BY <1>3, <1>4 DEF Commands, Costly
  <2> QED BY <2>1, <2>2, <1>1 DEF Ratchet
<1> QED BY <1>1, <1>5, <1>6, <1>8, <1>9, <1>10, <1>11 DEF CallInv

-----------------------------------------------------------------------------
(* Where actions come from.                                                *)

\* An action has been read from a queue, or from the API's request.
Read(act) ==
  LET c == act.call
  IN  /\ Ready(act) /\ c \in used
      /\ cmds' \in Seq(Messages) /\ evs' \in [Legs -> Seq([op : Events, call : Calls])]
      /\ \A d \in Calls :
           /\ Fewer(cmds, cmds', d) /\ (TransferLast(cmds, d) => TransferLast(cmds', d))
           /\ \A l \in Legs :
                /\ Fewer(evs[l], evs'[l], d)
                /\ d # c /\ Has(evs[l], "Incoming", d) => Has(evs'[l], "Incoming", d)
      /\ ~Has(cmds', "Start", c) /\ (api[c].st = "queued" <=> act = Request(c))
      /\ \A l \in Legs :
           /\ ~Has(evs'[l], "Incoming", c)
           /\ Has(evs[l], "Incoming", c) => act = Event(l, "Incoming", c)
           /\ \A op \in Events : act = Event(l, op, c) => Has(evs[l], op, c)
           /\ act = Event(l, "Incoming", c) => Untouched(c)
      /\ Opens(act) => Untouched(c)
      /\ \A op \in Commands : act = Command(op, c) => Has(cmds, op, c)
      /\ act = Command("Transfer", c) =>
           ~Has(cmds', "Transfer", c) /\ ~Has(cmds', "Accept", c)

\* An unchanged queue has lost nothing.
LEMMA FewerSame == \A q, c : Fewer(q, q, c)
BY DEF Fewer

\* A command read from the head of the queue.
LEMMA CommandRead ==
  ASSUME VoiceInv, cmds # <<>>, cmds' = Tail(cmds), evs' = evs, NEW act,
         act = Command(Head(cmds).op, Head(cmds).call)
  PROVE  Read(act)
<1> DEFINE c == Head(cmds).call
           op == Head(cmds).op
           t == Tail(cmds)
<1>0. cmds \in Seq(Messages) /\ evs \in [Legs -> Seq([op : Events, call : Calls])]
  BY DEF VoiceInv, TypeOK, Messages
<1>1. /\ Head(cmds) \in Messages /\ t \in Seq(Messages)
      /\ \A d : Fewer(cmds, t, d) /\ (TransferLast(cmds, d) => TransferLast(t, d))
      /\ Has(cmds, op, c) /\ About(cmds, c)
      /\ Leads(cmds, "Start", c) => ~Has(t, "Start", c)
      /\ TransferLast(cmds, c) /\ op = "Transfer" =>
           ~Has(t, "Transfer", c) /\ ~Has(t, "Accept", c)
  BY <1>0, TailFacts DEF Fewer
<1>2. act.call = c /\ act.op = op /\ act.kind = "command"
  BY DEF Command
<1>3. c \in Calls /\ op \in Commands /\ act = Command(op, c)
  BY <1>1 DEF Messages
<1>4. CallInv(c)
  BY <1>3 DEF VoiceInv
<1> HIDE DEF c, op, t
<1>5. c \in used /\ op \in asked[c]
  BY <1>1, <1>3, <1>4 DEF CallInv, Unused, OneWay
<1>6. api[c].st # "queued" /\ \A l \in Legs : ~Has(evs[l], "Incoming", c)
  BY <1>1, <1>4 DEF CallInv, Requested, Rings, Arriving
<1>7. op = "Start" => /\ Untouched(c) /\ asked[c] \subseteq {"Start", "Stop"} /\ Outgoing(c)
                      /\ \A l \in Legs : Clean(l, c)
  BY <1>1, <1>4, <1>5 DEF CallInv, Starts, Outgoing
<1>8. /\ \A l \in Legs : \A o : act # Event(l, o, c)
      /\ act # Request(c) /\ (Opens(act) => op = "Start")
      /\ act = Command("Transfer", c) => op = "Transfer"
  BY <1>2 DEF Event, Request, Opens, Command
<1>9. Ready(act)
  BY <1>2, <1>3, <1>5, <1>7, <1>8 DEF Ready, Untouched
<1>10. ~Has(t, "Start", c) /\ TransferLast(cmds, c)
  BY <1>1, <1>4 DEF CallInv, Starts, Ratchet
<1>11. cmds' = t
  BY DEF t
<1>12. \A o \in Commands : act = Command(o, c) => Has(cmds, o, c)
  <2>1. \A o : act = Command(o, c) => o = op
    BY <1>2 DEF Command
  <2> QED BY <2>1, <1>1
<1> QED BY <1>0, <1>1, <1>2, <1>5, <1>6, <1>7, <1>8, <1>9, <1>10, <1>11, <1>12, FewerSame
        DEF Read

\* A request taken from the API.
LEMMA RequestRead ==
  ASSUME VoiceInv, NEW c \in Calls, api[c].st = "queued", cmds' = cmds, evs' = evs, NEW act,
         act = Request(c)
  PROVE  Read(act)
<1>0. cmds \in Seq(Messages) /\ evs \in [Legs -> Seq([op : Events, call : Calls])]
  BY DEF VoiceInv, TypeOK, Messages
<1>1. act.call = c /\ act.kind = "request" /\ act.op = "Start"
  BY DEF Request
<1>2. CallInv(c)
  BY DEF VoiceInv
<1>3. /\ Untouched(c) /\ asked[c] = {} /\ ~About(cmds, c) /\ Outgoing(c) /\ c \in used
      /\ \A l \in Legs : Clean(l, c)
  BY <1>2 DEF CallInv, Requested, Outgoing, Unused
<1>4. /\ \A l \in Legs : \A o : act # Event(l, o, c)
      /\ \A o : act # Command(o, c)
  BY <1>1 DEF Event, Command
<1>5. Ready(act)
  BY <1>1, <1>3, <1>4 DEF Ready, Untouched
<1>6. ~Has(cmds, "Start", c) /\ \A l \in Legs : ~Has(evs[l], "Incoming", c)
  BY <1>3, HasAbout DEF Clean
<1> QED BY <1>0, <1>1, <1>3, <1>4, <1>5, <1>6, FewerSame DEF Read

\* An event read from the head of a leg's queue.
LEMMA EventRead ==
  ASSUME VoiceInv, NEW l \in Legs, evs[l] # <<>>, cmds' = cmds,
         evs' = [evs EXCEPT ![l] = Tail(@)], NEW act,
         act = Event(l, Head(evs[l]).op, Head(evs[l]).call)
  PROVE  Read(act)
<1> DEFINE c == Head(evs[l]).call
           op == Head(evs[l]).op
           t == Tail(evs[l])
           Msgs == [op : Events, call : Calls]
<1>0. cmds \in Seq(Messages) /\ evs \in [Legs -> Seq(Msgs)]
  BY DEF VoiceInv, TypeOK, Messages
<1>1. /\ Head(evs[l]) \in Msgs /\ t \in Seq(Msgs)
      /\ \A d : Fewer(evs[l], t, d)
      /\ Has(evs[l], op, c) /\ About(evs[l], c)
      /\ Leads(evs[l], "Incoming", c) => ~Has(t, "Incoming", c)
      /\ \A o, d : Has(evs[l], o, d) => Has(t, o, d) \/ (op = o /\ c = d)
  <2>1. evs[l] \in Seq(Msgs)
    BY <1>0
  <2> HIDE DEF Msgs
  <2> QED BY <2>1, TailFacts DEF Fewer
<1>2. act.call = c /\ act.op = op /\ act.kind = "event" /\ act.leg = l
  BY DEF Event
<1>3. c \in Calls /\ op \in Events /\ act = Event(l, op, c)
  BY <1>1
<1>4. CallInv(c)
  BY <1>3 DEF VoiceInv
<1>5. evs' \in [Legs -> Seq(Msgs)] /\ evs'[l] = t /\ \A k \in Legs \ {l} : evs'[k] = evs[k]
  BY <1>0, <1>1
<1> HIDE DEF c, op, t
<1>6. c \in used /\ api[c].st # "queued" /\ ~Has(cmds, "Start", c)
  BY <1>1, <1>4 DEF CallInv, Unused, Requested, Starts, Clean
<1>7. \A k \in Legs : Has(evs[k], "Incoming", c) => k = l
  BY <1>1, <1>4 DEF CallInv, Rings, Arriving, Clean
<1>8. ~Has(t, "Incoming", c)
  BY <1>1, <1>4 DEF CallInv, Rings
<1>9. op = "Incoming" => /\ Untouched(c) /\ asked[c] = {} /\ ~Outgoing(c)
  BY <1>1, <1>4 DEF CallInv, Rings, Arriving, Outgoing
<1>10. (op \in Over => Dead(l, c)) /\ (op = "Answered" => Outgoing(c))
  BY <1>1, <1>4 DEF CallInv, Given, OneWay
<1>11. /\ \A o : act # Command(o, c) /\ act # Request(c) /\ ~Opens(act)
       /\ \A k : \A o : act = Event(k, o, c) => k = l /\ o = op
  BY <1>2 DEF Command, Request, Opens, Event
<1>12. Ready(act)
  BY <1>2, <1>3, <1>9, <1>10, <1>11 DEF Ready, Untouched
<1>13. \A d \in Calls, k \in Legs :
         /\ Fewer(evs[k], evs'[k], d)
         /\ d # c /\ Has(evs[k], "Incoming", d) => Has(evs'[k], "Incoming", d)
  BY <1>1, <1>5, FewerSame
<1>14. \A k \in Legs : ~Has(evs'[k], "Incoming", c)
  BY <1>5, <1>7, <1>8
<1>15. ASSUME NEW k \in Legs
       PROVE  /\ ~Has(evs'[k], "Incoming", c)
              /\ Has(evs[k], "Incoming", c) => act = Event(k, "Incoming", c)
              /\ \A o \in Events : act = Event(k, o, c) => Has(evs[k], o, c)
              /\ act = Event(k, "Incoming", c) => Untouched(c)
  <2>1. Has(evs[k], "Incoming", c) => act = Event(k, "Incoming", c)
    BY <1>1, <1>3, <1>7, <1>8
  <2>2. \A o \in Events : act = Event(k, o, c) => Has(evs[k], o, c)
    BY <1>1, <1>11
  <2> QED BY <2>1, <2>2, <1>9, <1>11, <1>14
<1> QED BY <1>0, <1>2, <1>5, <1>6, <1>11, <1>12, <1>13, <1>15, FewerSame DEF Read

-----------------------------------------------------------------------------
(* Carrying an outcome out.                                                *)

Links == [ready : BOOLEAN, gen : Nat, session : {"off", "on", "closing"},
          allowed : BOOLEAN, auto : BOOLEAN]

\* Writing the permissions leaves the sessions as they are.
LEMMA PermissionFacts ==
  ASSUME NEW lk \in [Legs -> Links], NEW mode, NEW layers
  PROVE  /\ Permissions(lk, mode, layers) \in [Legs -> Links]
         /\ \A l \in Legs : /\ Permissions(lk, mode, layers)[l].session = lk[l].session
                            /\ Permissions(lk, mode, layers)[l].gen = lk[l].gen
                            /\ Permissions(lk, mode, layers)[l].ready = lk[l].ready
BY DEF Permissions, Links

\* Commands put behind the queue of a leg.
LEMMA SentFacts ==
  ASSUME TypeOK, NEW to, NEW c \in Calls, Fits(to, c),
         toLeg' = [l \in Legs |-> toLeg[l] \o to[l]]
  PROVE  /\ toLeg' \in [Legs -> Seq(Messages)]
         /\ \A l \in Legs :
              /\ Joined(toLeg[l], to[l], toLeg'[l], c)
              /\ ~HasConsumer(l) => toLeg'[l] = toLeg[l]
              /\ \A d \in Calls \ {c} : Alike(toLeg[l], toLeg'[l], d)
<1>1. ASSUME NEW l \in Legs
      PROVE  /\ toLeg'[l] \in Seq(Messages)
             /\ Joined(toLeg[l], to[l], toLeg'[l], c)
             /\ ~HasConsumer(l) => toLeg'[l] = toLeg[l]
             /\ \A d \in Calls \ {c} : Alike(toLeg[l], toLeg'[l], d)
  <2> DEFINE q == toLeg[l]
             r == to[l]
             s == toLeg'[l]
  <2>1. q \in Seq(Messages) /\ r \in Seq(Messages) /\ s = q \o r
    BY DEF TypeOK, Messages, Fits
  <2>2. ~HasConsumer(l) => s = q
    BY <2>1, ConcatEmptySeq DEF Fits
  <2>3. \A d \in Calls \ {c} : ~About(r, d) /\ \A op : ~Has(r, op, d)
    BY HasAbout DEF Fits
  <2> HIDE DEF q, r, s
  <2>4. /\ s \in Seq(Messages)
        /\ \A op, d : Has(s, op, d) <=> Has(q, op, d) \/ Has(r, op, d)
        /\ \A d : About(s, d) <=> About(q, d) \/ About(r, d)
        /\ \A op, d : Leads(q, op, d) /\ ~Has(r, op, d) => Leads(s, op, d)
        /\ \A op, d : ~About(q, d) /\ Leads(r, op, d) => Leads(s, op, d)
    BY <2>1, CatFacts
  <2>5. Joined(q, r, s, c)
    BY <2>4 DEF Joined
  <2>6. \A d \in Calls \ {c} : Alike(q, s, d)
    BY <2>3, <2>4 DEF Alike
  <2> QED BY <2>2, <2>4, <2>5, <2>6 DEF q, r, s
<1> QED BY <1>1

\* What Apply writes.
LEMMA ApplyFacts ==
  ASSUME TypeOK, SessionInv, NEW act, NEW out, act.call \in Calls, Sound(act, out),
         Apply(act, out)
  PROVE  LET c == act.call
         IN  /\ route'[c] = out.route /\ heard'[c] = Hears(heard[c], out.told)
             /\ dropped'[c] = DropReason(act, out)
             /\ dropped'[c] = "no" => dropped[c] = "no"
             /\ leg' = leg /\ asked' = asked /\ used' = used
             /\ \A l \in Legs : Joined(toLeg[l], out.to[l], toLeg'[l], c)
             /\ \A d \in Calls \ {c} :
                  /\ route'[d] = route[d] /\ heard'[d] = heard[d] /\ dropped'[d] = dropped[d]
                  /\ \A l \in Legs : Alike(toLeg[l], toLeg'[l], d)
             /\ SessionInv'
             /\ link' \in [Legs -> Links] /\ toLeg' \in [Legs -> Seq(Messages)]
             /\ route' \in [Calls -> Routes]
             /\ heard' \in [Calls -> {"nothing", "Incoming", "Answered", "over"}]
             /\ dropped' \in [Calls -> {"no", "stale", "refused", "lost"}]
             /\ UNCHANGED policyVars /\ lags' = lags
<1> DEFINE c == act.call
<1>1. /\ route \in [Calls -> Routes] /\ link \in [Legs -> Links]
      /\ heard \in [Calls -> {"nothing", "Incoming", "Answered", "over"}]
      /\ dropped \in [Calls -> {"no", "stale", "refused", "lost"}]
  BY DEF TypeOK, Links
<1>2. /\ route' = [route EXCEPT ![c] = out.route]
      /\ toLeg' = [l \in Legs |-> toLeg[l] \o out.to[l]]
      /\ heard' = [heard EXCEPT ![c] = Hears(@, out.told)]
      /\ dropped' = [dropped EXCEPT ![c] = DropReason(act, out)]
      /\ link' = Permissions(link, gate, enabled)
      /\ UNCHANGED <<leg, asked, used, policyVars, lags>>
  BY DEF Apply, Refreshed
<1>3. out.route \in Routes /\ Fits(out.to, c)
  BY DEF Sound
<1>4. route' \in [Calls -> Routes] /\ route'[c] = out.route
        /\ \A d \in Calls \ {c} : route'[d] = route[d]
  BY <1>1, <1>2, <1>3
<1>5. /\ heard' \in [Calls -> {"nothing", "Incoming", "Answered", "over"}]
      /\ heard'[c] = Hears(heard[c], out.told)
      /\ \A d \in Calls \ {c} : heard'[d] = heard[d]
  <2>1. Hears(heard[c], out.told) \in {"nothing", "Incoming", "Answered", "over"}
    BY <1>1, HearsFacts
  <2> QED BY <2>1, <1>1, <1>2
<1>6. /\ dropped' \in [Calls -> {"no", "stale", "refused", "lost"}]
      /\ dropped'[c] = DropReason(act, out) /\ (dropped'[c] = "no" => dropped[c] = "no")
      /\ \A d \in Calls \ {c} : dropped'[d] = dropped[d]
  <2>1. DropReason(act, out) \in {"stale", "refused", dropped[c]}
    BY DEF DropReason
  <2> QED BY <2>1, <1>1, <1>2
<1>7. /\ toLeg' \in [Legs -> Seq(Messages)]
      /\ \A l \in Legs : /\ Joined(toLeg[l], out.to[l], toLeg'[l], c)
                         /\ ~HasConsumer(l) => toLeg'[l] = toLeg[l]
                         /\ \A d \in Calls \ {c} : Alike(toLeg[l], toLeg'[l], d)
  BY <1>2, <1>3, SentFacts
<1>8. link' \in [Legs -> Links] /\ \A l \in Legs : link'[l].session = link[l].session
  BY <1>1, <1>2, PermissionFacts
<1>9. SessionInv'
  BY <1>2, <1>7, <1>8 DEF SessionInv, HasConsumer
<1> QED BY <1>2, <1>4, <1>5, <1>6, <1>7, <1>8, <1>9

\* A call the turn is not about is left alone.
LEMMA ReadOthers ==
  ASSUME TypeOK, SessionInv, NEW act, NEW out, Read(act), Sound(act, out), Apply(act, out),
         NEW d \in Calls, d # act.call, CallInv(d),
         pending'[d] = pending[d], met'[d] = met[d], stopped'[d] = stopped[d],
         api'[d] = api[d]
  PROVE  CallInv(d)'
<1>0. act.call \in Calls
  BY DEF Read, Ready
<1>1. /\ route'[d] = route[d] /\ heard'[d] = heard[d] /\ dropped'[d] = dropped[d]
      /\ leg' = leg /\ asked' = asked /\ used' = used
      /\ \A l \in Legs : Alike(toLeg[l], toLeg'[l], d)
  BY <1>0, ApplyFacts
<1>2. Frame(d)
  BY <1>1 DEF Frame, Read
<1> QED BY <1>2, FrameInv

\* The call it is about.
LEMMA ReadTaken ==
  ASSUME TypeOK, SessionInv, NEW act, NEW out, Read(act), Sound(act, out), Apply(act, out),
         api'[act.call].st # "queued",
         api'[act.call].st = "none" <=> api[act.call].st = "none"
  PROVE  Taken(act, out)
<1> DEFINE c == act.call
<1>0. c \in Calls
  BY DEF Read, Ready
<1>1. /\ route'[c] = out.route /\ heard'[c] = Hears(heard[c], out.told)
      /\ dropped'[c] = DropReason(act, out)
      /\ dropped'[c] = "no" => dropped[c] = "no"
      /\ leg' = leg /\ asked' = asked /\ used' = used
      /\ \A l \in Legs : Joined(toLeg[l], out.to[l], toLeg'[l], c)
  BY <1>0, ApplyFacts
<1>2. \A l \in Legs : route[c].owner = l =>
           \/ out.route.owner = l \/ Dead(l, c) \/ Has(out.to[l], "Stop", c)
           \/ dropped'[c] # "no"
  BY <1>1 DEF Sound
<1>3. /\ ~Has(cmds', "Start", c) /\ Fewer(cmds, cmds', c) /\ c \in used
      /\ TransferLast(cmds, c) => TransferLast(cmds', c)
      /\ \A l \in Legs : Fewer(evs[l], evs'[l], c) /\ ~Has(evs'[l], "Incoming", c)
  BY <1>0 DEF Read
<1> QED BY <1>1, <1>2, <1>3 DEF Taken

\* The variables that the four ways to take an action write differently.
AdmissionOK ==
  /\ api \in [Calls -> [st : {"none", "queued", "held", "ok", "failed", "gone"},
                        mode : Modes, offers : SUBSET Legs]]
  /\ pending \in [Calls -> [ticket : Nat, initial : Modes,
                            owner : Legs \cup {"none"},
                            act : Waiting \cup {NoAct}]]
  /\ tickets \in Nat /\ \A c \in Calls : pending[c].ticket <= tickets
  /\ tasks \subseteq [call : Calls, ticket : Nat]
  /\ results \subseteq [call : Calls, ticket : Nat, home : BOOLEAN]
  /\ met \in [Calls -> SUBSET Modes] /\ stopped \in [Calls -> BOOLEAN]

\* A turn keeps the invariant if the call it is about keeps its own.
LEMMA TurnInv ==
  ASSUME VoiceInv, NEW act, NEW out, Read(act), Sound(act, out), Apply(act, out),
         AdmissionOK', CallInv(act.call)',
         \A d \in Calls \ {act.call} :
           /\ pending'[d] = pending[d] /\ met'[d] = met[d] /\ stopped'[d] = stopped[d]
           /\ api'[d] = api[d]
  PROVE  VoiceInv'
<1>0. TypeOK /\ SessionInv /\ act.call \in Calls
  BY DEF VoiceInv, Read, Ready
<1>1. /\ SessionInv' /\ leg' = leg /\ asked' = asked /\ used' = used
      /\ link' \in [Legs -> Links] /\ toLeg' \in [Legs -> Seq(Messages)]
      /\ route' \in [Calls -> Routes]
      /\ heard' \in [Calls -> {"nothing", "Incoming", "Answered", "over"}]
      /\ dropped' \in [Calls -> {"no", "stale", "refused", "lost"}]
      /\ UNCHANGED policyVars /\ lags' = lags
  BY <1>0, ApplyFacts
<1>2. TypeOK'
  BY <1>0, <1>1 DEF TypeOK, AdmissionOK, Links, Messages, Read, policyVars
<1>3. \A d \in Calls : d # act.call => CallInv(d)'
  BY <1>0, ReadOthers DEF VoiceInv
<1> QED BY <1>1, <1>2, <1>3 DEF VoiceInv

\* The tighter of two modes.
LEMMA CombinedFacts ==
  ASSUME NEW a \in Modes, NEW b \in Modes
  PROVE  /\ Combined(a, b) \in Modes
         /\ Combined(a, b) = 1 <=> a = 1 \/ b = 1
         /\ Combined(a, b) = 0 <=> a = 0 /\ b = 0
BY DEF Combined, Modes

\* The mode of an action is as tight as its route's and the gate's.
LEMMA InitialFacts ==
  ASSUME TypeOK, NEW act, act.call \in Calls
  PROVE  /\ InitialMode(act) \in Modes
         /\ act.kind # "request" /\ route[act.call].mode = 1 => InitialMode(act) = 1
         /\ act.kind # "request" /\ InitialMode(act) = 0 => route[act.call].mode = 0
         /\ InitialMode(act) # 1 => gate # 1
         /\ InitialMode(act) = 0 => gate = 0
<1>1. route[act.call].mode \in Modes /\ api[act.call].mode \in Modes /\ gate \in Modes
  BY DEF TypeOK, Routes
<1> QED BY <1>1, CombinedFacts DEF InitialMode

\* What Stays leaves.
LEMMA StaysFacts ==
  ASSUME NEW c, NEW out, out = Stays(c)
  PROVE  /\ out.route = route[c] /\ out.to = Nothing /\ out.told = {}
         /\ \A l \in Legs : \A op, d : ~Has(out.to[l], op, d) /\ ~About(out.to[l], d)
<1>1. out.route = route[c] /\ out.to = Nothing /\ out.told = {}
  BY OutcomeParts DEF Stays
<1> QED BY <1>1, NothingFacts

\* No call arrives when another event of it is read.
LEMMA ReadNotArriving ==
  ASSUME NEW act, Read(act), CallInv(act.call), NEW l \in Legs, Arriving(l, act.call),
         act # Event(l, "Incoming", act.call)
  PROVE  /\ pending[act.call] # NoPending
         /\ \E op \in {"Ended", "Cancelled"} :
              act = Event(l, op, act.call) /\ Has(evs[l], op, act.call) /\ Dead(l, act.call)
<1> DEFINE c == act.call
<1>1. ~Has(evs[l], "Incoming", c) /\ Ready(act) /\ c \in Calls
  BY DEF Read, Ready
<1>2. pending[c] # NoPending /\ pending[c].act = Event(l, "Incoming", c)
  BY <1>1 DEF Arriving
<1>3. /\ asked[c] = {} /\ api[c].st = "none" /\ ~Outgoing(c)
      /\ \A k \in Legs \ {l} : ~About(evs[k], c)
      /\ \A op \in Events : Has(evs[l], op, c) => op \in {"Incoming", "Ended", "Cancelled"}
  BY DEF CallInv, Rings, Outgoing, Clean
<1>4. PICK k \in Legs, op \in Events : act = Event(k, op, c)
  <2>1. ~Opens(act)
    BY <1>1, <1>3 DEF Ready
  <2>2. act # Request(c) /\ \A op \in Commands : act # Command(op, c)
    BY <2>1, <1>1, <1>3 DEF Ready, Opens, Request, Command, Event
  <2> QED BY <2>2, <1>1 DEF Ready
<1>5. Has(evs[k], op, c) /\ k = l
  BY <1>3, <1>4, HasAbout DEF Read
<1>6. op \in {"Ended", "Cancelled"}
  BY <1>1, <1>3, <1>5
<1>7. Dead(l, c)
  BY <1>1, <1>4, <1>5, <1>6 DEF Ready, Over
<1> QED BY <1>2, <1>4, <1>5, <1>6, <1>7

-----------------------------------------------------------------------------
(* The four ways to take an action.                                        *)

Apis == [st : {"none", "queued", "held", "ok", "failed", "gone"},
         mode : Modes, offers : SUBSET Legs]
Pendings == [ticket : Nat, initial : Modes, owner : Legs \cup {"none"},
             act : Waiting \cup {NoAct}]

\* No admission has the type of one.
LEMMA NoPendingType == NoPending \in Pendings
BY DEF NoPending, Pendings, Modes

\* What becomes of admissions when the call's own is aborted, or left.
LEMMA AbortFacts ==
  ASSUME TypeOK, NEW c \in Calls, Abort(c) \/ UNCHANGED <<pending, tasks>>
  PROVE  /\ pending' \in [Calls -> Pendings]
         /\ \A d \in Calls : pending'[d].ticket <= tickets
         /\ tasks' \subseteq [call : Calls, ticket : Nat]
         /\ \A d \in Calls \ {c} : pending'[d] = pending[d]
         /\ pending'[c] = NoPending \/ pending'[c] = pending[c]
         /\ Abort(c) => pending'[c] = NoPending
<1>1. /\ pending \in [Calls -> Pendings] /\ tasks \subseteq [call : Calls, ticket : Nat]
      /\ tickets \in Nat /\ \A d \in Calls : pending[d].ticket <= tickets
  BY DEF TypeOK, Pendings
<1>2. CASE UNCHANGED <<pending, tasks>>
  BY <1>1, <1>2 DEF Abort
<1>3. CASE Abort(c)
  <2>1. /\ pending' = [pending EXCEPT ![c] = NoPending]
        /\ tasks' \subseteq tasks
    BY <1>3 DEF Abort
  <2>2. pending' \in [Calls -> Pendings] /\ pending'[c] = NoPending
          /\ \A d \in Calls \ {c} : pending'[d] = pending[d]
    BY <2>1, <1>1, NoPendingType
  <2>3. NoPending.ticket <= tickets
    BY <1>1 DEF NoPending
  <2> QED BY <2>1, <2>2, <2>3, <1>1
<1> QED BY <1>2, <1>3

\* A request whose state is written.
LEMMA ApiFacts ==
  ASSUME TypeOK, NEW c \in Calls, NEW st \in {"held", "ok", "failed", "gone"},
         NEW mode \in Modes,
         \/ api' = [api EXCEPT ![c].st = st, ![c].mode = mode]
         \/ api' = [api EXCEPT ![c].st = st]
  PROVE  /\ api' \in [Calls -> Apis]
         /\ api'[c].st = st /\ \A d \in Calls \ {c} : api'[d] = api[d]
<1>1. api \in [Calls -> Apis]
  BY DEF TypeOK, Apis
<1>2. PICK m \in Modes : api' = [api EXCEPT ![c] = [st |-> st, mode |-> m, offers |-> api[c].offers]]
  <2>1. api[c] = [st |-> api[c].st, mode |-> api[c].mode, offers |-> api[c].offers]
          /\ api[c].mode \in Modes
    BY <1>1 DEF Apis
  <2>2. CASE api' = [api EXCEPT ![c].st = st, ![c].mode = mode]
    <3>1. api' = [api EXCEPT ![c] = [st |-> st, mode |-> mode, offers |-> api[c].offers]]
      BY <2>1, <2>2, <1>1
    <3> QED BY <3>1
  <2>3. CASE api' = [api EXCEPT ![c].st = st]
    <3>1. api' = [api EXCEPT ![c] = [st |-> st, mode |-> api[c].mode, offers |-> api[c].offers]]
      BY <2>1, <2>3, <1>1
    <3> QED BY <3>1, <2>1
  <2> QED BY <2>2, <2>3
<1>3. [st |-> st, mode |-> m, offers |-> api[c].offers] \in Apis
  BY <1>1 DEF Apis
<1> QED BY <1>1, <1>2, <1>3

\* The answer a request gets.
LEMMA AnswerFacts ==
  ASSUME TypeOK, NEW act, act.call \in Calls, NEW out, NEW vanishes,
         api' = Answer(act, out, vanishes)
  PROVE  /\ api' \in [Calls -> Apis] /\ \A d \in Calls \ {act.call} : api'[d] = api[d]
         /\ \/ api' = api /\ ~(act.kind = "request" /\ api[act.call].st = "queued")
            \/ /\ act.kind = "request" /\ api[act.call].st \in {"queued", "held"}
               /\ api'[act.call].st \in {"gone", "failed", "ok"}
<1> DEFINE c == act.call
           st == IF vanishes THEN "gone" ELSE IF out.route = NoRoute THEN "failed" ELSE "ok"
<1>1. CASE act.kind = "request" /\ api[c].st \in {"queued", "held"}
  <2>1. api' = [api EXCEPT ![c].st = st, ![c].mode = 0]
    BY <1>1 DEF Answer
  <2>2. st \in {"gone", "failed", "ok"} /\ 0 \in Modes
    BY DEF Modes
  <2> HIDE DEF st
  <2>3. api' \in [Calls -> Apis] /\ api'[c].st = st /\ \A d \in Calls \ {c} : api'[d] = api[d]
    BY <2>1, <2>2, ApiFacts
  <2> QED BY <1>1, <2>2, <2>3
<1>2. CASE ~(act.kind = "request" /\ api[c].st \in {"queued", "held"})
  BY <1>2 DEF Answer, TypeOK, Apis
<1> QED BY <1>1, <1>2

\* An action that is not carried out keeps the invariant.
LEMMA IgnoredInv ==
  ASSUME VoiceInv, NEW act, Read(act), TakeIgnored(act)
  PROVE  VoiceInv'
<1> DEFINE c == act.call
           out == IgnoredOutcome(act)
<1>0. /\ TypeOK /\ SessionInv /\ c \in Calls /\ CallInv(c) /\ Ready(act)
      /\ Waits(c) /\ Planned(c)
  BY DEF VoiceInv, Read, Ready, CallInv
<1>1. /\ ~Ordinary(act) /\ Apply(act, out)
      /\ IF Lost(act) /\ ~Foreign(act) THEN Abort(c) ELSE UNCHANGED <<pending, tasks>>
      /\ api' = IF act.kind = "request" THEN [api EXCEPT ![c].st = "failed"] ELSE api
      /\ UNCHANGED <<results, tickets, met, stopped>>
  BY DEF TakeIgnored
<1>2. \A l \in Legs : act # Event(l, "Incoming", c)
  <2> SUFFICES ASSUME NEW l \in Legs, act = Event(l, "Incoming", c) PROVE FALSE
    OBVIOUS
  <2>1. Untouched(c) /\ act.kind = "event" /\ act.leg = l
    BY DEF Read, Event
  <2>2. ~Foreign(act)
    BY <2>1 DEF Foreign, Untouched, Owner, NoPending
  <2> QED BY <2>1, <2>2, <1>1 DEF Ordinary, Untouched
<1> HIDE DEF out
<1>3. /\ Sound(act, out) /\ out.to = Nothing
      /\ ~(Lost(act) /\ ~Foreign(act)) => out = Stays(c)
      /\ Lost(act) /\ ~Foreign(act) => out.route = NoRoute
  BY <1>0, <1>2, IgnoredSound DEF out
<1>4. /\ api' \in [Calls -> Apis] /\ api'[c].st # "queued"
      /\ api'[c].st = "none" <=> api[c].st = "none"
      /\ \A d \in Calls \ {c} : api'[d] = api[d]
  <2>1. CASE act.kind = "request"
    <3>1. api' = [api EXCEPT ![c].st = "failed"] /\ 0 \in Modes
      BY <2>1, <1>1 DEF Modes
    <3>2. act = Request(c)
      BY <2>1, <1>0 DEF Ready, Command, Event
    <3>3. api[c].st = "queued"
      BY <3>2 DEF Read
    <3> QED BY <3>1, <3>3, <1>0, ApiFacts
  <2>2. CASE act.kind # "request"
    <3>1. act # Request(c)
      BY <2>2 DEF Request
    <3> QED BY <3>1, <2>2, <1>0, <1>1 DEF Read, TypeOK, Apis
  <2> QED BY <2>1, <2>2
<1>5. /\ pending' \in [Calls -> Pendings]
      /\ \A d \in Calls : pending'[d].ticket <= tickets
      /\ tasks' \subseteq [call : Calls, ticket : Nat]
      /\ \A d \in Calls \ {c} : pending'[d] = pending[d]
      /\ pending'[c] = NoPending \/ pending'[c] = pending[c]
      /\ Abort(c) => pending'[c] = NoPending
  BY <1>0, <1>1, AbortFacts
<1>6. AdmissionOK'
  BY <1>0, <1>1, <1>4, <1>5 DEF AdmissionOK, TypeOK, Apis, Pendings
<1>7. Taken(act, out)
  BY <1>0, <1>1, <1>3, <1>4, ReadTaken
<1>8. Spent(c) => Spent(c)'
  BY <1>0, <1>3, <1>7, TakenFacts DEF CallInv
<1>9. CASE Lost(act) /\ ~Foreign(act)
  <2>1. pending'[c] = NoPending /\ out.route = NoRoute
    BY <1>1, <1>3, <1>5, <1>9
  <2>2. \A l \in Legs : Arriving(l, c) => Dead(l, c)
    BY <1>0, <1>2, ReadNotArriving
  <2>3. CallInv(c)'
    BY <2>1, <2>2, <1>0, <1>3, <1>7, TakenEnds
  <2> QED BY <2>3, <1>0, <1>1, <1>3, <1>4, <1>5, <1>6, TurnInv
<1>10. CASE ~(Lost(act) /\ ~Foreign(act))
  <2>1. /\ pending' = pending /\ out = Stays(c) /\ out.route = route[c]
        /\ \A l \in Legs : \A op, d : ~Has(out.to[l], op, d)
    BY <1>1, <1>3, <1>10, StaysFacts
  <2>2. CASE pending[c] = NoPending
    <3>1. \A l \in Legs : ~Arriving(l, c)
      BY <2>2, <1>0, <1>2, ReadNotArriving
    <3>2. out.route # NoRoute =>
            /\ 1 \in met'[c] => out.route.mode = 1
            /\ 2 \in met'[c] /\ out.route.mode = 0 => Spent(c)'
      BY <2>1, <2>2, <1>0, <1>1, <1>8 DEF CallInv, Ratchet
    <3>3. stopped'[c] => out.route = NoRoute
      BY <2>1, <1>0, <1>1 DEF CallInv, Ended
    <3> QED BY <2>1, <2>2, <3>1, <3>2, <3>3, <1>0, <1>3, <1>7, TakenEnds,
               <1>1, <1>4, <1>5, <1>6, TurnInv
  <2>3. CASE pending[c] # NoPending
    <3>1. CallInv(c)'
      BY <2>1, <2>3, <1>0, <1>1, <1>3, <1>7, TakenWaits
    <3> QED BY <3>1, <1>0, <1>1, <1>3, <1>4, <1>5, <1>6, TurnInv
  <2> QED BY <2>2, <2>3
<1> QED BY <1>9, <1>10

\* The action that must be observed for: nothing waits yet, the call is new or
\* has a route, and no mode it met forbids cellular.
LEMMA ObservesFacts ==
  ASSUME VoiceInv, NEW act, Read(act), Ordinary(act), Observes(act)
  PROVE  LET c == act.call
         IN  /\ pending[c] = NoPending /\ NeedsAdmission(act) /\ ~Foreign(act)
             /\ ~Opens(act) /\ (\A l \in Legs : act # Event(l, "Incoming", c)) =>
                  route[c] # NoRoute
             /\ 1 \notin met[c]
             /\ ~stopped[c] \/ route[c] # NoRoute
<1> DEFINE c == act.call
<1>0. TypeOK /\ c \in Calls /\ CallInv(c) /\ Ready(act)
  BY DEF VoiceInv, Read, Ready
<1>1. /\ pending[c] = NoPending /\ NeedsAdmission(act) /\ ~Foreign(act)
      /\ FirstLeg(act) = "cellular" /\ InitialMode(act) = 2
  BY DEF Ordinary, Observes, NeedsHomeObservation
<1>2. ASSUME ~Opens(act), \A l \in Legs : act # Event(l, "Incoming", c) PROVE route[c] # NoRoute
  <2> SUFFICES ASSUME route[c] = NoRoute PROVE FALSE
    OBVIOUS
  <2>1. CASE \E op \in {"Accept", "Transfer"} : act = Command(op, c)
    BY <2>1, <1>1 DEF FirstLeg, Command, NoRoute
  <2>2. CASE \E l \in Legs : act = Event(l, "Unavailable", c)
    BY <2>2, <1>1 DEF FirstLeg, Event, NoRoute, First
  <2> QED BY <2>1, <2>2, <1>0, <1>1, <1>2
          DEF Ready, NeedsAdmission, Command, Event, Request, Costly, Opens
<1>3. Opens(act) \/ (\E l \in Legs : act = Event(l, "Incoming", c)) => Untouched(c)
  BY DEF Read
<1>4. CASE Untouched(c)
  BY <1>1, <1>2, <1>4 DEF Untouched
<1>5. CASE ~Untouched(c)
  <2>1. route[c] # NoRoute /\ ~Opens(act)
    BY <1>2, <1>3, <1>5
  <2>2. act.kind # "request"
    BY <2>1 DEF Opens
  <2>3. route[c].mode # 1
    BY <2>2, <1>0, <1>1, InitialFacts
  <2> QED BY <2>1, <2>3, <1>0, <1>1 DEF CallInv, Ratchet
<1> QED BY <1>4, <1>5

\* An action of the trunk side names its command.
LEMMA TransferRead ==
  ASSUME NEW act, Read(act), asked' = asked, act = Command("Transfer", act.call)
  PROVE  Spent(act.call)'
<1>1. "Transfer" \in asked[act.call]
  BY DEF Read, Ready, Command, Event, Request
<1> QED BY <1>1 DEF Read, Spent

\* So does one that must wait for an observation.
LEMMA HeldInv ==
  ASSUME VoiceInv, NEW act, Read(act), TakeHeld(act)
  PROVE  VoiceInv'
<1> DEFINE c == act.call
           out == Stays(c)
           new == [ticket |-> tickets + 1, initial |-> InitialMode(act),
                   owner |-> IF route[c] # NoRoute THEN route[c].owner ELSE act.leg,
                   act |-> act]
<1>0. /\ TypeOK /\ SessionInv /\ c \in Calls /\ CallInv(c) /\ Ready(act)
      /\ Waits(c) /\ Planned(c) /\ StartsOnce(c)
  BY DEF VoiceInv, Read, Ready, CallInv
<1>1. /\ Ordinary(act) /\ Observes(act) /\ Apply(act, out) /\ tickets' = tickets + 1
      /\ tasks' = tasks \cup {[call |-> c, ticket |-> tickets + 1]}
      /\ pending' = [pending EXCEPT ![c] = new]
      /\ api' = IF act.kind = "request" THEN [api EXCEPT ![c].st = "held"] ELSE api
      /\ met' = [met EXCEPT ![c] = @ \cup {InitialMode(act)}]
      /\ UNCHANGED <<results, stopped>>
  BY DEF TakeHeld, Revised
<1>2. /\ pending[c] = NoPending /\ NeedsAdmission(act) /\ ~Foreign(act)
      /\ ~Opens(act) /\ (\A l \in Legs : act # Event(l, "Incoming", c)) => route[c] # NoRoute
      /\ 1 \notin met[c]
      /\ ~stopped[c] \/ route[c] # NoRoute
  BY <1>1, ObservesFacts
<1>3. Sound(act, out)
  BY <1>0, KeepSound DEF Stays
<1>4. /\ api' \in [Calls -> Apis] /\ api'[c].st # "queued"
      /\ api'[c].st = "none" <=> api[c].st = "none"
      /\ \A d \in Calls \ {c} : api'[d] = api[d]
  <2>1. CASE act.kind = "request"
    <3>1. api' = [api EXCEPT ![c].st = "held"] /\ 0 \in Modes
      BY <2>1, <1>1 DEF Modes
    <3>2. act = Request(c)
      BY <2>1, <1>0 DEF Ready, Command, Event
    <3>3. api[c].st = "queued"
      BY <3>2 DEF Read
    <3> QED BY <3>1, <3>3, <1>0, ApiFacts
  <2>2. CASE act.kind # "request"
    <3>1. act # Request(c)
      BY <2>2 DEF Request
    <3> QED BY <3>1, <2>2, <1>0, <1>1 DEF Read, TypeOK, Apis
  <2> QED BY <2>1, <2>2
<1>5. InitialMode(act) = 2 /\ 2 \in Modes
  BY <1>1 DEF Observes, Modes
<1>6. act \in Waiting
  <2>1. \/ \E op \in Costly : act = Command(op, c)
        \/ act = Request(c)
        \/ \E l \in Legs, op \in {"Incoming", "Unavailable"} : act = Event(l, op, c)
    BY <1>0, <1>2 DEF Ready, NeedsAdmission, Command, Event, Request
  <2> QED BY <2>1, <1>0 DEF Waiting, Command, Event, Request, Costly
<1>7. /\ new \in Pendings /\ new # NoPending /\ new.act = act /\ new.initial = 2
      /\ new.ticket = tickets + 1
      /\ new.owner = IF route[c] # NoRoute THEN route[c].owner ELSE act.leg
  <2>1. tickets + 1 \in Nat /\ tickets + 1 # 0
    BY <1>0 DEF TypeOK
  <2>2. route[c].owner \in Legs \cup {"none"} /\ act.leg \in Legs \cup {"none"}
    BY <1>0, <1>6 DEF TypeOK, Routes, Waiting
  <2>3. new # NoPending
    BY <2>1 DEF NoPending
  <2> QED BY <2>1, <2>2, <2>3, <1>5, <1>6 DEF Pendings
<1> HIDE DEF new, out
<1>8. /\ pending' \in [Calls -> Pendings] /\ pending'[c] = new
      /\ \A d \in Calls \ {c} : pending'[d] = pending[d]
  BY <1>0, <1>1, <1>7 DEF TypeOK, Pendings
<1>9. \A d \in Calls : pending'[d].ticket <= tickets'
  <2>1. tickets \in Nat /\ \A d \in Calls : pending[d].ticket \in Nat /\ pending[d].ticket <= tickets
    BY <1>0 DEF TypeOK
  <2>2. tickets' = tickets + 1
    BY <1>1
  <2>3. \A d \in Calls \ {c} : pending'[d].ticket <= tickets'
    BY <2>1, <2>2, <1>8
  <2>4. pending'[c].ticket <= tickets'
    BY <2>1, <2>2, <1>7, <1>8
  <2> QED BY <2>3, <2>4
<1>10. /\ met' \in [Calls -> SUBSET Modes] /\ met'[c] = met[c] \cup {2}
       /\ \A d \in Calls \ {c} : met'[d] = met[d]
  BY <1>0, <1>1, <1>5 DEF TypeOK
<1>11. tasks' \subseteq [call : Calls, ticket : Nat] /\ tickets' \in Nat
  BY <1>0, <1>1 DEF TypeOK
<1>12. AdmissionOK'
  BY <1>0, <1>1, <1>4, <1>8, <1>9, <1>10, <1>11 DEF AdmissionOK, TypeOK, Apis, Pendings
<1>13. Taken(act, out)
  BY <1>0, <1>1, <1>3, <1>4, ReadTaken DEF out
<1>14. act = Command("Transfer", c) => Spent(c)'
  BY <1>13, <1>0, <1>1, <1>3, ApplyFacts, TransferRead DEF out
<1>15. CallInv(c)'
  <2>1. /\ \A l \in Legs, op \in Events : act = Event(l, op, c) => Has(evs[l], op, c)
        /\ \A l \in Legs : Has(evs[l], "Incoming", c) => act = Event(l, "Incoming", c)
    BY DEF Read
  <2>2. stopped'[c] = stopped[c]
    BY <1>1
  <2> QED BY <2>1, <2>2, <1>0, <1>2, <1>3, <1>7, <1>8, <1>10, <1>13, <1>14, TakenHolds DEF out
<1> QED BY <1>0, <1>1, <1>3, <1>4, <1>8, <1>10, <1>12, <1>15, TurnInv

\* So does one rejected because too many wait.
LEMMA OverCapInv ==
  ASSUME VoiceInv, NEW act, Read(act), TakeOverCap(act)
  PROVE  VoiceInv'
<1> DEFINE c == act.call
           out == RejectCostChecked(act)
<1>0. /\ TypeOK /\ SessionInv /\ c \in Calls /\ CallInv(c) /\ Ready(act)
      /\ Waits(c) /\ Planned(c) /\ StartsOnce(c)
  BY DEF VoiceInv, Read, Ready, CallInv
<1>1. /\ Ordinary(act) /\ Observes(act) /\ Apply(act, out)
      /\ api' = Answer(act, out, FALSE)
      /\ UNCHANGED <<admissionVars, met, stopped>>
  BY DEF TakeOverCap
<1> HIDE DEF out
<1>2. /\ pending[c] = NoPending /\ NeedsAdmission(act) /\ ~Foreign(act)
      /\ pending' = pending /\ met' = met /\ stopped' = stopped
  BY <1>1, ObservesFacts DEF admissionVars
<1>3. ASSUME NEW l \in Legs, act = Event(l, "Unavailable", c)
      PROVE  route[c].owner \in {"none", l}
  BY <1>2, <1>3 DEF Foreign, Event, Owner, NoRoute
<1>4. /\ Sound(act, out) /\ Placed(act, out)
      /\ out.route = route[c] \/ out.route = NoRoute
  BY <1>0, <1>2, <1>3, RejectSound DEF out
<1>5. /\ api' \in [Calls -> Apis] /\ \A d \in Calls \ {c} : api'[d] = api[d]
      /\ \/ api' = api /\ ~(act.kind = "request" /\ api[c].st = "queued")
         \/ /\ act.kind = "request" /\ api[c].st \in {"queued", "held"}
            /\ api'[c].st \in {"gone", "failed", "ok"}
  BY <1>0, <1>1, AnswerFacts
<1>6. api'[c].st # "queued" /\ (api'[c].st = "none" <=> api[c].st = "none")
  BY <1>5 DEF Read, Request
<1>7. Taken(act, out)
  BY <1>0, <1>1, <1>4, <1>6, ReadTaken
<1>8. Spent(c) => Spent(c)'
  BY <1>0, <1>4, <1>7, TakenFacts
<1>9. \A l \in Legs : Arriving(l, c) =>
        out.route.owner = l \/ Dead(l, c) \/ Has(out.to[l], "Stop", c)
  BY <1>0, <1>2, <1>4, ReadNotArriving DEF Placed
<1>10. CallInv(c)'
  <2>1. out.route # NoRoute =>
          /\ 1 \in met'[c] => out.route.mode = 1
          /\ 2 \in met'[c] /\ out.route.mode = 0 => Spent(c)'
    BY <1>0, <1>2, <1>4, <1>8 DEF CallInv, Ratchet
  <2>2. stopped'[c] => out.route = NoRoute
    BY <1>0, <1>2, <1>4 DEF CallInv, Ended
  <2> QED BY <2>1, <2>2, <1>0, <1>2, <1>4, <1>7, <1>9, TakenEnds
<1>11. AdmissionOK'
  BY <1>0, <1>1, <1>5 DEF AdmissionOK, TypeOK, Apis, admissionVars
<1> QED BY <1>0, <1>1, <1>2, <1>4, <1>5, <1>10, <1>11, TurnInv

\* Dispatching what is not a request.
LEMMA DispatchPlain ==
  ASSUME NEW act, act.kind # "request", NEW mode, NEW onlyWifi, NEW admitted,
         NEW vanishes \in Vanishes(act), NEW routed, routed = Routed(act, onlyWifi, admitted),
         NEW out, out = Dispatch(act, mode, onlyWifi, admitted, vanishes)
  PROVE  /\ out.to = routed.to
         /\ routed.route = NoRoute => out.route = NoRoute
         /\ routed.route # NoRoute => out.route = [routed.route EXCEPT !.mode = mode]
<1>1. ~vanishes
  BY DEF Vanishes
<1>2. out = Outcome(IF routed.route = NoRoute THEN NoRoute
                    ELSE [routed.route EXCEPT !.mode = mode], routed.to, routed.told)
  BY <1>1 DEF Dispatch
<1> QED BY <1>2, OutcomeParts

\* What neither needs an admission nor ends one leaves the route where it is,
\* unless the link was lost.
LEMMA IdleOut ==
  ASSUME TypeOK, NEW act, act.call \in Calls, Waits(act.call), Planned(act.call),
         \/ act = Command("Renegotiate", act.call)
         \/ \E l \in Legs, op \in {"Connected", "TransferResponse"} :
              act = Event(l, op, act.call),
         NEW mode, NEW onlyWifi, NEW admitted, NEW vanishes \in Vanishes(act), NEW out,
         out = Dispatch(act, mode, onlyWifi, admitted, vanishes)
  PROVE  /\ out.route.owner \in {"none", route[act.call].owner}
         /\ \A l \in Legs : ~Has(out.to[l], "Start", act.call)
         /\ route[act.call] # NoRoute /\ out.route = NoRoute => DropReason(act, out) # "no"
<1> DEFINE c == act.call
           rt == route[c]
           routed == Routed(act, onlyWifi, admitted)
<1>0. /\ rt \in Routes /\ NoRoute \in Routes /\ rt.owner \in Legs \cup {"none"}
      /\ rt.owner = "none" <=> rt = NoRoute
      /\ NoRoute.owner = "none" /\ act.kind # "request"
  BY RouteFacts DEF Command, Event
<1>1. \/ rt # NoRoute /\ ~CurrentGeneration(c) /\ routed.route = NoRoute /\ routed.to = Nothing
      \/ /\ routed.route = rt
         /\ routed.to = Nothing \/ (rt # NoRoute /\ routed.to = Only(rt.owner, "Renegotiate", c))
  <2>1. CASE act = Command("Renegotiate", c)
    <3>1. routed = RouteControl(c, "Renegotiate", onlyWifi)
      BY <2>1 DEF Routed, Command
    <3>2. ~DeniedOnCellular(c, "Renegotiate", onlyWifi)
      BY DEF DeniedOnCellular
    <3>3. CASE rt = NoRoute
      BY <3>1, <3>3, OutcomeParts DEF RouteControl
    <3>4. CASE rt # NoRoute /\ ~CurrentGeneration(c)
      BY <3>1, <3>4, OutcomeParts DEF RouteControl
    <3>5. CASE rt # NoRoute /\ CurrentGeneration(c)
      BY <3>1, <3>2, <3>5, OutcomeParts DEF RouteControl
    <3> QED BY <3>3, <3>4, <3>5
  <2>2. ASSUME NEW l \in Legs, NEW op \in {"Connected", "TransferResponse"}, act = Event(l, op, c)
        PROVE  \/ rt # NoRoute /\ ~CurrentGeneration(c) /\ routed.route = NoRoute
                    /\ routed.to = Nothing
               \/ routed.route = rt /\ routed.to = Nothing
    <3>1. routed = RouteEvent(l, op, c, onlyWifi, admitted)
      BY <2>2 DEF Routed, Event
    <3>2. CASE rt.owner # l
      BY <3>1, <3>2, OutcomeParts DEF RouteEvent, Stays
    <3>3. CASE rt.owner = l /\ ~CurrentGeneration(c)
      BY <3>1, <3>3, <1>0, OutcomeParts DEF RouteEvent, Legs
    <3>4. CASE rt.owner = l /\ CurrentGeneration(c)
      BY <3>1, <3>4, OutcomeParts DEF RouteEvent, TerminalEvents
    <3> QED BY <3>2, <3>3, <3>4
  <2> QED BY <2>1, <2>2
<1>2. \A l \in Legs : ~Has(routed.to[l], "Start", c)
  <2>1. CASE routed.to = Nothing
    BY <2>1, NothingFacts
  <2>2. CASE rt # NoRoute /\ routed.to = Only(rt.owner, "Renegotiate", c)
    <3>1. rt.owner \in Legs /\ "Renegotiate" \in Commands /\ "Start" \in Commands
      BY <2>2, <1>0 DEF Commands
    <3> QED BY <3>1, <2>2, OnlyOut
  <2> QED BY <2>1, <2>2, <1>1
<1>3. /\ out.to = routed.to
      /\ routed.route = NoRoute => out.route = NoRoute
      /\ routed.route # NoRoute => out.route = [routed.route EXCEPT !.mode = mode]
  BY <1>0, DispatchPlain
<1> HIDE DEF routed, rt
<1>4. routed.route \in Routes /\ routed.route.owner \in {"none", rt.owner}
  BY <1>0, <1>1
<1>5. out.route.owner = routed.route.owner
  BY <1>3, <1>4 DEF Routes
<1>6. rt # NoRoute /\ out.route = NoRoute => ~CurrentGeneration(c)
  BY <1>0, <1>1, <1>5
<1> QED BY <1>2, <1>3, <1>4, <1>5, <1>6 DEF DropReason, rt

\* The event that ends a call leaves no route.
LEMMA TerminalOut ==
  ASSUME TypeOK, NEW act, act.call \in Calls, NEW l \in Legs,
         NEW op \in TerminalEvents \ {"Unavailable"}, act = Event(l, op, act.call),
         route[act.call].owner = l,
         NEW mode, NEW onlyWifi, NEW admitted, NEW vanishes \in Vanishes(act), NEW out,
         out = Dispatch(act, mode, onlyWifi, admitted, vanishes)
  PROVE  out.route = NoRoute
<1> DEFINE c == act.call
           routed == Routed(act, onlyWifi, admitted)
<1>1. routed = RouteEvent(l, op, c, onlyWifi, admitted) /\ act.kind # "request"
  BY DEF Routed, Event, TerminalEvents
<1>2. routed.route = NoRoute
  <2>1. CASE CurrentGeneration(c)
    BY <1>1, <2>1, OutcomeParts DEF RouteEvent, TerminalEvents
  <2>2. CASE ~CurrentGeneration(c)
    BY <1>1, <2>2, OutcomeParts DEF RouteEvent, TerminalEvents
  <2> QED BY <2>1, <2>2
<1> HIDE DEF routed
<1>3. routed = Routed(act, onlyWifi, admitted)
  BY DEF routed
<1>4. ~vanishes
  BY <1>1 DEF Vanishes
<1>5. out = Outcome(NoRoute, routed.to, routed.told)
  BY <1>2, <1>3, <1>4 DEF Dispatch
<1> QED BY <1>5, OutcomeParts

\* The mode a call keeps when an event ends the wait of one of its actions.
LEMMA CancelledWait ==
  ASSUME VoiceInv, NEW act, Read(act), Ordinary(act), CancelsPending(act),
         route[act.call] # NoRoute, pending[act.call] # NoPending,
         act # Command("Stop", act.call),
         \A l \in Legs, op \in TerminalEvents \ {"Unavailable"} :
           act = Event(l, op, act.call) => route[act.call].owner # l
  PROVE  Spent(act.call)
<1> DEFINE c == act.call
<1>0. TypeOK /\ c \in Calls /\ CallInv(c) /\ Ready(act) /\ ~Foreign(act)
  BY DEF VoiceInv, Read, Ready, Ordinary
<1>1. route[c].owner \in Legs
  BY <1>0 DEF TypeOK, Routes, CallInv, Waits
<1>2. PICK l \in Legs, op \in ({"Answered"} \cup TerminalEvents) \ {"Unavailable"} :
        act = Event(l, op, c)
  BY <1>0 DEF CancelsPending, Ready, Command, Event, Request
<1>3. route[c].owner = l
  BY <1>0, <1>1, <1>2 DEF Foreign, Event, Owner, Legs
<1>4. act = Event(l, "Answered", c)
  BY <1>2, <1>3
<1>5. Outgoing(c) /\ Has(evs[l], "Answered", c)
  BY <1>0, <1>4 DEF Ready, Read, Events
<1>6. /\ ~Opens(pending[c].act) /\ \A k \in Legs : pending[c].act # Event(k, "Incoming", c)
  BY <1>0 DEF CallInv, HeldStart, Rings, Arriving
<1>7. \A k \in Legs : pending[c].act # Event(k, "Unavailable", c)
  BY <1>0, <1>1, <1>3, <1>5 DEF CallInv, Given, Legs
<1>8. pending[c].act # Command("Accept", c)
  BY <1>0, <1>5 DEF CallInv, Ratchet, OneWay, Costly
<1>9. pending[c].act = Command("Transfer", c)
  BY <1>0, <1>6, <1>7, <1>8 DEF CallInv, Waits, Opens, Command, Request, Costly
<1> QED BY <1>0, <1>9 DEF CallInv, Ratchet

\* The mode of a route made or kept at once.
LEMMA NowRatchet ==
  ASSUME VoiceInv, NEW act, Read(act), Ordinary(act), NEW out, Sound(act, out),
         out.route # NoRoute, out.route.mode = InitialMode(act),
         act # Command("Stop", act.call),
         CancelsPending(act) \/ pending[act.call] = NoPending,
         \A l \in Legs, op \in TerminalEvents \ {"Unavailable"} :
           act = Event(l, op, act.call) => route[act.call].owner # l
  PROVE  /\ 1 \in met[act.call] => out.route.mode = 1
         /\ 2 \in met[act.call] /\ out.route.mode = 0 => Spent(act.call)
         /\ ~stopped[act.call]
<1> DEFINE c == act.call
<1>0. TypeOK /\ c \in Calls /\ CallInv(c) /\ Ready(act)
  BY DEF VoiceInv, Read, Ready
<1>1. \/ route[c] # NoRoute \/ Opens(act) \/ \E l \in Legs : act = Event(l, "Incoming", c)
  BY DEF Sound
<1>2. CASE Untouched(c)
  BY <1>2 DEF Untouched
<1>3. CASE ~Untouched(c)
  <2>1. route[c] # NoRoute /\ ~Opens(act)
    BY <1>1, <1>3 DEF Read
  <2>2. act.kind # "request"
    BY <2>1 DEF Opens
  <2>3. /\ route[c].mode = 1 => InitialMode(act) = 1
        /\ InitialMode(act) = 0 => route[c].mode = 0
    BY <2>2, <1>0, InitialFacts
  <2>4. 1 \in met[c] => route[c].mode = 1
    BY <2>1, <1>0 DEF CallInv, Ratchet
  <2>5. 2 \in met[c] /\ route[c].mode = 0 => Spent(c)
    <3>1. CASE pending[c] = NoPending
      BY <3>1, <2>1, <1>0 DEF CallInv, Ratchet
    <3>2. CASE pending[c] # NoPending
      BY <3>2, <2>1, CancelledWait
    <3> QED BY <3>1, <3>2
  <2>6. ~stopped[c]
    BY <2>1, <1>0 DEF CallInv, Ended
  <2> QED BY <2>3, <2>4, <2>5, <2>6
<1> QED BY <1>2, <1>3

\* So does one dispatched at once.
LEMMA NowInv ==
  ASSUME VoiceInv, NEW act, Read(act), TakeNow(act)
  PROVE  VoiceInv'
<1> DEFINE c == act.call
           mode == InitialMode(act)
           stop == act.kind = "command" /\ act.op = "Stop"
<1>0. /\ TypeOK /\ SessionInv /\ c \in Calls /\ CallInv(c) /\ Ready(act)
      /\ Waits(c) /\ Planned(c) /\ StartsOnce(c)
  BY DEF VoiceInv, Read, Ready, CallInv
<1>1. PICK admitted \in Admitted(act), vanishes \in Vanishes(act) :
        LET out == Dispatch(act, mode, mode # 0, admitted, vanishes)
        IN  Apply(act, out) /\ api' = Answer(act, out, vanishes)
  BY DEF TakeNow
<1>2. /\ Ordinary(act) /\ UNCHANGED <<results, tickets>>
      /\ IF CancelsPending(act) THEN Abort(c) ELSE UNCHANGED <<pending, tasks>>
      /\ met' = IF NeedsAdmission(act) THEN [met EXCEPT ![c] = @ \cup {mode}] ELSE met
      /\ stopped' = [stopped EXCEPT ![c] = @ \/ stop]
  BY DEF TakeNow
<1> DEFINE out == Dispatch(act, mode, mode # 0, admitted, vanishes)
<1>3. Apply(act, out) /\ api' = Answer(act, out, vanishes)
  BY <1>1
<1>4. mode \in Modes
  BY <1>0, InitialFacts
<1>5. vanishes => act.kind = "request"
  BY DEF Vanishes
<1> HIDE DEF out, mode
<1>6. Carried(act, out, mode # 0) /\ (out.route # NoRoute => out.route.mode = mode)
  BY <1>0, <1>4, <1>5, DispatchCarried DEF out
<1>7. /\ Sound(act, out) /\ Placed(act, out)
      /\ act = Command("Stop", c) => out.route = NoRoute
  BY <1>6 DEF Carried
<1>8. stop <=> act = Command("Stop", c)
  BY <1>0 DEF Ready, Command, Event, Request
<1>9. /\ api' \in [Calls -> Apis] /\ \A d \in Calls \ {c} : api'[d] = api[d]
      /\ \/ api' = api /\ ~(act.kind = "request" /\ api[c].st = "queued")
         \/ /\ act.kind = "request" /\ api[c].st \in {"queued", "held"}
            /\ api'[c].st \in {"gone", "failed", "ok"}
  BY <1>0, <1>3, AnswerFacts
<1>10. api'[c].st # "queued" /\ (api'[c].st = "none" <=> api[c].st = "none")
  BY <1>9 DEF Read, Request
<1>11. Taken(act, out)
  BY <1>0, <1>3, <1>7, <1>10, ReadTaken
<1>12. Spent(c) => Spent(c)'
  BY <1>0, <1>7, <1>11, TakenFacts
<1>13. /\ pending' \in [Calls -> Pendings]
       /\ \A d \in Calls : pending'[d].ticket <= tickets
       /\ tasks' \subseteq [call : Calls, ticket : Nat]
       /\ \A d \in Calls \ {c} : pending'[d] = pending[d]
       /\ pending'[c] = NoPending \/ pending'[c] = pending[c]
       /\ Abort(c) => pending'[c] = NoPending
  BY <1>0, <1>2, AbortFacts
<1>14. /\ met' \in [Calls -> SUBSET Modes] /\ \A d \in Calls \ {c} : met'[d] = met[d]
       /\ NeedsAdmission(act) => met'[c] = met[c] \cup {mode}
       /\ ~NeedsAdmission(act) => met'[c] = met[c]
  BY <1>0, <1>2, <1>4 DEF TypeOK
<1>15. /\ stopped' \in [Calls -> BOOLEAN] /\ \A d \in Calls \ {c} : stopped'[d] = stopped[d]
       /\ stopped'[c] = (stopped[c] \/ stop)
  BY <1>0, <1>2 DEF TypeOK
<1>16. AdmissionOK'
  BY <1>0, <1>2, <1>9, <1>13, <1>14, <1>15 DEF AdmissionOK, TypeOK, Apis, Pendings
<1>17. ASSUME NEW l \in Legs, NEW op \in TerminalEvents \ {"Unavailable"},
              act = Event(l, op, c), route[c].owner = l
       PROVE  out.route = NoRoute
  BY <1>0, <1>17, TerminalOut DEF out
<1>18. ASSUME CancelsPending(act) \/ pending[c] = NoPending
       PROVE  CallInv(c)'
  <2>1. pending'[c] = NoPending
    BY <1>2, <1>13, <1>18
  <2>2. ASSUME NEW l \in Legs, Arriving(l, c)
        PROVE  out.route.owner = l \/ Dead(l, c) \/ Has(out.to[l], "Stop", c)
    <3>1. CASE act = Event(l, "Incoming", c)
      BY <3>1, <1>7 DEF Placed
    <3>2. CASE act # Event(l, "Incoming", c)
      BY <3>2, <2>2, <1>0, ReadNotArriving
    <3> QED BY <3>1, <3>2
  <2>3. ASSUME out.route # NoRoute
        PROVE  /\ 1 \in met'[c] => out.route.mode = 1
               /\ 2 \in met'[c] /\ out.route.mode = 0 => Spent(c)'
               /\ ~stopped'[c]
    <3>1. ~stop /\ out.route.mode = mode
      BY <2>3, <1>6, <1>7, <1>8
    <3>2. \A l \in Legs, op \in TerminalEvents \ {"Unavailable"} :
            act = Event(l, op, c) => route[c].owner # l
      BY <2>3, <1>17
    <3>3. /\ 1 \in met[c] => out.route.mode = 1
          /\ 2 \in met[c] /\ out.route.mode = 0 => Spent(c)
          /\ ~stopped[c]
      BY <2>3, <3>1, <3>2, <1>2, <1>7, <1>8, <1>18, NowRatchet DEF mode
    <3>4. met'[c] = met[c] \/ met'[c] = met[c] \cup {mode}
      BY <1>14
    <3>5. ~stopped'[c]
      BY <3>1, <3>3, <1>15, Zenon
    <3> QED BY <3>1, <3>3, <3>4, <3>5, <1>12
  <2>4. stopped'[c] => out.route = NoRoute
    BY <2>3
  <2> QED BY <2>1, <2>2, <2>3, <2>4, <1>0, <1>7, <1>11, TakenEnds
<1>19. ASSUME ~CancelsPending(act), pending[c] # NoPending
       PROVE  CallInv(c)'
  <2>1. ~NeedsAdmission(act) /\ pending' = pending
    BY <1>2, <1>19 DEF Ordinary
  <2>2. \/ act = Command("Renegotiate", c)
        \/ \E l \in Legs, op \in {"Connected", "TransferResponse"} : act = Event(l, op, c)
    BY <2>1, <1>0, <1>19 DEF Ready, CancelsPending, NeedsAdmission, Command, Request, Event,
                             Commands, Costly, Events, TerminalEvents
  <2>3. /\ out.route.owner \in {"none", route[c].owner}
        /\ \A l \in Legs : ~Has(out.to[l], "Start", c)
        /\ route[c] # NoRoute /\ out.route = NoRoute => DropReason(act, out) # "no"
    BY <2>2, <1>0, IdleOut DEF out
  <2>4. dropped'[c] = DropReason(act, out)
    BY <1>0, <1>3, <1>7, ApplyFacts
  <2>5. ~stop /\ met'[c] = met[c] /\ stopped'[c] = stopped[c]
    BY <2>1, <2>2, <1>0, <1>14, <1>15 DEF Command, Event, TypeOK
  <2>6. ~Opens(pending[c].act)
    <3> SUFFICES ASSUME Opens(pending[c].act) PROVE FALSE
      OBVIOUS
    <3>1. asked[c] \subseteq {"Start", "Stop"} /\ \A l \in Legs : Clean(l, c)
      BY <1>0, <1>19 DEF CallInv, HeldStart
    <3>2. CASE act = Command("Renegotiate", c)
      BY <3>1, <3>2, <1>0 DEF Ready, Command, Event, Request
    <3>3. ASSUME NEW l \in Legs, NEW op \in {"Connected", "TransferResponse"},
                 act = Event(l, op, c)
          PROVE  FALSE
      <4>1. Has(evs[l], op, c)
        BY <3>3 DEF Read, Events
      <4> QED BY <4>1, <3>1, HasAbout DEF Clean
    <3> QED BY <3>2, <3>3, <2>2
  <2>7. \A l \in Legs : pending[c].act # Event(l, "Incoming", c)
    <3> SUFFICES ASSUME NEW l \in Legs, pending[c].act = Event(l, "Incoming", c) PROVE FALSE
      OBVIOUS
    <3>1. Arriving(l, c)
      BY <1>19 DEF Arriving
    <3>2. act # Event(l, "Incoming", c)
      BY <2>2 DEF Event, Command
    <3>3. \E op \in {"Ended", "Cancelled"} : act = Event(l, op, c)
      BY <3>1, <3>2, <1>0, ReadNotArriving
    <3> QED BY <3>3, <2>2 DEF Event, Command
  <2> QED BY <2>1, <2>3, <2>4, <2>5, <2>6, <2>7, <1>0, <1>7, <1>11, <1>19, TakenWaits
<1>20. CallInv(c)'
  BY <1>18, <1>19
<1> QED BY <1>0, <1>3, <1>7, <1>9, <1>13, <1>14, <1>15, <1>16, <1>20, TurnInv

-----------------------------------------------------------------------------
(* The action that waited.                                                 *)

\* An action that waited is as ready as one just read.
LEMMA PendingReady ==
  ASSUME VoiceInv, NEW c \in Calls, pending[c] # NoPending, NEW act, act = pending[c].act
  PROVE  /\ act.call = c /\ Ready(act) /\ NeedsAdmission(act) /\ c \in used
         /\ \A l \in Legs : act = Event(l, "Unavailable", c) => route[c].owner \in {"none", l}
         /\ ~Has(cmds, "Start", c) /\ api[c].st # "queued"
         /\ \A l \in Legs : ~Has(evs[l], "Incoming", c)
         /\ \A l \in Legs : Arriving(l, c) => act = Event(l, "Incoming", c)
         /\ act.kind = "request" => route[c] = NoRoute
         /\ ~stopped[c] /\ 1 \notin met[c]
<1>0. CallInv(c) /\ ~Untouched(c)
  BY DEF VoiceInv, Untouched
<1>1. \/ \E op \in Costly : act = Command(op, c)
      \/ act = Request(c)
      \/ \E l \in Legs, op \in {"Incoming", "Unavailable"} : act = Event(l, op, c)
  BY <1>0 DEF CallInv, Waits
<1>2. act.call = c /\ NeedsAdmission(act)
  <2>1. ASSUME NEW op \in Costly, act = Command(op, c)
        PROVE  act.call = c /\ NeedsAdmission(act)
    BY <2>1 DEF Command, NeedsAdmission
  <2>2. ASSUME act = Request(c) PROVE act.call = c /\ NeedsAdmission(act)
    BY <2>2 DEF Request, NeedsAdmission
  <2>3. ASSUME NEW l \in Legs, NEW op \in {"Incoming", "Unavailable"}, act = Event(l, op, c)
        PROVE  act.call = c /\ NeedsAdmission(act)
    BY <2>3 DEF Event, NeedsAdmission
  <2> QED BY <2>1, <2>2, <2>3, <1>1
<1>3. /\ c \in used /\ ~Has(cmds, "Start", c) /\ api[c].st # "queued"
      /\ \A l \in Legs : ~Has(evs[l], "Incoming", c)
  BY <1>0 DEF CallInv, Unused, Starts, Requested, Rings
<1>4. \A l \in Legs : Arriving(l, c) => act = Event(l, "Incoming", c)
  BY <1>3 DEF Arriving
<1>5. Opens(act) => /\ route[c] = NoRoute /\ asked[c] \subseteq {"Start", "Stop"}
                    /\ heard[c] = "nothing" /\ Outgoing(c)
                    /\ \A l \in Legs : Clean(l, c)
  BY <1>0 DEF CallInv, HeldStart
<1>6. ASSUME NEW l \in Legs, act = Event(l, "Incoming", c)
      PROVE  route[c] = NoRoute /\ asked[c] = {} /\ ~Outgoing(c)
  <2>1. Arriving(l, c)
    BY <1>6 DEF Arriving
  <2> QED BY <2>1, <1>0 DEF CallInv, Rings, Outgoing
<1>7. ASSUME NEW l \in Legs, act = Event(l, "Unavailable", c)
      PROVE  Dead(l, c) /\ route[c].owner \in {"none", l}
  BY <1>0, <1>7 DEF CallInv, Given
<1>8. \A op \in Costly : act = Command(op, c) => op \in asked[c] /\ op \in Commands
  BY <1>0 DEF CallInv, Ratchet, Costly, Commands
<1>9. ASSUME NEW l \in Legs, NEW op, act = Event(l, op, c)
      PROVE  op \in {"Incoming", "Unavailable"}
  <2>1. act.kind = "event" /\ act.op = op
    BY <1>9 DEF Event
  <2>2. (\A o : act # Command(o, c)) /\ act # Request(c)
    BY <2>1 DEF Command, Request
  <2>3. PICK k \in Legs, o \in {"Incoming", "Unavailable"} : act = Event(k, o, c)
    BY <2>2, <1>1
  <2>4. act.op = o
    BY <2>3 DEF Event
  <2> QED BY <2>1, <2>4
<1>10. /\ \/ \E op \in Commands : act = Command(op, c) /\ op \in asked[c]
          \/ act = Request(c)
          \/ \E l \in Legs, op \in Events : act = Event(l, op, c)
  BY <1>1, <1>8 DEF Events
<1>11. \A l \in Legs : /\ \A op \in Over : act = Event(l, op, c) => Dead(l, c)
                       /\ act # Event(l, "Answered", c)
  BY <1>7, <1>9 DEF Over
<1>12. Ready(act)
  BY <1>2, <1>5, <1>6, <1>10, <1>11 DEF Ready
<1>13. act.kind = "request" => route[c] = NoRoute
  BY <1>5 DEF Opens
<1>14. ~stopped[c] /\ 1 \notin met[c]
  BY <1>0 DEF CallInv, Ended, Ratchet
<1> QED BY <1>2, <1>3, <1>4, <1>7, <1>12, <1>13, <1>14

\* What is made of an action when its observation is joined.
LEMMA ResultOut ==
  ASSUME VoiceInv, NEW c \in Calls, pending[c] # NoPending, NEW act, act = pending[c].act,
         NEW only, NEW admitted, NEW vanishes \in Vanishes(act), NEW out,
         LET mode == Combined(pending[c].initial, gate)
         IN  out = IF act.kind = "request" /\ api[c].st = "gone" THEN Stays(c)
                   ELSE Dispatch(act, mode, only, admitted, vanishes)
  PROVE  /\ Sound(act, out) /\ Placed(act, out) /\ Priced(act, out, only)
         /\ out.route # NoRoute => out.route.mode \in {1, 2}
<1> DEFINE mode == Combined(pending[c].initial, gate)
<1>0. /\ act.call = c /\ Ready(act) /\ (act.kind = "request" => route[c] = NoRoute)
      /\ TypeOK /\ SessionInv /\ Waits(c) /\ Planned(c)
  BY PendingReady DEF VoiceInv, CallInv
<1>1. mode \in Modes /\ mode # 0
  <2>1. pending[c].initial = 2 /\ 2 \in Modes /\ gate \in Modes
    BY <1>0 DEF Waits, Modes, TypeOK
  <2> QED BY <2>1, CombinedFacts
<1>2. CASE act.kind = "request" /\ api[c].st = "gone"
  <2>1. out = Stays(c)
    BY <1>2
  <2>2. out.route = NoRoute /\ out.to = Nothing
    BY <2>1, <1>0, <1>2, StaysFacts
  <2>3. Sound(act, out)
    BY <2>1, <1>0, KeepSound DEF Stays
  <2>4. Placed(act, out) /\ Priced(act, out, only)
    BY <2>2, <1>0, <1>2, PlacedOther, CheapOut
  <2> QED BY <2>2, <2>3, <2>4
<1>3. CASE ~(act.kind = "request" /\ api[c].st = "gone")
  <2>1. out = Dispatch(act, mode, only, admitted, vanishes)
    BY <1>3
  <2>2. vanishes => act.kind = "request"
    BY DEF Vanishes
  <2> HIDE DEF mode
  <2>3. Carried(act, out, only) /\ (out.route # NoRoute => out.route.mode = mode)
    BY <2>1, <2>2, <1>0, <1>1, DispatchCarried
  <2> QED BY <2>3, <1>1 DEF Carried, Modes
<1> QED BY <1>2, <1>3

\* Joining an observation keeps the invariant.
LEMMA ResultInv ==
  ASSUME VoiceInv, NEW r \in results, HandleResult(r)
  PROVE  VoiceInv'
<1> DEFINE c == r.call
           item == pending[c]
           act == item.act
           mode == Combined(item.initial, gate)
<1>0. TypeOK /\ SessionInv /\ c \in Calls /\ CallInv(c)
  BY DEF VoiceInv, TypeOK
<1>1. /\ results' \subseteq results
      /\ UNCHANGED <<evs, cmds, tasks, tickets, met, stopped>>
  BY DEF HandleResult
<1>2. CASE item # NoPending /\ item.ticket = r.ticket
  <2>1. PICK fresh \in BOOLEAN, admitted \in Admitted(act), vanishes \in Vanishes(act) :
          LET only == mode = 1 \/ (mode = 2 /\ ~(r.home /\ fresh))
              out == IF act.kind = "request" /\ api[c].st = "gone" THEN Stays(c)
                     ELSE Dispatch(act, mode, only, admitted, vanishes)
          IN  Apply(act, out) /\ api' = Answer(act, out, vanishes)
    BY <1>2 DEF HandleResult
  <2>2. pending' = [pending EXCEPT ![c] = NoPending]
    BY <1>2 DEF HandleResult
  <2> DEFINE only == mode = 1 \/ (mode = 2 /\ ~(r.home /\ fresh))
             out == IF act.kind = "request" /\ api[c].st = "gone" THEN Stays(c)
                    ELSE Dispatch(act, mode, only, admitted, vanishes)
  <2>3. Apply(act, out) /\ api' = Answer(act, out, vanishes)
    BY <2>1
  <2> HIDE DEF only
  <2>4. /\ Sound(act, out) /\ Placed(act, out)
        /\ out.route # NoRoute => out.route.mode \in {1, 2}
    BY <1>0, <1>2, ResultOut
  <2>5. /\ act.call = c /\ c \in used /\ Ready(act)
        /\ ~Has(cmds, "Start", c) /\ api[c].st # "queued"
        /\ \A l \in Legs : ~Has(evs[l], "Incoming", c)
        /\ \A l \in Legs : Arriving(l, c) => act = Event(l, "Incoming", c)
        /\ ~stopped[c] /\ 1 \notin met[c]
    BY <1>0, <1>2, PendingReady
  <2> HIDE DEF out, act, c, item, mode
  <2>6. /\ route'[c] = out.route /\ heard'[c] = Hears(heard[c], out.told)
        /\ dropped'[c] = DropReason(act, out)
        /\ dropped'[c] = "no" => dropped[c] = "no"
        /\ leg' = leg /\ asked' = asked /\ used' = used
        /\ \A l \in Legs : Joined(toLeg[l], out.to[l], toLeg'[l], c)
        /\ \A d \in Calls \ {c} :
             /\ route'[d] = route[d] /\ heard'[d] = heard[d] /\ dropped'[d] = dropped[d]
             /\ \A l \in Legs : Alike(toLeg[l], toLeg'[l], d)
        /\ SessionInv'
        /\ link' \in [Legs -> Links] /\ toLeg' \in [Legs -> Seq(Messages)]
        /\ route' \in [Calls -> Routes]
        /\ heard' \in [Calls -> {"nothing", "Incoming", "Answered", "over"}]
        /\ dropped' \in [Calls -> {"no", "stale", "refused", "lost"}]
        /\ UNCHANGED policyVars /\ lags' = lags
    BY <2>3, <2>4, <2>5, <1>0, ApplyFacts
  <2>7. /\ api' \in [Calls -> Apis] /\ \A d \in Calls \ {c} : api'[d] = api[d]
        /\ \/ api' = api /\ ~(act.kind = "request" /\ api[c].st = "queued")
           \/ /\ act.kind = "request" /\ api[c].st \in {"queued", "held"}
              /\ api'[c].st \in {"gone", "failed", "ok"}
    BY <2>3, <2>5, <1>0, AnswerFacts
  <2>8. api'[c].st # "queued" /\ (api'[c].st = "none" <=> api[c].st = "none")
    BY <2>5, <2>7
  <2>9. pending' \in [Calls -> Pendings] /\ pending'[c] = NoPending
          /\ \A d \in Calls \ {c} : pending'[d] = pending[d]
    BY <2>2, <1>0, NoPendingType DEF TypeOK, Pendings
  <2>10. \A d \in Calls : pending'[d].ticket <= tickets
    <3>1. tickets \in Nat /\ \A d \in Calls : pending[d].ticket <= tickets
      BY <1>0 DEF TypeOK
    <3>2. NoPending.ticket <= tickets
      BY <3>1 DEF NoPending
    <3> QED BY <3>1, <3>2, <2>9
  <2>11. TypeOK'
    BY <2>6, <2>7, <2>9, <2>10, <1>0, <1>1
       DEF TypeOK, Links, Messages, Apis, Pendings, policyVars
  <2>12. Taken(act, out)
    <3>1. \A l \in Legs : route[c].owner = l =>
            \/ out.route.owner = l \/ Dead(l, c) \/ Has(out.to[l], "Stop", c)
            \/ dropped'[c] # "no"
      BY <2>4, <2>5, <2>6 DEF Sound
    <3> QED BY <3>1, <2>5, <2>6, <2>8, <1>1, FewerSame DEF Taken
  <2>13. CallInv(c)'
    <3>1. \A l \in Legs : Arriving(l, c) =>
            out.route.owner = l \/ Dead(l, c) \/ Has(out.to[l], "Stop", c)
      BY <2>4, <2>5 DEF Placed
    <3>2. out.route # NoRoute =>
            /\ 1 \in met'[c] => out.route.mode = 1
            /\ 2 \in met'[c] /\ out.route.mode = 0 => Spent(c)'
      BY <2>4, <2>5, <1>1
    <3>3. ~stopped'[c]
      BY <2>5, <1>1
    <3> QED BY <3>1, <3>2, <3>3, <2>4, <2>5, <2>9, <2>12, <1>0, TakenEnds
  <2>14. ASSUME NEW d \in Calls, d # c PROVE CallInv(d)'
    <3>1. Frame(d)
      BY <2>14, <2>6, <2>7, <2>9, <1>1, FewerSame DEF Frame
    <3> QED BY <3>1, <1>0, FrameInv DEF VoiceInv
  <2> QED BY <2>6, <2>11, <2>13, <2>14 DEF VoiceInv
<1>3. CASE ~(item # NoPending /\ item.ticket = r.ticket)
  <2>1. /\ link' = Permissions(link, gate, enabled)
        /\ UNCHANGED <<leg, toLeg, asked, heard, api, used, route,
                       pending, policyVars, dropped, lags>>
    BY <1>3 DEF HandleResult, Refreshed
  <2> HIDE DEF c, item, act, mode
  <2>2. link' \in [Legs -> Links] /\ \A l \in Legs : link'[l].session = link[l].session
    <3>1. link \in [Legs -> Links]
      BY <1>0 DEF TypeOK, Links
    <3> QED BY <3>1, <2>1, PermissionFacts
  <2>3. TypeOK' /\ SessionInv'
    BY <2>1, <2>2, <1>0, <1>1 DEF TypeOK, SessionInv, Links, policyVars
  <2>4. \A d \in Calls : Frame(d)
    BY <2>1, <1>1, FewerSame DEF Frame, Alike
  <2> QED BY <2>3, <2>4, <1>0, FrameInv DEF VoiceInv
<1> QED BY <1>2, <1>3

-----------------------------------------------------------------------------
(* Everything that waits is rejected.                                      *)

\* No call, no message.
LEMMA EachNone ==
  ASSUME NEW msg \in Commands
  PROVE  Each({}, msg) = <<>>
<1> DEFINE q == Each({}, msg)
<1>0. {} \in SUBSET Calls
  OBVIOUS
<1>1. q \in Seq([op : Commands, call : Calls]) /\ \A c : ~About(q, c)
  BY <1>0, EachFacts
<1> HIDE DEF q
<1>2. ASSUME q # <<>> PROVE FALSE
  <2>1. About(q, Head(q).call)
    BY <1>1, <1>2, TailFacts
  <2> QED BY <2>1, <1>1
<1> QED BY <1>2 DEF q

\* What a rejected call leaves, and what a call that did not wait keeps.
LEMMA LagFacts ==
  ASSUME VoiceInv, NEW c \in Calls, NEW out, out = LagOutcome(c)
  PROVE  /\ out.route \in Routes
         /\ \A l \in Legs : ~HasConsumer(l) => out.to[l] = <<>>
         /\ pending[c] = NoPending =>
              out.route = route[c] /\ out.told = {} /\ \A l \in Legs : out.to[l] = <<>>
         /\ pending[c] # NoPending =>
              LET act == pending[c].act
              IN  /\ Sound(act, out) /\ Placed(act, out)
                  /\ out.route = NoRoute
                       \/ (out.route = route[c] /\ act = Command("Transfer", c))
                  /\ \A l \in Legs, op \in Commands : Has(out.to[l], op, c) => op = "Stop"
                  /\ \A l \in Legs : out.to[l] # <<>> => Has(out.to[l], "Stop", c)
                  /\ \A l \in Legs : route[c].owner = l =>
                       out.route.owner = l \/ Dead(l, c) \/ Has(out.to[l], "Stop", c)
<1>0. TypeOK /\ SessionInv /\ Waits(c) /\ Planned(c) /\ route[c] \in Routes
  BY DEF VoiceInv, CallInv, TypeOK
<1>1. CASE pending[c] = NoPending
  <2>1. out = Stays(c)
    BY <1>1 DEF LagOutcome
  <2>2. out.route = route[c] /\ out.to = Nothing /\ out.told = {}
    BY <2>1, StaysFacts
  <2> QED BY <2>2, <1>0, <1>1, NothingFacts
<1>2. CASE pending[c] # NoPending
  <2> DEFINE act == pending[c].act
  <2>1. out = RejectCostChecked(act)
    BY <1>2 DEF LagOutcome
  <2>2. /\ act.call = c /\ Ready(act) /\ NeedsAdmission(act)
        /\ \A l \in Legs : act = Event(l, "Unavailable", c) => route[c].owner \in {"none", l}
    BY <1>2, PendingReady
  <2> HIDE DEF act
  <2>3. /\ Sound(act, out) /\ Placed(act, out)
        /\ out.route = route[c] \/ out.route = NoRoute
        /\ out.route # NoRoute => act = Command("Transfer", c)
        /\ \A l \in Legs, op \in Commands : Has(out.to[l], op, c) => op = "Stop"
        /\ \A l \in Legs : out.to[l] # <<>> => Has(out.to[l], "Stop", c)
        /\ \A l \in Legs : route[c].owner = l =>
             out.route = route[c] \/ Dead(l, c) \/ Has(out.to[l], "Stop", c)
    BY <2>1, <2>2, <1>0, RejectSound
  <2>4. out.route \in Routes /\ \A l \in Legs : ~HasConsumer(l) => out.to[l] = <<>>
    BY <2>3 DEF Sound, Fits
  <2> QED BY <2>3, <2>4, <1>2 DEF act
<1> QED BY <1>1, <1>2

\* An overrun of the command queue keeps the invariant.
LEMMA LagInv ==
  ASSUME VoiceInv, RouterLagged
  PROVE  VoiceInv'
<1> DEFINE stops(l) == {c \in Calls : LagOutcome(c).to[l] # <<>>}
<1>0. TypeOK /\ SessionInv /\ \A c \in Calls : CallInv(c)
  BY DEF VoiceInv
<1>1. /\ cmds # <<>> /\ lags < MaxLags /\ lags' = lags + 1 /\ cmds' = Tail(cmds)
      /\ route' = [c \in Calls |-> LagOutcome(c).route]
      /\ toLeg' = [l \in Legs |-> toLeg[l] \o Each(stops(l), "Stop")]
      /\ api' = [c \in Calls |-> IF api[c].st = "held"
                                 THEN [api[c] EXCEPT !.st = "failed"]
                                 ELSE api[c]]
      /\ pending' = [c \in Calls |-> NoPending]
      /\ tasks' = {}
      /\ heard' = [c \in Calls |-> Hears(heard[c], LagOutcome(c).told)]
      /\ link' = Permissions(link, gate, enabled)
      /\ UNCHANGED <<leg, evs, asked, used, results, tickets, policyVars, historyVars>>
  BY DEF RouterLagged, Refreshed
<1>2. /\ cmds' \in Seq(Messages)
      /\ \A c : Fewer(cmds, cmds', c) /\ (TransferLast(cmds, c) => TransferLast(cmds', c))
  <2>1. cmds \in Seq(Messages)
    BY <1>0 DEF TypeOK, Messages
  <2> QED BY <2>1, <1>1, TailFacts DEF Fewer
<1>3. ASSUME NEW l \in Legs
      PROVE  /\ toLeg'[l] \in Seq(Messages)
             /\ \A op, c : Has(toLeg'[l], op, c) <=>
                  Has(toLeg[l], op, c) \/ (op = "Stop" /\ c \in stops(l))
             /\ \A c : About(toLeg'[l], c) <=> About(toLeg[l], c) \/ c \in stops(l)
             /\ \A op, c : Leads(toLeg[l], op, c) /\ ~(op = "Stop" /\ c \in stops(l))
                  => Leads(toLeg'[l], op, c)
             /\ ~HasConsumer(l) => toLeg'[l] = toLeg[l]
  <2> DEFINE q == toLeg[l]
             T == stops(l)
             e == Each(T, "Stop")
  <2>1. q \in Seq(Messages) /\ T \in SUBSET Calls /\ "Stop" \in Commands /\ toLeg'[l] = q \o e
    BY <1>0, <1>1 DEF TypeOK, Messages, Commands
  <2>2. ~HasConsumer(l) => T = {}
    BY LagFacts
  <2> HIDE DEF q, T
  <2>3. /\ e \in Seq(Messages)
        /\ \A op, c : Has(e, op, c) <=> op = "Stop" /\ c \in T
        /\ \A c : About(e, c) <=> c \in T
        /\ T = {} => e = <<>>
    BY <2>1, EachFacts, EachNone DEF Messages
  <2> HIDE DEF e
  <2>4. /\ q \o e \in Seq(Messages)
        /\ \A op, c : Has(q \o e, op, c) <=> Has(q, op, c) \/ Has(e, op, c)
        /\ \A c : About(q \o e, c) <=> About(q, c) \/ About(e, c)
        /\ \A op, c : Leads(q, op, c) /\ ~Has(e, op, c) => Leads(q \o e, op, c)
    BY <2>1, <2>3, CatFacts
  <2>5. ~HasConsumer(l) => q \o e = q
    BY <2>1, <2>2, <2>3, ConcatEmptySeq
  <2> QED BY <2>1, <2>3, <2>4, <2>5 DEF q, T
<1>4. /\ link' \in [Legs -> Links] /\ \A l \in Legs : link'[l].session = link[l].session
  <2>1. link \in [Legs -> Links]
    BY <1>0 DEF TypeOK, Links
  <2> QED BY <2>1, <1>1, PermissionFacts
<1>5. SessionInv'
  BY <1>0, <1>1, <1>3, <1>4 DEF SessionInv, HasConsumer
<1>6. toLeg' \in [Legs -> Seq(Messages)]
  <2>1. toLeg' = [l \in Legs |-> toLeg'[l]]
    BY <1>1
  <2> QED BY <2>1, <1>3
<1>7. /\ route' \in [Calls -> Routes] /\ api' \in [Calls -> Apis] /\ pending' \in [Calls -> Pendings]
      /\ heard' \in [Calls -> {"nothing", "Incoming", "Answered", "over"}]
  <2>1. route' \in [Calls -> Routes]
    BY <1>1, LagFacts
  <2>2. api' \in [Calls -> Apis]
    <3>1. api \in [Calls -> Apis]
      BY <1>0 DEF TypeOK, Apis
    <3>2. \A x \in Apis : [x EXCEPT !.st = "failed"] \in Apis
      BY DEF Apis
    <3> QED BY <3>1, <3>2, <1>1
  <2>3. pending' \in [Calls -> Pendings]
    BY <1>1, NoPendingType
  <2>4. heard' \in [Calls -> {"nothing", "Incoming", "Answered", "over"}]
    BY <1>0, <1>1, HearsFacts DEF TypeOK
  <2> QED BY <2>1, <2>2, <2>3, <2>4
<1>8. \A c \in Calls : pending'[c] = NoPending /\ pending'[c].ticket <= tickets'
  BY <1>0, <1>1 DEF NoPending, TypeOK
<1>9. lags' \in 0 .. MaxLags
  BY <1>0, <1>1, VoiceAssumption DEF TypeOK
<1>10. TypeOK'
  BY <1>0, <1>1, <1>2, <1>4, <1>6, <1>7, <1>8, <1>9
     DEF TypeOK, Links, Messages, Apis, Pendings, policyVars, historyVars
<1>11. /\ leg' = leg /\ evs' = evs /\ asked' = asked /\ used' = used
       /\ met' = met /\ stopped' = stopped /\ dropped' = dropped
       /\ \A c \in Calls : /\ api'[c].st = "none" <=> api[c].st = "none"
                           /\ api'[c].st = "queued" <=> api[c].st = "queued"
  <2>1. api \in [Calls -> Apis]
    BY <1>0 DEF TypeOK, Apis
  <2>2. ASSUME NEW c \in Calls
        PROVE  api'[c].st = api[c].st \/ (api[c].st = "held" /\ api'[c].st = "failed")
    BY <2>1, <1>1 DEF Apis
  <2> QED BY <2>2, <1>1 DEF historyVars
<1>12. ASSUME NEW c \in Calls PROVE CallInv(c)'
  <2> DEFINE out == LagOutcome(c)
  <2>1. /\ route'[c] = out.route /\ heard'[c] = Hears(heard[c], out.told)
        /\ \A l \in Legs : c \in stops(l) <=> out.to[l] # <<>>
    BY <1>1
  <2> HIDE DEF out
  <2>2. CASE pending[c] = NoPending
    <3>1. out.route = route[c] /\ out.told = {} /\ \A l \in Legs : c \notin stops(l)
      BY <2>1, <2>2, LagFacts DEF out
    <3>2. heard'[c] = heard[c]
      BY <2>1, <3>1, HearsFacts
    <3>3. \A l \in Legs : Alike(toLeg[l], toLeg'[l], c)
      BY <3>1, <1>3 DEF Alike
    <3>4. Frame(c)
      BY <3>1, <3>2, <3>3, <2>1, <2>2, <1>2, <1>8, <1>11, FewerSame DEF Frame
    <3> QED BY <3>4, <1>0, FrameInv
  <2>3. CASE pending[c] # NoPending
    <3> DEFINE act == pending[c].act
    <3>1. /\ act.call = c /\ c \in used /\ ~Has(cmds, "Start", c) /\ api[c].st # "queued"
          /\ \A l \in Legs : ~Has(evs[l], "Incoming", c)
          /\ \A l \in Legs : Arriving(l, c) => act = Event(l, "Incoming", c)
          /\ ~stopped[c] /\ 1 \notin met[c]
      BY <2>3, PendingReady
    <3>2. /\ Sound(act, out) /\ Placed(act, out)
          /\ out.route = NoRoute
               \/ (out.route = route[c] /\ act = Command("Transfer", c))
          /\ \A l \in Legs, op \in Commands : Has(out.to[l], op, c) => op = "Stop"
          /\ \A l \in Legs : out.to[l] # <<>> => Has(out.to[l], "Stop", c)
          /\ \A l \in Legs : route[c].owner = l =>
               out.route.owner = l \/ Dead(l, c) \/ Has(out.to[l], "Stop", c)
      BY <2>3, LagFacts DEF out
    <3> HIDE DEF act, stops
    <3>3. ASSUME NEW l \in Legs PROVE Joined(toLeg[l], out.to[l], toLeg'[l], c)
      <4>1. /\ \A op \in Commands : Has(out.to[l], op, c) <=> op = "Stop" /\ c \in stops(l)
            /\ About(out.to[l], c) <=> c \in stops(l)
        BY <3>2, <2>1, HasNone, HasAbout
      <4>2. ~About(toLeg[l], c) => Leads(toLeg[l], "Start", c)
        BY DEF About, Leads
      <4> QED BY <4>1, <4>2, <1>3 DEF Joined
    <3>4. Taken(act, out)
      BY <3>1, <3>2, <3>3, <2>1, <1>2, <1>11, FewerSame DEF Taken, Fewer
    <3>5. Spent(c) => Spent(c)'
      BY <3>1, <3>2, <3>4, <1>0, TakenFacts DEF CallInv
    <3>6. \A l \in Legs : Arriving(l, c) =>
            out.route.owner = l \/ Dead(l, c) \/ Has(out.to[l], "Stop", c)
      BY <3>1, <3>2 DEF Placed
    <3>7. out.route # NoRoute =>
            /\ 1 \in met'[c] => out.route.mode = 1
            /\ 2 \in met'[c] /\ out.route.mode = 0 => Spent(c)'
      <4>1. act = Command("Transfer", c) => Spent(c)
        BY <2>3, <1>0 DEF CallInv, Ratchet, act
      <4> QED BY <4>1, <3>1, <3>2, <3>5, <1>11
    <3>8. ~stopped'[c]
      BY <3>1, <1>11
    <3> QED BY <3>1, <3>2, <3>4, <3>6, <3>7, <3>8, <1>0, <1>8, TakenEnds
  <2> QED BY <2>2, <2>3
<1> QED BY <1>5, <1>10, <1>12 DEF VoiceInv

-----------------------------------------------------------------------------
(* Steps that no call can tell.                                            *)

\* A step that changes nothing a call can tell keeps its invariant.
LEMMA QuietCalls ==
  ASSUME VoiceInv, TypeOK', SessionInv',
         UNCHANGED <<leg, toLeg, evs, cmds, asked, heard, used, route, pending, met, stopped,
                     dropped>>,
         \A c \in Calls : /\ api'[c].st = "none" <=> api[c].st = "none"
                          /\ api'[c].st = "queued" => api[c].st = "queued"
  PROVE  VoiceInv'
<1>1. \A c \in Calls : Frame(c)
  BY FewerSame DEF Frame, Alike
<1> QED BY <1>1, FrameInv DEF VoiceInv

\* A link that is no longer ready keeps its session.
LEMMA NotReadyFacts ==
  ASSUME link \in [Legs -> Links], NEW l \in Legs
  PROVE  NotReady(l) \in Links /\ NotReady(l).session = link[l].session
<1> DEFINE x == link[l]
           n == x.gen + (IF x.ready THEN 1 ELSE 0)
<1>1. x \in Links
  OBVIOUS
<1>2. n \in Nat
  BY <1>1 DEF Links
<1>3. NotReady(l) = [x EXCEPT !.ready = FALSE, !.gen = n]
  BY DEF NotReady
<1> HIDE DEF x, n
<1>4. [x EXCEPT !.ready = FALSE, !.gen = n] \in Links
        /\ [x EXCEPT !.ready = FALSE, !.gen = n].session = x.session
  BY <1>1, <1>2 DEF Links
<1> QED BY <1>3, <1>4 DEF x

\* The turn of the ticker, the end of an observation, a change of policy, the
\* request that is given up, a link that comes up or is revoked.
LEMMA QuietInv ==
  ASSUME VoiceInv,
         \/ RouterTick \/ (\E t \in tasks : ObservationDone(t))
         \/ (\E mode \in Modes : SetCostPolicy(mode))
         \/ (\E layers \in Layers : SetVoicePolicy(layers))
         \/ (\E c \in Calls : ApiTimeout(c))
         \/ \E l \in Legs : LinkUp(l) \/ LinkRevoked(l)
  PROVE  VoiceInv'
<1>0. TypeOK /\ SessionInv /\ link \in [Legs -> Links]
  BY DEF VoiceInv, TypeOK, Links
<1>1. CASE RouterTick
  <2>1. /\ link' = Permissions(link, gate, enabled)
        /\ UNCHANGED <<leg, toLeg, evs, trunkVars, used, route, admissionVars,
                       policyVars, historyVars, lags>>
    BY <1>1 DEF RouterTick, Refreshed
  <2>2. link' \in [Legs -> Links] /\ \A l \in Legs : link'[l].session = link[l].session
    BY <2>1, <1>0, PermissionFacts
  <2>3. TypeOK' /\ SessionInv'
    BY <2>1, <2>2, <1>0 DEF TypeOK, SessionInv, Links, trunkVars, admissionVars, policyVars,
                            historyVars
  <2> QED BY <2>1, <2>3, QuietCalls DEF trunkVars, admissionVars, historyVars
<1>2. ASSUME NEW t \in tasks, ObservationDone(t) PROVE VoiceInv'
  <2>1. PICK home \in BOOLEAN :
          results' = results \cup {[call |-> t.call, ticket |-> t.ticket, home |-> home]}
    BY <1>2 DEF ObservationDone
  <2>2. /\ tasks' = tasks \ {t}
        /\ UNCHANGED <<linkVars, trunkVars, used, route, pending, tickets, policyVars,
                       historyVars, lags>>
    BY <1>2 DEF ObservationDone
  <2>3. results' \subseteq [call : Calls, ticket : Nat, home : BOOLEAN]
    BY <2>1, <1>0 DEF TypeOK
  <2>4. TypeOK' /\ SessionInv'
    BY <2>2, <2>3, <1>0 DEF TypeOK, SessionInv, linkVars, trunkVars, policyVars, historyVars
  <2> QED BY <2>2, <2>4, QuietCalls DEF linkVars, trunkVars, historyVars
<1>3. ASSUME NEW mode \in Modes, NEW layers \in SUBSET Legs, SetPolicy(mode, layers)
      PROVE  VoiceInv'
  <2>1. /\ Changes < MaxChanges /\ policies' = policies + 1
        /\ gate' = mode /\ enabled' = layers
        /\ link' \in {Permissions(link, mode, layers), Permissions(link, gate, enabled)}
        /\ UNCHANGED <<leg, toLeg, evs, trunkVars, used, route, admissionVars,
                       historyVars, lags>>
    BY <1>3 DEF SetPolicy, Refreshed
  <2>2. link' \in [Legs -> Links] /\ \A l \in Legs : link'[l].session = link[l].session
    BY <2>1, <1>0, PermissionFacts
  <2>3. policies' \in 0 .. MaxChanges
    <3>1. "vowifi" \in Legs /\ "cellular" \in Legs /\ MaxChanges \in Nat
      BY VoiceAssumption DEF Legs
    <3>2. link["vowifi"].gen \in Nat /\ link["cellular"].gen \in Nat /\ policies \in Nat
      BY <3>1, <1>0 DEF Links, TypeOK
    <3> QED BY <3>1, <3>2, <2>1 DEF Changes
  <2>4. TypeOK' /\ SessionInv'
    BY <2>1, <2>2, <2>3, <1>0 DEF TypeOK, SessionInv, Links, trunkVars, admissionVars,
                                  historyVars
  <2> QED BY <2>1, <2>4, QuietCalls DEF trunkVars, admissionVars, historyVars
<1>4. ASSUME NEW c \in Calls, ApiTimeout(c) PROVE VoiceInv'
  <2>1. /\ api[c].st \in {"queued", "held"} /\ api' = [api EXCEPT ![c].st = "gone"]
        /\ UNCHANGED <<linkVars, cmds, asked, heard, used, route, admissionVars,
                       policyVars, historyVars, lags>>
    BY <1>4 DEF ApiTimeout
  <2>2. /\ api' \in [Calls -> Apis] /\ api'[c].st = "gone"
        /\ \A d \in Calls \ {c} : api'[d] = api[d]
    <3>1. 0 \in Modes
      BY DEF Modes
    <3> QED BY <3>1, <2>1, <1>0, ApiFacts
  <2>5. SessionInv'
    BY <2>1, <1>0 DEF SessionInv, linkVars
  <2>6. TypeOK'
    BY <2>1, <2>2, <1>0 DEF TypeOK, Apis, linkVars, admissionVars, policyVars, historyVars
  <2>3. TypeOK' /\ SessionInv'
    BY <2>5, <2>6
  <2>4. \A d \in Calls : /\ api'[d].st = "none" <=> api[d].st = "none"
                         /\ api'[d].st = "queued" => api[d].st = "queued"
    BY <2>1, <2>2
  <2> QED BY <2>1, <2>3, <2>4, QuietCalls DEF linkVars, admissionVars, historyVars
<1>5. ASSUME NEW l \in Legs, LinkUp(l) \/ LinkRevoked(l) PROVE VoiceInv'
  <2>1. UNCHANGED <<leg, toLeg, evs, used, routerVars>>
    BY <1>5 DEF LinkUp, LinkRevoked
  <2>2. /\ link' \in [Legs -> Links]
        /\ \A k \in Legs : link'[k].session \in {link[k].session, "on"}
    <3>1. CASE LinkUp(l)
      BY <3>1, <1>0 DEF LinkUp, Links
    <3>2. CASE LinkRevoked(l)
      BY <3>2, <1>0, NotReadyFacts DEF LinkRevoked
    <3> QED BY <3>1, <3>2, <1>5
  <2>3. SessionInv'
    BY <2>1, <2>2, <1>0 DEF SessionInv
  <2>4. TypeOK'
    BY <2>1, <2>2, <1>0 DEF TypeOK, Links, routerVars, trunkVars, admissionVars, policyVars,
                            historyVars
  <2> QED BY <2>1, <2>3, <2>4, QuietCalls DEF routerVars, trunkVars, admissionVars, historyVars
<1>6. \A mode \in Modes : SetCostPolicy(mode) => VoiceInv'
  BY <1>0, <1>3 DEF SetCostPolicy, TypeOK
<1>7. \A layers \in Layers : SetVoicePolicy(layers) => VoiceInv'
  <2>1. Layers \subseteq SUBSET Legs
    BY VoiceAssumption DEF Legs
  <2> QED BY <2>1, <1>0, <1>3 DEF SetVoicePolicy, TypeOK
<1> QED BY <1>1, <1>2, <1>4, <1>5, <1>6, <1>7

-----------------------------------------------------------------------------
(* Messages lost to an overrun.                                            *)

\* A step that loses commands to the legs or events of theirs.  Who loses the
\* end of a call, or its Incoming, is told so.
LEMMA LostInv ==
  ASSUME VoiceInv, TypeOK', SessionInv',
         UNCHANGED <<leg, cmds, asked, heard, api, used, route, pending, met, stopped>>,
         \A l \in Legs, d \in Calls :
           Fewer(toLeg[l], toLeg'[l], d) /\ Fewer(evs[l], evs'[l], d),
         \A d \in Calls : dropped'[d] = "no" =>
           /\ dropped[d] = "no"
           /\ \A l \in Legs :
                /\ Has(toLeg[l], "Stop", d) => Has(toLeg'[l], "Stop", d)
                /\ Has(evs[l], "Incoming", d) => Has(evs'[l], "Incoming", d)
  PROVE  VoiceInv'
<1> SUFFICES ASSUME NEW c \in Calls PROVE CallInv(c)'
  BY DEF VoiceInv
<1>0. CallInv(c) /\ TypeOK
  BY DEF VoiceInv
<1>1. /\ Untouched(c)' <=> Untouched(c)
      /\ Outgoing(c)' <=> Outgoing(c)
      /\ Owner(c)' = Owner(c) /\ Spent(c)' = Spent(c)
  BY DEF Untouched, Outgoing, Owner, Spent
<1>2. ASSUME NEW l \in Legs
      PROVE  /\ Clean(l, c) => Clean(l, c)'
             /\ Dead(l, c) => Dead(l, c)'
             /\ Arriving(l, c)' => Arriving(l, c)
  BY DEF Clean, Dead, Arriving, Fewer
<1> USE <1>1, <1>2
<1>3. Waits(c)' /\ Ended(c)' /\ HeldStart(c)'
  BY <1>0 DEF CallInv, Waits, Ended, HeldStart
<1>4. Unused(c)' /\ Starts(c)' /\ Requested(c)'
  BY <1>0 DEF CallInv, Unused, Starts, Requested
<1>5. Rings(c)'
  <2>1. Rings(c) /\ \A l \in Legs : Fewer(toLeg[l], toLeg'[l], c) /\ Fewer(evs[l], evs'[l], c)
    BY <1>0 DEF CallInv
  <2> QED BY <2>1 DEF Rings, Fewer
<1>6. OneWay(c)'
  <2>1. OneWay(c) /\ \A l \in Legs : Fewer(toLeg[l], toLeg'[l], c) /\ Fewer(evs[l], evs'[l], c)
    BY <1>0 DEF CallInv
  <2> QED BY <2>1 DEF OneWay, Fewer
<1>7. Planned(c)'
  <2>1. route[c].rest \subseteq Legs
    BY <1>0 DEF TypeOK, Routes
  <2> QED BY <2>1, <1>0 DEF CallInv, Planned
<1>8. StartsOnce(c)' /\ OnOneLeg(c)'
  <2>1. StartsOnce(c)'
    BY <1>0 DEF CallInv, StartsOnce, Fewer
  <2>2. OnOneLeg(c)'
    BY <1>0 DEF CallInv, OnOneLeg, Legs
  <2> QED BY <2>1, <2>2
<1>9. Given(c)'
  <2>1. Given(c) /\ \A l \in Legs : Fewer(evs[l], evs'[l], c)
    BY <1>0 DEF CallInv
  <2> QED BY <2>1 DEF Given, Fewer
<1>10. Reached(c)'
  BY <1>0 DEF CallInv, Reached
<1>11. Ratchet(c)'
  BY <1>0 DEF CallInv, Ratchet
<1> QED BY <1>3, <1>4, <1>5, <1>6, <1>7, <1>8, <1>9, <1>10, <1>11 DEF CallInv

\* A leg skips its oldest command.
LEMMA LegLaggedInv ==
  ASSUME VoiceInv, NEW l \in Legs, LegLagged(l)
  PROVE  VoiceInv'
<1> DEFINE q == toLeg[l]
           cmd == Head(q)
           reason == IF cmd.op = "Stop" THEN "lost" ELSE dropped[cmd.call]
<1>0. /\ TypeOK /\ SessionInv /\ toLeg \in [Legs -> Seq(Messages)] /\ lags \in 0 .. MaxLags
      /\ dropped \in [Calls -> {"no", "stale", "refused", "lost"}]
  BY DEF VoiceInv, TypeOK, Messages
<1>1. /\ q \in Seq(Messages) /\ q # <<>> /\ link[l].session = "on"
      /\ lags < MaxLags /\ lags' = lags + 1
      /\ toLeg' = [toLeg EXCEPT ![l] = Tail(q)]
      /\ UNCHANGED <<link, leg, evs, trunkVars, used, route, admissionVars,
                     policyVars, met, stopped>>
  BY <1>0 DEF LegLagged
<1>2. dropped' = [dropped EXCEPT ![cmd.call] = IF cmd.op = "Stop" THEN "lost" ELSE @]
  BY DEF LegLagged
<1> HIDE DEF q
<1>3. /\ cmd \in Messages /\ Tail(q) \in Seq(Messages)
      /\ \A op, d : Has(Tail(q), op, d) => Has(q, op, d)
      /\ \A d : About(Tail(q), d) => About(q, d)
      /\ \A op, d : Leads(q, op, d) => Leads(Tail(q), op, d)
      /\ \A op, d : Has(q, op, d) => Has(Tail(q), op, d) \/ (cmd.op = op /\ cmd.call = d)
  BY <1>1, TailFacts
<1> HIDE DEF cmd
<1>4. cmd.call \in Calls
  BY <1>3 DEF Messages
<1>5. dropped' = [dropped EXCEPT ![cmd.call] = reason] /\ reason \in {"no", "stale", "refused", "lost"}
  BY <1>0, <1>2, <1>4
<1>6. /\ toLeg' \in [Legs -> Seq(Messages)] /\ toLeg'[l] = Tail(q)
      /\ \A k \in Legs \ {l} : toLeg'[k] = toLeg[k]
  BY <1>0, <1>1, <1>3
<1>7. /\ dropped' \in [Calls -> {"no", "stale", "refused", "lost"}]
      /\ \A d \in Calls : dropped'[d] = IF d = cmd.call THEN reason ELSE dropped[d]
  BY <1>0, <1>5
<1>8. lags' \in 0 .. MaxLags
  BY <1>0, <1>1, VoiceAssumption
<1>9. TypeOK'
  BY <1>0, <1>1, <1>6, <1>7, <1>8 DEF TypeOK, trunkVars, admissionVars, policyVars, Messages
<1>10. SessionInv'
  BY <1>0, <1>1, <1>6 DEF SessionInv
<1>11. ASSUME NEW k \in Legs, NEW d \in Calls
       PROVE  Fewer(toLeg[k], toLeg'[k], d) /\ Fewer(evs[k], evs'[k], d)
  <2>1. Fewer(q, Tail(q), d)
    BY <1>3 DEF Fewer
  <2>2. Fewer(toLeg[k], toLeg'[k], d)
    BY <2>1, <1>6, FewerSame DEF q
  <2> QED BY <2>2, <1>1, FewerSame
<1>12. ASSUME NEW d \in Calls, dropped'[d] = "no"
       PROVE  /\ dropped[d] = "no"
              /\ \A k \in Legs :
                   /\ Has(toLeg[k], "Stop", d) => Has(toLeg'[k], "Stop", d)
                   /\ Has(evs[k], "Incoming", d) => Has(evs'[k], "Incoming", d)
  <2>1. dropped[d] = "no" /\ ~(cmd.op = "Stop" /\ cmd.call = d)
    BY <1>7, <1>12
  <2>2. \A k \in Legs : Has(toLeg[k], "Stop", d) => Has(toLeg'[k], "Stop", d)
    BY <2>1, <1>3, <1>6 DEF q
  <2> QED BY <2>1, <2>2, <1>1
<1>13. UNCHANGED <<leg, cmds, asked, heard, api, used, route, pending, met, stopped>>
  BY <1>1 DEF trunkVars, admissionVars
<1> HIDE DEF reason
<1> QED BY <1>9, <1>10, <1>11, <1>12, <1>13, LostInv

\* The forwarder skips an event of a leg.
LEMMA EventsLaggedInv ==
  ASSUME VoiceInv, NEW l \in Legs, EventsLagged(l)
  PROVE  VoiceInv'
<1> DEFINE q == evs[l]
<1>0. /\ TypeOK /\ SessionInv /\ evs \in [Legs -> Seq(Notices)] /\ lags \in 0 .. MaxLags
      /\ dropped \in [Calls -> {"no", "stale", "refused", "lost"}]
  BY DEF VoiceInv, TypeOK, Notices
<1>1. /\ q \in Seq(Notices) /\ DOMAIN q = 1 .. Len(q)
      /\ lags < MaxLags /\ lags' = lags + 1
      /\ UNCHANGED <<link, leg, toLeg, trunkVars, used, route, admissionVars,
                     policyVars, met, stopped>>
  BY <1>0, LenProperties DEF EventsLagged
<1>2. PICK i \in 1 .. Len(q) :
        /\ evs' = [evs EXCEPT ![l] = RemoveAt(q, i)]
        /\ dropped' = [dropped EXCEPT ![q[i].call] =
                         IF q[i].op = "Incoming" THEN "lost" ELSE @]
  BY <1>1 DEF EventsLagged
<1> DEFINE e == q[i]
           r == RemoveAt(q, i)
           reason == IF e.op = "Incoming" THEN "lost" ELSE dropped[e.call]
<1> HIDE DEF q
<1>3. /\ r \in Seq(Notices)
      /\ \A op, d : Has(r, op, d) => Has(q, op, d)
      /\ \A d : About(r, d) => About(q, d)
      /\ \A op, d : Leads(q, op, d) => Leads(r, op, d)
      /\ \A op, d : Has(q, op, d) => Has(r, op, d) \/ (e.op = op /\ e.call = d)
  BY <1>1, RemoveFacts
<1>4. e.call \in Calls
  <2>1. e \in Notices
    BY <1>1, ElementOfSeq
  <2> QED BY <2>1 DEF Notices
<1>5. /\ evs' = [evs EXCEPT ![l] = r]
      /\ dropped' = [dropped EXCEPT ![e.call] = IF e.op = "Incoming" THEN "lost" ELSE @]
  BY <1>2
<1> HIDE DEF e, r
<1>6. /\ evs' \in [Legs -> Seq(Notices)] /\ evs'[l] = r
      /\ \A k \in Legs \ {l} : evs'[k] = evs[k]
  BY <1>0, <1>3, <1>5
<1>7. /\ dropped' \in [Calls -> {"no", "stale", "refused", "lost"}]
      /\ \A d \in Calls : dropped'[d] = IF d = e.call THEN reason ELSE dropped[d]
  BY <1>0, <1>4, <1>5
<1>8. lags' \in 0 .. MaxLags
  BY <1>0, <1>1, VoiceAssumption
<1>9. TypeOK'
  BY <1>0, <1>1, <1>6, <1>7, <1>8 DEF TypeOK, trunkVars, admissionVars, policyVars, Notices
<1>10. SessionInv'
  BY <1>0, <1>1 DEF SessionInv
<1>11. ASSUME NEW k \in Legs, NEW d \in Calls
       PROVE  Fewer(toLeg[k], toLeg'[k], d) /\ Fewer(evs[k], evs'[k], d)
  <2>1. Fewer(q, r, d)
    BY <1>3 DEF Fewer
  <2>2. Fewer(evs[k], evs'[k], d)
    BY <2>1, <1>6, FewerSame DEF q
  <2> QED BY <2>2, <1>1, FewerSame
<1>12. ASSUME NEW d \in Calls, dropped'[d] = "no"
       PROVE  /\ dropped[d] = "no"
              /\ \A k \in Legs :
                   /\ Has(toLeg[k], "Stop", d) => Has(toLeg'[k], "Stop", d)
                   /\ Has(evs[k], "Incoming", d) => Has(evs'[k], "Incoming", d)
  <2>1. dropped[d] = "no" /\ ~(e.op = "Incoming" /\ e.call = d)
    BY <1>7, <1>12
  <2>2. \A k \in Legs : Has(evs[k], "Incoming", d) => Has(evs'[k], "Incoming", d)
    BY <2>1, <1>3, <1>6 DEF q
  <2> QED BY <2>1, <2>2, <1>1
<1>13. UNCHANGED <<leg, cmds, asked, heard, api, used, route, pending, met, stopped>>
  BY <1>1 DEF trunkVars, admissionVars
<1> HIDE DEF reason
<1> QED BY <1>9, <1>10, <1>11, <1>12, <1>13, LostInv

-----------------------------------------------------------------------------
(* The trunk side.                                                         *)

\* A message behind a queue.
LEMMA AppendFacts ==
  ASSUME NEW S, NEW q \in Seq(S), NEW m \in S, NEW s, s = Append(q, m)
  PROVE  /\ s \in Seq(S)
         /\ \A op, c : Has(s, op, c) <=> Has(q, op, c) \/ (m.op = op /\ m.call = c)
         /\ \A c : About(s, c) <=> About(q, c) \/ m.call = c
         /\ \A op, c : Leads(q, op, c) /\ ~(m.op = op /\ m.call = c) => Leads(s, op, c)
         /\ \A op, c : ~About(q, c) => Leads(s, op, c)
<1> DEFINE r == <<m>>
<1>1. r \in Seq(S) /\ s = q \o r
  BY AppendIsConcat
<1>2. /\ \A op, c : Has(r, op, c) <=> m.op = op /\ m.call = c
      /\ \A c : About(r, c) <=> m.call = c
      /\ \A op, c : Leads(r, op, c)
  BY HasOne
<1> HIDE DEF r
<1>3. /\ q \o r \in Seq(S)
      /\ \A op, c : Has(q \o r, op, c) <=> Has(q, op, c) \/ Has(r, op, c)
      /\ \A c : About(q \o r, c) <=> About(q, c) \/ About(r, c)
      /\ \A op, c : Leads(q, op, c) /\ ~Has(r, op, c) => Leads(q \o r, op, c)
      /\ \A op, c : ~About(q, c) /\ Leads(r, op, c) => Leads(q \o r, op, c)
  BY <1>1, CatFacts
<1> QED BY <1>1, <1>2, <1>3

\* A command joins the queue: for the other calls nothing changes.
LEMMA AskOthers ==
  ASSUME VoiceInv, NEW c \in Calls, NEW op \in Commands, Ask(c, op),
         \A d \in Calls \ {c} : d \in used' <=> d \in used
  PROVE  /\ \A d \in Calls \ {c} : CallInv(d)'
         /\ SessionInv' /\ asked'[c] = asked[c] \cup {op}
         /\ asked' \in [Calls -> SUBSET Commands] /\ cmds' \in Seq(Messages)
         /\ \A o : Has(cmds', o, c) <=> Has(cmds, o, c) \/ o = op
         /\ op # "Start" /\ Leads(cmds, "Start", c) => Leads(cmds', "Start", c)
         /\ ~About(cmds, c) => Leads(cmds', "Start", c)
         /\ TransferLast(cmds, c) /\ (op \in {"Transfer", "Accept"} => ~Has(cmds, "Transfer", c))
              => TransferLast(cmds', c)
         /\ UNCHANGED <<linkVars, heard, api, route, admissionVars, policyVars, historyVars,
                        lags>>
<1> DEFINE m == [op |-> op, call |-> c]
<1>0. TypeOK /\ SessionInv /\ cmds \in Seq(Messages) /\ m \in Messages /\ m.op = op /\ m.call = c
  BY DEF VoiceInv, TypeOK, Messages
<1>1. /\ asked' = [asked EXCEPT ![c] = @ \cup {op}] /\ cmds' = Append(cmds, m)
      /\ UNCHANGED <<linkVars, heard, api, route, admissionVars, policyVars, historyVars, lags>>
  BY DEF Ask
<1> HIDE DEF m
<1>2. /\ asked' \in [Calls -> SUBSET Commands] /\ asked'[c] = asked[c] \cup {op}
      /\ \A d \in Calls \ {c} : asked'[d] = asked[d]
  BY <1>0, <1>1 DEF TypeOK
<1>3. /\ cmds' \in Seq(Messages)
      /\ \A o, d : Has(cmds', o, d) <=> Has(cmds, o, d) \/ (op = o /\ c = d)
      /\ \A d : About(cmds', d) <=> About(cmds, d) \/ c = d
      /\ \A o, d : Leads(cmds, o, d) /\ ~(op = o /\ c = d) => Leads(cmds', o, d)
      /\ \A o, d : ~About(cmds, d) => Leads(cmds', o, d)
  <2> DEFINE s == Append(cmds, m)
  <2>1. s = cmds'
    BY <1>1
  <2> HIDE DEF s
  <2>2. cmds \in Seq(Messages) /\ m \in Messages /\ s = Append(cmds, m)
    BY <1>0 DEF s
  <2>3. /\ s \in Seq(Messages)
        /\ \A o, d : Has(s, o, d) <=> Has(cmds, o, d) \/ (m.op = o /\ m.call = d)
        /\ \A d : About(s, d) <=> About(cmds, d) \/ m.call = d
        /\ \A o, d : Leads(cmds, o, d) /\ ~(m.op = o /\ m.call = d) => Leads(s, o, d)
        /\ \A o, d : ~About(cmds, d) => Leads(s, o, d)
    BY ONLY <2>2, AppendFacts
  <2> QED BY <2>1, <2>3, <1>0
<1>4. ASSUME NEW d, TransferLast(cmds, d),
             c = d /\ op \in {"Transfer", "Accept"} => ~Has(cmds, "Transfer", d)
      PROVE  TransferLast(cmds', d)
  BY <1>0, <1>1, <1>4, AppendTransfer
<1>5. ASSUME NEW d \in Calls \ {c} PROVE CallInv(d)'
  <2>1. Fewer(cmds, cmds', d) /\ (TransferLast(cmds, d) => TransferLast(cmds', d))
    BY <1>3, <1>4 DEF Fewer
  <2>2. Frame(d)
    BY <2>1, <1>1, <1>2, FewerSame DEF Frame, Alike, linkVars, admissionVars, historyVars
  <2> QED BY <2>2, <1>0, FrameInv DEF VoiceInv
<1>6. SessionInv'
  BY <1>0, <1>1 DEF SessionInv, linkVars
<1> QED BY <1>1, <1>2, <1>3, <1>4, <1>5, <1>6

\* A call under a new id: what a fresh id leaves to show.
LEMMA FreshFacts ==
  ASSUME VoiceInv, NEW c \in Calls, c \notin used
  PROVE  /\ CallInv(c) /\ Untouched(c) /\ asked[c] = {} /\ api[c].st = "none" /\ ~About(cmds, c)
         /\ \A l \in Legs : Clean(l, c)
         /\ \A l \in Legs : ~Arriving(l, c)
         /\ \A op : ~Has(cmds, op, c)
<1>1. CallInv(c)
  BY DEF VoiceInv
<1>2. /\ Untouched(c) /\ asked[c] = {} /\ api[c].st = "none" /\ ~About(cmds, c)
      /\ \A l \in Legs : Clean(l, c)
  BY <1>1 DEF CallInv, Unused
<1> QED BY <1>1, <1>2, HasAbout DEF Untouched, Clean, Arriving

\* A call the trunk places under a new id.
LEMMA TrunkStartInv ==
  ASSUME VoiceInv, NEW c \in Calls, TrunkStart(c)
  PROVE  VoiceInv'
<1>0. TypeOK /\ c \notin used /\ used' = used \cup {c} /\ Ask(c, "Start") /\ "Start" \in Commands
  BY DEF VoiceInv, TrunkStart, Fresh, Commands
<1>1. /\ CallInv(c) /\ Untouched(c) /\ asked[c] = {} /\ api[c].st = "none" /\ ~About(cmds, c)
      /\ \A l \in Legs : Clean(l, c) /\ ~Arriving(l, c)
      /\ \A op : ~Has(cmds, op, c)
  BY <1>0, FreshFacts
<1>2. /\ \A d \in Calls \ {c} : CallInv(d)'
      /\ SessionInv' /\ asked'[c] = {"Start"}
      /\ asked' \in [Calls -> SUBSET Commands] /\ cmds' \in Seq(Messages)
      /\ \A o : Has(cmds', o, c) <=> o = "Start"
      /\ Leads(cmds', "Start", c) /\ (TransferLast(cmds, c) => TransferLast(cmds', c))
      /\ UNCHANGED <<linkVars, heard, api, route, admissionVars, policyVars, historyVars, lags>>
  BY <1>0, <1>1, AskOthers
<1>3. TypeOK'
  BY <1>0, <1>2 DEF TypeOK, Messages, linkVars, admissionVars, policyVars, historyVars
<1>4. /\ UNCHANGED <<link, leg, toLeg, evs, heard, api, route, pending, met, stopped, dropped>>
      /\ Outgoing(c)'
  BY <1>2 DEF linkVars, admissionVars, historyVars, Outgoing
<1>5. Untouched(c)' /\ \A l \in Legs : Clean(l, c)' /\ ~Arriving(l, c)'
  BY <1>1, <1>4 DEF Untouched, Clean, Arriving
<1>6. Waits(c)' /\ Unused(c)' /\ Starts(c)' /\ Requested(c)'
  BY <1>0, <1>1, <1>2, <1>4, <1>5 DEF CallInv, Waits, Unused, Starts, Requested
<1>7. Rings(c)'
  BY <1>1, <1>4, <1>5 DEF CallInv, Rings, Arriving
<1>8. OneWay(c)'
  BY <1>1, <1>2, <1>4 DEF OneWay, Untouched, Commands
<1>9. HeldStart(c)' /\ Ended(c)' /\ Given(c)' /\ StartsOnce(c)' /\ OnOneLeg(c)'
  BY <1>1, <1>4 DEF CallInv, HeldStart, Ended, Given, StartsOnce, OnOneLeg, Dead, Untouched
<1>10. Planned(c)'
  BY <1>1, <1>4 DEF Planned, Untouched, NoRoute
<1>11. Reached(c)'
  BY <1>1, <1>4 DEF CallInv, Reached, Owner, Dead
<1>12. Ratchet(c)'
  BY <1>1, <1>2, <1>4 DEF CallInv, Ratchet, Untouched
<1>13. CallInv(c)'
  BY <1>6, <1>7, <1>8, <1>9, <1>10, <1>11, <1>12 DEF CallInv
<1> QED BY <1>2, <1>3, <1>13 DEF VoiceInv

\* A call the API places under a new id.
LEMMA ApiStartInv ==
  ASSUME VoiceInv, NEW c \in Calls, NEW mode \in Modes, NEW offers \in Offers,
         ApiStart(c, mode, offers)
  PROVE  VoiceInv'
<1> DEFINE new == [st |-> "queued", mode |-> mode, offers |-> offers]
<1>0. /\ TypeOK /\ SessionInv /\ c \notin used /\ used' = used \cup {c}
      /\ api' = [api EXCEPT ![c] = new]
      /\ UNCHANGED <<linkVars, cmds, asked, heard, route, admissionVars, policyVars,
                     historyVars, lags>>
  BY DEF VoiceInv, ApiStart, Fresh
<1>1. /\ CallInv(c) /\ Untouched(c) /\ asked[c] = {} /\ api[c].st = "none" /\ ~About(cmds, c)
      /\ \A l \in Legs : Clean(l, c) /\ ~Arriving(l, c)
      /\ \A op : ~Has(cmds, op, c)
  BY <1>0, FreshFacts
<1>2. new \in Apis /\ new.st = "queued"
  BY VoiceAssumption DEF Apis, Legs
<1> HIDE DEF new
<1>3. /\ api' \in [Calls -> Apis] /\ api'[c].st = "queued"
      /\ \A d \in Calls \ {c} : api'[d] = api[d]
  BY <1>0, <1>2 DEF TypeOK, Apis
<1>4. SessionInv'
  BY <1>0 DEF SessionInv, linkVars
<1>5. TypeOK'
  BY <1>0, <1>3 DEF TypeOK, Apis, linkVars, admissionVars, policyVars, historyVars
<1>6. UNCHANGED <<link, leg, toLeg, evs, cmds, asked, heard, route, pending, met, stopped,
                  dropped>>
  BY <1>0 DEF linkVars, admissionVars, historyVars
<1>7. ASSUME NEW d \in Calls \ {c} PROVE CallInv(d)'
  <2>1. Frame(d)
    BY <1>0, <1>3, <1>6, FewerSame DEF Frame, Alike
  <2> QED BY <2>1, <1>0, FrameInv DEF VoiceInv
<1>8. /\ Untouched(c)' /\ (\A l \in Legs : Clean(l, c)' /\ ~Arriving(l, c)')
      /\ Outgoing(c)'
  BY <1>1, <1>3, <1>6 DEF Untouched, Clean, Arriving, Outgoing
<1>9. Waits(c)' /\ Unused(c)' /\ Starts(c)' /\ Requested(c)'
  BY <1>0, <1>1, <1>6, <1>8 DEF CallInv, Waits, Unused, Starts, Requested
<1>10. Rings(c)'
  BY <1>1, <1>6, <1>8 DEF CallInv, Rings, Arriving
<1>11. OneWay(c)'
  BY <1>1, <1>6, <1>8 DEF OneWay, Untouched
<1>12. HeldStart(c)' /\ Ended(c)' /\ Given(c)' /\ StartsOnce(c)' /\ OnOneLeg(c)'
  BY <1>1, <1>6 DEF CallInv, HeldStart, Ended, Given, StartsOnce, OnOneLeg, Dead, Untouched
<1>13. Planned(c)'
  BY <1>1, <1>6 DEF Planned, Untouched, NoRoute
<1>14. Reached(c)'
  BY <1>1, <1>6 DEF CallInv, Reached, Owner, Dead
<1>15. Ratchet(c)'
  BY <1>1, <1>6 DEF CallInv, Ratchet, Untouched
<1>16. CallInv(c)'
  BY <1>9, <1>10, <1>11, <1>12, <1>13, <1>14, <1>15 DEF CallInv
<1> QED BY <1>4, <1>5, <1>7, <1>16 DEF VoiceInv

\* A command of the trunk side for a call it knows.
LEMMA TrunkAskInv ==
  ASSUME VoiceInv, NEW c \in Calls, NEW op \in Commands, TrunkAsk(c, op)
  PROVE  VoiceInv'
<1>0. TypeOK /\ MayAsk(c, op) /\ Ask(c, op) /\ used' = used /\ CallInv(c)
  BY DEF VoiceInv, TrunkAsk
<1>1. /\ \A d \in Calls \ {c} : CallInv(d)'
      /\ SessionInv' /\ asked'[c] = asked[c] \cup {op}
      /\ asked' \in [Calls -> SUBSET Commands] /\ cmds' \in Seq(Messages)
      /\ \A o : Has(cmds', o, c) <=> Has(cmds, o, c) \/ o = op
      /\ op # "Start" /\ Leads(cmds, "Start", c) => Leads(cmds', "Start", c)
      /\ TransferLast(cmds, c) /\ (op \in {"Transfer", "Accept"} => ~Has(cmds, "Transfer", c))
           => TransferLast(cmds', c)
      /\ UNCHANGED <<linkVars, heard, api, route, admissionVars, policyVars, historyVars, lags>>
  BY <1>0, AskOthers
<1>2. /\ op \notin asked[c] /\ "Stop" \notin asked[c] /\ (heard[c] = "over" => op = "Stop")
      /\ op # "Start"
      /\ op = "Accept" => heard[c] = "Incoming"
      /\ op = "Transfer" => heard[c] = "Answered" \/ "Accept" \in asked[c]
      /\ op = "Renegotiate" => heard[c] = "Answered"
      /\ op = "Stop" => heard[c] # "nothing" \/ "Start" \in asked[c] \/ api[c].st = "ok"
  BY <1>0 DEF MayAsk, Ask, Commands
<1>3. heard[c] # "nothing" \/ asked[c] # {} \/ api[c].st = "ok"
  BY <1>2 DEF Commands
<1>4. heard[c] \in {"nothing", "over"} /\ asked[c] \subseteq {"Start", "Stop"} => op = "Stop"
  BY <1>2 DEF Commands
<1>5. TypeOK'
  BY <1>0, <1>1 DEF TypeOK, Messages, linkVars, admissionVars, policyVars, historyVars
<1>6. /\ UNCHANGED <<link, leg, toLeg, evs, heard, api, route, pending, met, stopped, dropped>>
      /\ Outgoing(c)' <=> Outgoing(c)
  BY <1>1, <1>2 DEF linkVars, admissionVars, historyVars, Outgoing
<1>7. c \in used /\ api[c].st # "queued" /\ \A l \in Legs : ~Arriving(l, c)
  BY <1>0, <1>3 DEF CallInv, Unused, Untouched, Requested, Rings
<1>8. \A l \in Legs : (Clean(l, c) => Clean(l, c)') /\ (Dead(l, c)' <=> Dead(l, c))
                        /\ ~Arriving(l, c)'
  BY <1>6, <1>7 DEF Clean, Dead, Arriving
<1>9. Waits(c)' /\ Unused(c)' /\ Requested(c)' /\ Ended(c)'
  BY <1>0, <1>6, <1>7 DEF CallInv, Waits, Unused, Requested, Ended
<1>10. Starts(c)'
  <2>1. ASSUME Has(cmds', "Start", c)
        PROVE  /\ Untouched(c)' /\ api'[c].st = "none" /\ asked'[c] \subseteq {"Start", "Stop"}
               /\ \A l \in Legs : Clean(l, c)'
    <3>1. Has(cmds, "Start", c)
      BY <2>1, <1>1, <1>2
    <3>2. /\ Untouched(c) /\ api[c].st = "none" /\ asked[c] \subseteq {"Start", "Stop"}
          /\ \A l \in Legs : Clean(l, c)
      BY <3>1, <1>0 DEF CallInv, Starts
    <3>3. op = "Stop"
      BY <3>2, <1>4 DEF Untouched
    <3> QED BY <3>2, <3>3, <1>1, <1>6, <1>8 DEF Untouched
  <2> QED BY <2>1, <1>0, <1>1, <1>2 DEF CallInv, Starts
<1>11. Rings(c)'
  BY <1>0, <1>6, <1>7, <1>8 DEF CallInv, Rings, Arriving
<1>12. OneWay(c)'
  BY <1>0, <1>1, <1>2, <1>6 DEF CallInv, OneWay
<1>13. HeldStart(c)'
  BY <1>0, <1>1, <1>4, <1>6, <1>8 DEF CallInv, HeldStart
<1>14. Planned(c)'
  <2>1. route[c].rest \subseteq Legs
    BY <1>0 DEF TypeOK, Routes
  <2> QED BY <2>1, <1>0, <1>1, <1>4, <1>6, <1>8 DEF CallInv, Planned
<1>15. StartsOnce(c)' /\ Given(c)' /\ OnOneLeg(c)' /\ Reached(c)'
  BY <1>0, <1>6, <1>8 DEF CallInv, StartsOnce, Given, OnOneLeg, Reached, Owner, Legs
<1>16. Spent(c) => Spent(c)'
  BY <1>0, <1>1, <1>2 DEF Spent, CallInv, Ratchet
<1>17. Ratchet(c)'
  <2>1. TransferLast(cmds', c)
    BY <1>0, <1>1, <1>2 DEF CallInv, Ratchet, OneWay, Commands
  <2>2. "Transfer" \in asked'[c] =>
          "Accept" \in asked'[c] \/ heard'[c] \in {"Answered", "over"}
    BY <1>0, <1>1, <1>2, <1>6 DEF CallInv, Ratchet
  <2>3. \A o : o \in asked[c] => o \in asked'[c]
    BY <1>1
  <2> QED BY <2>1, <2>2, <2>3, <1>0, <1>6, <1>16 DEF CallInv, Ratchet
<1>18. CallInv(c)'
  BY <1>9, <1>10, <1>11, <1>12, <1>13, <1>14, <1>15, <1>17 DEF CallInv
<1> QED BY <1>1, <1>5, <1>18 DEF VoiceInv

-----------------------------------------------------------------------------
(* The legs.                                                               *)

Entries == [st : {"none", "calling", "ringing", "up", "unsent"}, reinvite : BOOLEAN]

\* What a leg may make of a call it knows: the new entry and the events sent.
Legal(l, c, entry, N) ==
  /\ entry \in Entries /\ (entry.reinvite => entry.st = "up")
  /\ N \subseteq Events \ {"Incoming"}
  /\ entry.st = "calling" \/ entry.reinvite \/ "Answered" \in N => Outgoing(c)
  /\ Arriving(l, c) => /\ entry.st # "calling" /\ ~entry.reinvite
                       /\ N \subseteq {"Ended", "Cancelled"}
  /\ Dead(l, c) \/ N \cap Over # {} => entry.st \notin {"calling", "ringing", "up"}
  /\ "Unavailable" \in N => ~Has(evs[l], "Answered", c) /\ "Answered" \notin N
  /\ "Answered" \in N => ~Dead(l, c)

\* A step of a leg as one call sees it.
Moved(l, c, entry, N) ==
  /\ leg'[l][c] = entry
  /\ Fewer(toLeg[l], toLeg'[l], c) /\ ~Has(toLeg'[l], "Start", c)
  /\ Has(toLeg[l], "Stop", c) =>
       Has(toLeg'[l], "Stop", c) \/ entry.st \notin {"calling", "ringing", "up"}
  /\ \A op : Has(evs'[l], op, c) <=> Has(evs[l], op, c) \/ op \in N
  /\ Leads(evs[l], "Incoming", c) => Leads(evs'[l], "Incoming", c)
  /\ \A k \in Legs \ {l} :
       leg'[k][c] = leg[k][c] /\ toLeg'[k] = toLeg[k] /\ evs'[k] = evs[k]

\* A legal step of a leg keeps the invariant of its call.
LEMMA MovedInv ==
  ASSUME TypeOK, NEW c \in Calls, CallInv(c), NEW l \in Legs, ~Clean(l, c),
         NEW entry, NEW N, Legal(l, c, entry, N), Moved(l, c, entry, N),
         UNCHANGED <<routerVars, used>>
  PROVE  CallInv(c)'
<1>0. UNCHANGED <<cmds, asked, heard, api, used, route, pending, met, stopped, dropped>>
  BY DEF routerVars, trunkVars, admissionVars, historyVars
<1>1. /\ Untouched(c)' <=> Untouched(c)
      /\ Outgoing(c)' <=> Outgoing(c)
      /\ Owner(c)' = Owner(c)
      /\ Spent(c)' <=> Spent(c)
  BY <1>0 DEF Untouched, Outgoing, Owner, Spent
<1>2. \A k \in Legs \ {l} : /\ Clean(k, c)' <=> Clean(k, c)
                            /\ Dead(k, c)' <=> Dead(k, c)
                            /\ Arriving(k, c)' <=> Arriving(k, c)
  BY <1>0 DEF Moved, Clean, Dead, Arriving
<1>3. /\ Dead(l, c) => Dead(l, c)'
      /\ N \cap Over # {} => Dead(l, c)'
      /\ Arriving(l, c)' => Arriving(l, c)
      /\ Has(evs'[l], "Incoming", c) <=> Has(evs[l], "Incoming", c)
  BY <1>0 DEF Moved, Legal, Dead, Arriving
<1>4. Waits(c)' /\ Ended(c)' /\ Ratchet(c)'
  BY <1>0, <1>1 DEF CallInv, Waits, Ended, Ratchet
<1>5. Unused(c)' /\ Starts(c)' /\ Requested(c)' /\ HeldStart(c)'
  BY <1>0 DEF CallInv, Unused, Starts, Requested, HeldStart
<1>6. Rings(c)'
  <2>1. ASSUME NEW k \in Legs
        PROVE  Leads(evs'[k], "Incoming", c) /\ (Has(evs'[k], "Incoming", c) => Untouched(c)')
    BY <1>1, <1>3 DEF CallInv, Rings, Moved
  <2>2. ASSUME NEW k \in Legs \ {l} PROVE ~Arriving(k, c)
    BY DEF CallInv, Rings
  <2>3. ASSUME Arriving(l, c)'
        PROVE  /\ route'[c] = NoRoute /\ asked'[c] = {} /\ heard'[c] = "nothing"
               /\ api'[c].st = "none" /\ ~About(cmds', c)
               /\ ~About(toLeg'[l], c) /\ \A k \in Legs \ {l} : Clean(k, c)'
               /\ leg'[l][c].st # "calling" /\ ~leg'[l][c].reinvite
               /\ \A op \in Events :
                    Has(evs'[l], op, c) => op \in {"Incoming", "Ended", "Cancelled"}
    <3>1. Arriving(l, c)
      BY <2>3, <1>3
    <3>2. /\ route[c] = NoRoute /\ asked[c] = {} /\ heard[c] = "nothing"
          /\ api[c].st = "none" /\ ~About(cmds, c)
          /\ ~About(toLeg[l], c) /\ \A k \in Legs \ {l} : Clean(k, c)
          /\ \A op \in Events :
               Has(evs[l], op, c) => op \in {"Incoming", "Ended", "Cancelled"}
      BY <3>1 DEF CallInv, Rings
    <3> QED BY <3>1, <3>2, <1>0, <1>2 DEF Legal, Moved, Fewer
  <2> QED BY <2>1, <2>2, <2>3, <1>2 DEF Rings
<1>7. OneWay(c)'
  BY <1>0, <1>1 DEF CallInv, OneWay, Legal, Moved, Fewer
<1>8. Planned(c)'
  <2>1. route[c].rest \subseteq Legs
    BY DEF TypeOK, Routes
  <2> QED BY <2>1, <1>0, <1>1, <1>2 DEF CallInv, Planned
<1>9. StartsOnce(c)'
  <2>1. ASSUME NEW k \in Legs, k # l
        PROVE  /\ Leads(toLeg'[k], "Start", c)
               /\ Has(toLeg'[k], "Start", c) => leg'[k][c] = NoCall /\ ~About(evs'[k], c)
    BY <2>1 DEF CallInv, StartsOnce, Moved
  <2>2. Leads(toLeg'[l], "Start", c) /\ ~Has(toLeg'[l], "Start", c)
    BY DEF CallInv, StartsOnce, Moved, Fewer
  <2> QED BY <2>1, <2>2 DEF StartsOnce
<1>10. Given(c)'
  <2>1. ASSUME NEW k \in Legs, k # l
        PROVE  /\ \A op \in Over : Has(evs'[k], op, c) => Dead(k, c)'
               /\ Has(evs'[k], "Unavailable", c) => ~Has(evs'[k], "Answered", c)
               /\ pending'[c] # NoPending /\ pending'[c].act = Event(k, "Unavailable", c) =>
                    /\ Dead(k, c)' /\ ~Has(evs'[k], "Answered", c)
                    /\ route'[c].owner \in {"none", k}
    BY <2>1, <1>0, <1>2 DEF CallInv, Given, Moved
  <2>2. /\ \A op \in Over : Has(evs[l], op, c) => Dead(l, c)
        /\ Has(evs[l], "Unavailable", c) => ~Has(evs[l], "Answered", c)
        /\ pending[c] # NoPending /\ pending[c].act = Event(l, "Unavailable", c) =>
             /\ Dead(l, c) /\ ~Has(evs[l], "Answered", c)
             /\ route[c].owner \in {"none", l}
        /\ "Unavailable" \in Over
    BY DEF CallInv, Given, Over
  <2>3. /\ \A op : Has(evs'[l], op, c) <=> Has(evs[l], op, c) \/ op \in N
        /\ "Unavailable" \in N => ~Has(evs[l], "Answered", c) /\ "Answered" \notin N
        /\ "Answered" \in N => ~Dead(l, c)
    BY DEF Moved, Legal
  <2>4. \A op \in Over : op \in N => Dead(l, c)'
    BY <1>3
  <2>5. /\ \A op \in Over : Has(evs'[l], op, c) => Dead(l, c)'
        /\ Has(evs'[l], "Unavailable", c) => ~Has(evs'[l], "Answered", c)
    BY <2>2, <2>3, <2>4, <1>3
  <2>6. ASSUME pending'[c] # NoPending, pending'[c].act = Event(l, "Unavailable", c)
        PROVE  /\ Dead(l, c)' /\ ~Has(evs'[l], "Answered", c)
               /\ route'[c].owner \in {"none", l}
    BY <2>2, <2>3, <2>6, <1>0, <1>3
  <2>7. Event(l, "Unavailable", c)' = Event(l, "Unavailable", c)
    BY DEF Event
  <2> QED BY <2>1, <2>5, <2>6 DEF Given
<1>11. \A k \in Legs : Dead(k, c) => Dead(k, c)'
  BY <1>2, <1>3
<1>12. OnOneLeg(c)'
  BY <1>11 DEF CallInv, OnOneLeg, Legs
<1>13. Reached(c)'
  <2> SUFFICES ASSUME dropped'[c] = "no" PROVE Reached(c)'
    BY DEF Reached
  <2>1. /\ pending[c] # NoPending /\ route[c] = NoRoute =>
             \/ Opens(pending[c].act)
             \/ \E k \in Legs :
                  pending[c].act = Event(k, "Incoming", c) /\ pending[c].owner = k
        /\ \A k \in Legs : \/ Dead(k, c) \/ Has(toLeg[k], "Stop", c) \/ Owner(c) = k
                           \/ Has(evs[k], "Incoming", c)
    BY <1>0 DEF CallInv, Reached
  <2>2. ASSUME NEW k \in Legs
        PROVE  \/ Dead(k, c)' \/ Has(toLeg'[k], "Stop", c) \/ Owner(c)' = k
               \/ Has(evs'[k], "Incoming", c)
    <3>1. CASE k = l
      <4>1. Has(toLeg[l], "Stop", c) => Has(toLeg'[l], "Stop", c) \/ Dead(l, c)'
        BY DEF Moved, Dead
      <4> QED BY <4>1, <3>1, <2>1, <1>1, <1>3
    <3>2. CASE k # l
      BY <3>2, <2>1, <1>1, <1>2 DEF Moved
    <3> QED BY <3>1, <3>2
  <2> QED BY <2>1, <2>2, <1>0 DEF Reached
<1> QED BY <1>4, <1>5, <1>6, <1>7, <1>8, <1>9, <1>10, <1>12, <1>13 DEF CallInv

\* The events that a list of them stands for.
Told(ops) == {ops[i] : i \in 1 .. Len(ops)}

\* The lists of events a leg sends.
LEMMA ToldFacts ==
  /\ Told(<<>>) = {}
  /\ \A a : Told(<<a>>) = {a}
  /\ \A a, b : Told(<<a, b>>) = {a, b}
BY DEF Told

\* The messages a leg sends for one call.
LEMMA OpsFacts ==
  ASSUME NEW c \in Calls, NEW ops \in Seq(Events), NEW msgs,
         msgs = [i \in DOMAIN ops |-> [op |-> ops[i], call |-> c]]
  PROVE  /\ msgs \in Seq(Notices)
         /\ \A op, d : Has(msgs, op, d) <=> d = c /\ op \in Told(ops)
         /\ \A d : About(msgs, d) => d = c
<1>1. Len(ops) \in Nat /\ DOMAIN ops = 1 .. Len(ops) /\ \A i \in 1 .. Len(ops) : ops[i] \in Events
  BY LenProperties, ElementOfSeq
<1> DEFINE f == [i \in 1 .. Len(ops) |-> [op |-> ops[i], call |-> c]]
<1>2. msgs = f
  BY <1>1
<1>3. f \in Seq(Notices) /\ Len(f) = Len(ops)
      /\ \A i \in 1 .. Len(ops) : f[i].op = ops[i] /\ f[i].call = c
  BY <1>1 DEF Notices
<1> HIDE DEF f
<1> QED BY <1>2, <1>3 DEF Has, About, Told

\* A step of a leg about a call it knows.
LEMMA LegStepInv ==
  ASSUME VoiceInv, NEW l \in Legs, NEW c \in Calls, ~Clean(l, c), link[l].session = "on",
         NEW entry, NEW ops \in Seq(Events), Legal(l, c, entry, Told(ops)),
         LegStep(l, c, entry, ops), UNCHANGED <<link, used>>,
         NEW q \in Seq(Messages), toLeg' = [toLeg EXCEPT ![l] = q],
         \A d \in Calls : Fewer(toLeg[l], q, d),
         \A d \in Calls \ {c} : Alike(toLeg[l], q, d),
         ~Has(q, "Start", c),
         Has(toLeg[l], "Stop", c) =>
           Has(q, "Stop", c) \/ entry.st \notin {"calling", "ringing", "up"}
  PROVE  VoiceInv'
<1> DEFINE msgs == [i \in DOMAIN ops |-> [op |-> ops[i], call |-> c]]
<1>0. /\ TypeOK /\ SessionInv /\ entry \in Entries /\ (entry.reinvite => entry.st = "up")
      /\ leg \in [Legs -> [Calls -> Entries]] /\ evs \in [Legs -> Seq(Notices)]
      /\ toLeg \in [Legs -> Seq(Messages)] /\ Told(ops) \subseteq Events \ {"Incoming"}
  BY DEF VoiceInv, TypeOK, Entries, Notices, Messages, Legal
<1>1. /\ leg' = [leg EXCEPT ![l][c] = entry] /\ evs' = [evs EXCEPT ![l] = @ \o msgs]
      /\ UNCHANGED routerVars
  BY DEF LegStep
<1>2. /\ msgs \in Seq(Notices)
      /\ \A op, d : Has(msgs, op, d) <=> d = c /\ op \in Told(ops)
      /\ \A d : About(msgs, d) => d = c
  <2>1. msgs = [i \in DOMAIN ops |-> [op |-> ops[i], call |-> c]]
    OBVIOUS
  <2> HIDE DEF msgs
  <2> QED BY <2>1, OpsFacts
<1> HIDE DEF msgs
<1> DEFINE e == evs[l] \o msgs
<1>3. /\ e \in Seq(Notices)
      /\ \A op, d : Has(e, op, d) <=> Has(evs[l], op, d) \/ Has(msgs, op, d)
      /\ \A d : About(e, d) <=> About(evs[l], d) \/ About(msgs, d)
      /\ \A op, d : Leads(evs[l], op, d) /\ ~Has(msgs, op, d) => Leads(e, op, d)
  <2>1. evs[l] \in Seq(Notices)
    BY <1>0
  <2> QED BY <2>1, <1>2, CatFacts
<1>4. evs' = [evs EXCEPT ![l] = e]
  BY <1>0, <1>1
<1> HIDE DEF e
<1>5. /\ leg' \in [Legs -> [Calls -> Entries]] /\ leg'[l][c] = entry
      /\ \A k \in Legs, d \in Calls : k # l \/ d # c => leg'[k][d] = leg[k][d]
  <2> DEFINE row == [leg[l] EXCEPT ![c] = entry]
  <2>1. leg' = [leg EXCEPT ![l] = row]
    BY <1>0, <1>1
  <2>2. row \in [Calls -> Entries] /\ row[c] = entry /\ \A d \in Calls : d # c => row[d] = leg[l][d]
    BY <1>0
  <2> HIDE DEF row
  <2> QED BY <2>1, <2>2, <1>0
<1>6. /\ evs' \in [Legs -> Seq(Notices)] /\ evs'[l] = e
      /\ \A k \in Legs \ {l} : evs'[k] = evs[k]
  BY <1>0, <1>3, <1>4
<1>7. /\ toLeg' \in [Legs -> Seq(Messages)] /\ toLeg'[l] = q
      /\ \A k \in Legs \ {l} : toLeg'[k] = toLeg[k]
  BY <1>0
<1>8. TypeOK'
  BY <1>0, <1>1, <1>5, <1>6, <1>7 DEF TypeOK, routerVars, trunkVars, admissionVars, policyVars,
     historyVars, Entries, Notices, Messages
<1>9. SessionInv'
  BY <1>0, <1>5, <1>7 DEF SessionInv
<1>10. CallInv(c)'
  <2>1. Moved(l, c, entry, Told(ops))
    <3>1. \A op : Has(evs'[l], op, c) <=> Has(evs[l], op, c) \/ op \in Told(ops)
      BY <1>2, <1>3, <1>6
    <3>2. Leads(evs[l], "Incoming", c) => Leads(evs'[l], "Incoming", c)
      BY <1>0, <1>2, <1>3, <1>6
    <3> QED BY <3>1, <3>2, <1>5, <1>6, <1>7 DEF Moved
  <2> QED BY <2>1, <1>0, <1>1, MovedInv DEF VoiceInv
<1>11. ASSUME NEW d \in Calls \ {c} PROVE CallInv(d)'
  <2>1. \A op : Has(e, op, d) <=> Has(evs[l], op, d)
    BY <1>2, <1>3
  <2>2. Fewer(evs[l], e, d)
    BY <2>1, <1>2, <1>3 DEF Fewer
  <2>3. UNCHANGED <<cmds, asked, heard, api, used, route, pending, met, stopped, dropped>>
    BY <1>1 DEF routerVars, trunkVars, admissionVars, historyVars
  <2>4. ASSUME NEW k \in Legs
        PROVE  /\ leg'[k][d] = leg[k][d] /\ Alike(toLeg[k], toLeg'[k], d)
               /\ Fewer(evs[k], evs'[k], d)
               /\ Has(evs[k], "Incoming", d) => Has(evs'[k], "Incoming", d)
    <3>1. CASE k = l
      BY <3>1, <2>1, <2>2, <1>5, <1>6, <1>7
    <3>2. CASE k # l
      BY <3>2, <1>5, <1>6, <1>7, FewerSame DEF Alike
    <3> QED BY <3>1, <3>2
  <2>5. Frame(d)
    BY <2>3, <2>4, FewerSame DEF Frame
  <2> QED BY <2>5, <1>0, FrameInv DEF VoiceInv
<1> QED BY <1>8, <1>9, <1>10, <1>11 DEF VoiceInv

\* What the leg knows of a call in its table.
LEMMA EntryFacts ==
  ASSUME VoiceInv, NEW l \in Legs, NEW c \in Calls, leg[l][c] # NoCall
  PROVE  /\ CallInv(c) /\ SessionInv /\ ~Clean(l, c) /\ link[l].session = "on"
         /\ ~Has(toLeg[l], "Start", c) /\ toLeg[l] \in Seq(Messages)
         /\ toLeg = [toLeg EXCEPT ![l] = toLeg[l]]
         /\ \A d \in Calls : Alike(toLeg[l], toLeg[l], d)
<1>1. TypeOK /\ SessionInv /\ CallInv(c)
  BY DEF VoiceInv
<1>2. ~Clean(l, c) /\ link[l].session = "on" /\ ~Has(toLeg[l], "Start", c)
  BY <1>1 DEF Clean, SessionInv, CallInv, StartsOnce
<1>3. toLeg \in [Legs -> Seq(Messages)]
  BY <1>1 DEF TypeOK, Messages
<1> QED BY <1>1, <1>2, <1>3 DEF Alike

\* A message of the network about a call of the leg.
LEMMA NetStepInv ==
  ASSUME VoiceInv, NEW l \in Legs, NEW c \in Calls, leg[l][c] # NoCall,
         NEW entry, NEW op \in Events, Legal(l, c, entry, {op}),
         LegStep(l, c, entry, <<op>>), UNCHANGED <<link, toLeg, used>>
  PROVE  VoiceInv'
<1> DEFINE ops == <<op>>
<1>1. ops \in Seq(Events) /\ Told(ops) = {op}
  BY ToldFacts
<1>2. LegStep(l, c, entry, ops)
  OBVIOUS
<1> HIDE DEF ops
<1>3. /\ ~Clean(l, c) /\ link[l].session = "on"
      /\ ~Has(toLeg[l], "Start", c) /\ toLeg[l] \in Seq(Messages)
      /\ toLeg' = [toLeg EXCEPT ![l] = toLeg[l]]
      /\ \A d \in Calls : Alike(toLeg[l], toLeg[l], d)
  BY EntryFacts
<1>4. Legal(l, c, entry, Told(ops))
  BY <1>1
<1> QED BY <1>1, <1>2, <1>3, <1>4, FewerSame, LegStepInv

\* The network answers or rejects a call.
LEMMA NetFinalInv ==
  ASSUME VoiceInv, NEW l \in Legs, NEW c \in Calls, NetFinal(l, c)
  PROVE  VoiceInv'
<1>1. leg[l][c].st = "calling" /\ UNCHANGED <<link, toLeg, used>>
  BY DEF NetFinal
<1>2. leg[l][c] # NoCall
  BY <1>1 DEF NoCall
<1>3. CallInv(c) /\ SessionInv
  BY <1>2, EntryFacts
<1>4. Outgoing(c) /\ ~Arriving(l, c) /\ ~Dead(l, c)
  BY <1>1, <1>3 DEF CallInv, OneWay, Rings, Dead
<1>5. CASE LegStep(l, c, Entry("up"), <<"Answered">>)
  <2>1. "Answered" \in Events /\ Legal(l, c, Entry("up"), {"Answered"})
    BY <1>4 DEF Events, Legal, Entry, Entries, Over
  <2> QED BY <2>1, <1>1, <1>2, <1>5, NetStepInv
<1>6. CASE LegStep(l, c, NoCall, <<"Rejected">>)
  <2>1. "Rejected" \in Events /\ Legal(l, c, NoCall, {"Rejected"})
    BY <1>4 DEF Events, Legal, NoCall, Entries, Over
  <2> QED BY <2>1, <1>1, <1>2, <1>6, NetStepInv
<1> QED BY <1>5, <1>6 DEF NetFinal

\* The network answers a re-INVITE.
LEMMA NetReinviteFinalInv ==
  ASSUME VoiceInv, NEW l \in Legs, NEW c \in Calls, NetReinviteFinal(l, c)
  PROVE  VoiceInv'
<1>1. leg[l][c].reinvite /\ UNCHANGED <<link, toLeg, used>>
  BY DEF NetReinviteFinal
<1>2. leg[l][c] # NoCall
  BY <1>1 DEF NoCall
<1>3. CallInv(c) /\ SessionInv
  BY <1>2, EntryFacts
<1>4. Outgoing(c) /\ ~Arriving(l, c) /\ ~Dead(l, c)
  BY <1>1, <1>3 DEF CallInv, OneWay, Rings, Dead, SessionInv
<1>5. ASSUME NEW op \in {"Answered", "ReinviteRejected"}, LegStep(l, c, Entry("up"), <<op>>)
      PROVE  VoiceInv'
  <2>1. op \in Events /\ Legal(l, c, Entry("up"), {op})
    BY <1>4 DEF Events, Legal, Entry, Entries, Over
  <2> QED BY <2>1, <1>1, <1>2, <1>5, NetStepInv
<1>6. CASE LegStep(l, c, NoCall, <<"Rejected">>)
  <2>1. "Rejected" \in Events /\ Legal(l, c, NoCall, {"Rejected"})
    BY <1>4 DEF Events, Legal, NoCall, Entries, Over
  <2> QED BY <2>1, <1>1, <1>2, <1>6, NetStepInv
<1> QED BY <1>5, <1>6 DEF NetReinviteFinal

\* The network ends a call.
LEMMA NetEndInv ==
  ASSUME VoiceInv, NEW l \in Legs, NEW c \in Calls, NetEnd(l, c)
  PROVE  VoiceInv'
<1>1. /\ leg[l][c] # NoCall /\ UNCHANGED <<link, toLeg, used>>
      /\ \E op \in {"Ended", "Cancelled"} : LegStep(l, c, NoCall, <<op>>)
  BY DEF NetEnd, NoCall
<1>2. PICK op \in {"Ended", "Cancelled"} : LegStep(l, c, NoCall, <<op>>)
  BY <1>1
<1>3. op \in Events /\ Legal(l, c, NoCall, {op})
  BY DEF Events, Legal, NoCall, Entries, Over
<1> QED BY <1>1, <1>2, <1>3, NetStepInv

\* What a leg may make of a command about a call.
LEMMA OutcomeLegal ==
  ASSUME VoiceInv, NEW l \in Legs, NEW c \in Calls, NEW op \in Commands,
         Has(toLeg[l], op, c), NEW o, o \in LegOutcomes(l, op, leg[l][c])
  PROVE  /\ o[2] \in Seq(Events) /\ Legal(l, c, o[1], Told(o[2]))
         /\ op = "Stop" => o[1].st \notin {"calling", "ringing", "up"}
<1> DEFINE call == leg[l][c]
<1>0. /\ TypeOK /\ SessionInv /\ CallInv(c) /\ call \in Entries
      /\ call.reinvite => call.st = "up"
  <2>1. TypeOK /\ SessionInv /\ CallInv(c)
    BY DEF VoiceInv
  <2>2. leg \in [Legs -> [Calls -> Entries]]
    BY <2>1 DEF TypeOK, Entries
  <2> QED BY <2>1, <2>2 DEF SessionInv
<1>1. ~Arriving(l, c) /\ About(toLeg[l], c)
  BY <1>0, HasAbout DEF CallInv, Rings
<1>2. /\ call.st = "calling" \/ call.reinvite \/ op \in {"Start", "Renegotiate"} => Outgoing(c)
      /\ op = "Start" => call = NoCall /\ ~Has(evs[l], "Answered", c) /\ ~Dead(l, c)
      /\ Dead(l, c) <=> call.st \notin {"calling", "ringing", "up"} /\ ~Has(toLeg[l], "Start", c)
  BY <1>0, HasAbout DEF CallInv, OneWay, StartsOnce, Dead
<1>3. /\ Told(<<>>) = {} /\ \A a : Told(<<a>>) = {a}
      /\ \A a, b : Told(<<a, b>>) = {a, b}
  BY ToldFacts
<1>4. /\ <<>> \in Seq(Events) /\ \A a \in Events : <<a>> \in Seq(Events)
      /\ \A a, b \in Events : <<a, b>> \in Seq(Events)
  OBVIOUS
<1>5. {"Unavailable", "Rejected", "Connected", "Ended", "ReinviteRejected", "TransferResponse"}
        \subseteq Events \ {"Incoming"}
  BY DEF Events
<1> HIDE DEF call
<1>6. ASSUME NEW entry \in Entries, NEW ops \in {<<>>, <<"Connected">>, <<"ReinviteRejected">>,
                                               <<"TransferResponse">>},
             entry.reinvite => entry.st = "up", entry.st = "calling" \/ entry.reinvite => Outgoing(c),
             Dead(l, c) => entry.st \notin {"calling", "ringing", "up"}
      PROVE  ops \in Seq(Events) /\ Legal(l, c, entry, Told(ops))
  <2>1. ops \in Seq(Events)
    BY <1>4, <1>5
  <2>2. Told(ops) \subseteq {"Connected", "ReinviteRejected", "TransferResponse"}
    BY <1>3
  <2> QED BY <2>1, <2>2, <1>1, <1>5, <1>6 DEF Legal, Over
<1>7. ASSUME NEW entry \in {NoCall, Entry("unsent")},
             NEW ops \in {<<"Unavailable">>, <<"Rejected">>, <<"Ended", "Connected">>, <<>>},
             ops = <<"Unavailable">> => op = "Start"
      PROVE  ops \in Seq(Events) /\ Legal(l, c, entry, Told(ops))
  <2>1. ops \in Seq(Events)
    BY <1>4, <1>5
  <2>2. Told(ops) \subseteq {"Unavailable", "Rejected", "Ended", "Connected"}
          /\ ("Unavailable" \in Told(ops) => op = "Start")
    BY <1>3, <1>7
  <2>3. /\ entry \in Entries /\ entry.st \notin {"calling", "ringing", "up"} /\ ~entry.reinvite
    <3>1. CASE entry = NoCall
      BY <3>1 DEF Entries, NoCall
    <3>2. CASE entry = Entry("unsent")
      BY <3>2 DEF Entries, Entry
    <3> QED BY <3>1, <3>2
  <2> QED BY <2>1, <2>2, <2>3, <1>1, <1>2, <1>5 DEF Legal
<1>8. CASE op = "Start"
  <2>1. \/ o = <<Entry("calling"), <<>>>> \/ o = <<NoCall, <<"Unavailable">>>>
        \/ o = <<NoCall, <<"Rejected">>>> \/ o = <<Entry("unsent"), <<"Unavailable">>>>
    BY <1>8 DEF LegOutcomes, StartOutcomes
  <2>2. CASE o = <<Entry("calling"), <<>>>>
    <3>1. Entry("calling") \in Entries /\ ~Entry("calling").reinvite /\ Outgoing(c) /\ ~Dead(l, c)
      BY <1>2, <1>8 DEF Entry, Entries
    <3>2. o[1] = Entry("calling") /\ o[2] = <<>>
      BY <2>2
    <3> QED BY <3>1, <3>2, <1>6, <1>8
  <2>3. CASE o # <<Entry("calling"), <<>>>>
    <3>1. o[1] \in {NoCall, Entry("unsent")} /\ o[2] \in {<<"Unavailable">>, <<"Rejected">>}
      BY <2>1, <2>3
    <3> QED BY <3>1, <1>7, <1>8
  <2> QED BY <2>2, <2>3
<1>9. CASE op = "Accept"
  <2>1. \/ call.st \in {"ringing", "up"} /\ o = <<Entry("up"), <<"Connected">>>>
        \/ call.st \in {"ringing", "up"} /\ o = <<Entry("up"), <<>>>>
        \/ o = <<NoCall, <<"Ended", "Connected">>>> \/ o = <<call, <<>>>>
    BY <1>9 DEF LegOutcomes, AcceptOutcomes, call
  <2>2. CASE call.st \in {"ringing", "up"} /\ o[1] = Entry("up") /\ o[2] \in {<<"Connected">>, <<>>}
    <3>1. Entry("up") \in Entries /\ ~Entry("up").reinvite /\ ~Dead(l, c) /\ Entry("up").st = "up"
      BY <2>2, <1>2 DEF Entry, Entries
    <3> QED BY <3>1, <2>2, <1>6, <1>9
  <2>3. CASE o = <<NoCall, <<"Ended", "Connected">>>>
    <3>1. o[1] = NoCall /\ o[2] = <<"Ended", "Connected">>
      BY <2>3
    <3>2. <<"Ended", "Connected">> # <<"Unavailable">>
      BY Zenon
    <3> QED BY <3>1, <3>2, <1>7, <1>9
  <2>4. CASE o = <<call, <<>>>>
    <3>1. o[1] = call /\ o[2] = <<>>
      BY <2>4
    <3> QED BY <3>1, <1>0, <1>2, <1>6, <1>9
  <2> QED BY <2>1, <2>2, <2>3, <2>4
<1>10. CASE op = "Renegotiate"
  <2>1. \/ call.st = "up" /\ o = <<[call EXCEPT !.reinvite = TRUE], <<>>>>
        \/ o = <<call, <<"ReinviteRejected">>>> \/ o = <<call, <<>>>>
    BY <1>10 DEF LegOutcomes, RenegotiateOutcomes, call
  <2>2. CASE call.st = "up" /\ o = <<[call EXCEPT !.reinvite = TRUE], <<>>>>
    <3> DEFINE new == [call EXCEPT !.reinvite = TRUE]
    <3>1. new \in Entries /\ new.st = "up" /\ ~Dead(l, c) /\ Outgoing(c)
      BY <2>2, <1>0, <1>2, <1>10 DEF Entries
    <3>2. o[1] = new /\ o[2] = <<>>
      BY <2>2
    <3> HIDE DEF new
    <3> QED BY <3>1, <3>2, <1>6, <1>10
  <2>3. CASE o[1] = call /\ o[2] \in {<<>>, <<"ReinviteRejected">>}
    BY <2>3, <1>0, <1>2, <1>6, <1>10
  <2> QED BY <2>1, <2>2, <2>3
<1>11. CASE op = "Transfer"
  <2>1. o[1] = call /\ o[2] = <<"TransferResponse">>
    BY <1>11 DEF LegOutcomes, call
  <2> QED BY <2>1, <1>0, <1>2, <1>6, <1>11
<1>12. CASE op = "Stop"
  <2>1. o[1] = NoCall /\ o[2] = <<>> /\ NoCall.st = "none"
    BY <1>12 DEF LegOutcomes, NoCall
  <2> QED BY <2>1, <1>7, <1>12
<1> QED BY <1>8, <1>9, <1>10, <1>11, <1>12 DEF Commands

\* A leg carries out a command.
LEMMA LegCommandInv ==
  ASSUME VoiceInv, NEW l \in Legs, LegCommand(l)
  PROVE  VoiceInv'
<1> DEFINE q == toLeg[l]
           cmd == Head(q)
           c == cmd.call
<1>0. /\ TypeOK /\ q \in Seq(Messages) /\ q # <<>> /\ link[l].session = "on"
      /\ toLeg' = [toLeg EXCEPT ![l] = Tail(q)] /\ UNCHANGED <<link, used>>
  BY DEF VoiceInv, TypeOK, Messages, LegCommand
<1>1. PICK o \in LegOutcomes(l, cmd.op, leg[l][c]) : LegStep(l, c, o[1], o[2])
  BY DEF LegCommand
<1> HIDE DEF q
<1>2. /\ cmd \in Messages /\ Tail(q) \in Seq(Messages)
      /\ \A op, d : Has(Tail(q), op, d) => Has(q, op, d)
      /\ \A d : About(Tail(q), d) => About(q, d)
      /\ \A op, d : Leads(q, op, d) => Leads(Tail(q), op, d)
      /\ \A op, d : Has(q, op, d) => Has(Tail(q), op, d) \/ (cmd.op = op /\ c = d)
      /\ \A d : About(q, d) => About(Tail(q), d) \/ c = d
      /\ Has(q, cmd.op, c) /\ About(q, c)
      /\ \A op : Leads(q, op, c) => ~Has(Tail(q), op, c)
  BY <1>0, TailFacts
<1> HIDE DEF cmd
<1>3. cmd.op \in Commands /\ c \in Calls
  BY <1>2 DEF Messages
<1> HIDE DEF c
<1>4. CallInv(c) /\ ~Clean(l, c) /\ Leads(q, "Start", c)
  BY <1>2, <1>3 DEF VoiceInv, CallInv, StartsOnce, Clean, q
<1>5. /\ o[2] \in Seq(Events) /\ Legal(l, c, o[1], Told(o[2]))
      /\ cmd.op = "Stop" => o[1].st \notin {"calling", "ringing", "up"}
  <2>1. Has(toLeg[l], cmd.op, c)
    BY <1>2 DEF q
  <2> QED BY <2>1, <1>3, OutcomeLegal
<1>6. \A d \in Calls : Fewer(q, Tail(q), d)
  BY <1>2 DEF Fewer
<1>7. \A d \in Calls \ {c} : Alike(q, Tail(q), d)
  BY <1>2 DEF Alike
<1>8. /\ ~Has(Tail(q), "Start", c)
      /\ Has(q, "Stop", c) => Has(Tail(q), "Stop", c) \/ o[1].st \notin {"calling", "ringing", "up"}
  BY <1>2, <1>4, <1>5
<1> DEFINE r == Tail(q)
           entry == o[1]
           ops == o[2]
<1>9. /\ r \in Seq(Messages) /\ toLeg' = [toLeg EXCEPT ![l] = r] /\ ops \in Seq(Events)
      /\ Legal(l, c, entry, Told(ops)) /\ LegStep(l, c, entry, ops)
      /\ \A d \in Calls : Fewer(toLeg[l], r, d)
      /\ \A d \in Calls \ {c} : Alike(toLeg[l], r, d)
      /\ ~Has(r, "Start", c)
      /\ Has(toLeg[l], "Stop", c) => Has(r, "Stop", c) \/ entry.st \notin {"calling", "ringing", "up"}
  BY <1>0, <1>1, <1>2, <1>5, <1>6, <1>7, <1>8 DEF q
<1> HIDE DEF r, entry, ops
<1> QED BY <1>0, <1>3, <1>4, <1>9, LegStepInv

\* A session that ends, or whose task ends: no call of the leg is left.
LEMMA LegClosesInv ==
  ASSUME VoiceInv, NEW l \in Legs, TypeOK', SessionInv', UNCHANGED <<routerVars, used>>,
         NEW N \in SUBSET {"Ended"},
         \A d \in Calls : leg'[l][d] = NoCall,
         \A d \in Calls : leg[l][d] = NoCall \/ ~Has(toLeg'[l], "Start", d),
         \/ toLeg'[l] = toLeg[l]
         \/ toLeg'[l] = <<>> /\ \A d \in Calls : leg[l][d] = NoCall,
         \A d \in Calls : \A op :
           Has(evs'[l], op, d) <=> Has(evs[l], op, d) \/ (op \in N /\ leg[l][d] # NoCall),
         \A d \in Calls : About(evs'[l], d) => About(evs[l], d) \/ leg[l][d] # NoCall,
         \A d \in Calls : \A op : Leads(evs[l], op, d) /\ op # "Ended" => Leads(evs'[l], op, d),
         \A d \in Calls : \A op : leg[l][d] = NoCall /\ Leads(evs[l], op, d) => Leads(evs'[l], op, d),
         \A k \in Legs \ {l} : /\ toLeg'[k] = toLeg[k] /\ evs'[k] = evs[k]
                               /\ \A d \in Calls : leg'[k][d] = leg[k][d]
  PROVE  VoiceInv'
<1>0. TypeOK /\ UNCHANGED <<cmds, asked, heard, api, used, route, pending, met, stopped, dropped>>
  BY DEF VoiceInv, routerVars, trunkVars, admissionVars, historyVars
<1>1. NoCall \in Entries /\ NoCall.st = "none" /\ ~NoCall.reinvite
  BY DEF Entries, NoCall
<1> SUFFICES ASSUME NEW d \in Calls PROVE CallInv(d)'
  BY DEF VoiceInv
<1>2. CallInv(d)
  BY DEF VoiceInv
<1>3. Fewer(toLeg[l], toLeg'[l], d)
  BY HasNone DEF Fewer
<1>4. CASE leg[l][d] = NoCall /\ (toLeg'[l] = toLeg[l] \/ ~About(toLeg[l], d))
  <2>1. Alike(toLeg[l], toLeg'[l], d)
    BY <1>3, <1>4, HasNone, HasAbout DEF Alike, Fewer
  <2>2. Fewer(evs[l], evs'[l], d)
    BY <1>4 DEF Fewer
  <2>3. Has(evs[l], "Incoming", d) => Has(evs'[l], "Incoming", d)
    BY <1>4
  <2>4. ASSUME NEW k \in Legs
        PROVE  /\ leg'[k][d] = leg[k][d] /\ Alike(toLeg[k], toLeg'[k], d)
               /\ Fewer(evs[k], evs'[k], d)
               /\ Has(evs[k], "Incoming", d) => Has(evs'[k], "Incoming", d)
    <3>1. CASE k = l
      BY <3>1, <2>1, <2>2, <2>3, <1>4
    <3>2. CASE k # l
      BY <3>2, FewerSame DEF Alike
    <3> QED BY <3>1, <3>2
  <2>5. Frame(d)
    BY <2>4, <1>0, FewerSame DEF Frame
  <2> QED BY <2>5, <1>0, <1>2, FrameInv
<1>5. CASE leg[l][d] # NoCall \/ (toLeg'[l] = <<>> /\ About(toLeg[l], d))
  <2> DEFINE M == IF leg[l][d] # NoCall THEN N ELSE {}
  <2>1. ~Clean(l, d)
    BY <1>5 DEF Clean
  <2>2. M \subseteq {"Ended"} /\ \A op : Has(evs'[l], op, d) <=> Has(evs[l], op, d) \/ op \in M
    OBVIOUS
  <2> HIDE DEF M
  <2>3. Legal(l, d, NoCall, M)
    BY <2>2, <1>1 DEF Legal, Events
  <2>4. ~Has(toLeg'[l], "Start", d)
    BY <1>5, HasNone
  <2>5. Leads(evs[l], "Incoming", d) => Leads(evs'[l], "Incoming", d)
    OBVIOUS
  <2>6. Moved(l, d, NoCall, M)
    BY <2>2, <2>4, <2>5, <1>1, <1>3 DEF Moved
  <2> QED BY <2>1, <2>3, <2>6, <1>0, <1>2, MovedInv
<1> QED BY <1>4, <1>5

\* A session ends with its calls.
LEMMA SessionEndsInv ==
  ASSUME VoiceInv, NEW l \in Legs, NEW tell \in BOOLEAN, SessionEnds(l, tell)
  PROVE  VoiceInv'
<1> DEFINE T == {d \in Calls : leg[l][d] # NoCall}
           msgs == Each(T, "Ended")
           e == IF tell THEN evs[l] \o msgs ELSE evs[l]
           N == IF tell THEN {"Ended"} ELSE {}
<1>0. /\ TypeOK /\ SessionInv /\ evs \in [Legs -> Seq(Notices)] /\ "Ended" \in Events
      /\ leg \in [Legs -> [Calls -> Entries]] /\ link \in [Legs -> Links] /\ NoCall \in Entries
      /\ NoCall.reinvite = FALSE
  BY DEF VoiceInv, TypeOK, Notices, Events, Entries, Links, NoCall
<1>1. /\ link' = [link EXCEPT ![l].session = "closing"]
      /\ leg' = [leg EXCEPT ![l] = [c \in Calls |-> NoCall]]
      /\ evs' = [evs EXCEPT ![l] = IF tell THEN @ \o msgs ELSE @]
      /\ UNCHANGED <<toLeg, used, routerVars>>
  BY DEF SessionEnds
<1>2. evs' = [evs EXCEPT ![l] = e]
  BY <1>0, <1>1
<1>3. /\ msgs \in Seq(Notices)
      /\ \A op, c : Has(msgs, op, c) <=> op = "Ended" /\ c \in T
      /\ \A c : About(msgs, c) <=> c \in T
  <2>1. T \in SUBSET Calls
    OBVIOUS
  <2> HIDE DEF T
  <2>2. /\ \A S : "Ended" \in S => Each(T, "Ended") \in Seq([op : S, call : Calls])
        /\ \A op, c : Has(Each(T, "Ended"), op, c) <=> op = "Ended" /\ c \in T
        /\ \A c : About(Each(T, "Ended"), c) <=> c \in T
    BY <2>1, EachFacts
  <2> QED BY <2>2, <1>0 DEF Notices
<1>4. \A c \in Calls : c \in T <=> leg[l][c] # NoCall
  OBVIOUS
<1>5. (\A op : op \in N <=> tell /\ op = "Ended") /\ N \in SUBSET {"Ended"}
  OBVIOUS
<1> HIDE DEF msgs, T, N
<1>6. /\ evs[l] \o msgs \in Seq(Notices)
      /\ \A op, d : Has(evs[l] \o msgs, op, d) <=> Has(evs[l], op, d) \/ Has(msgs, op, d)
      /\ \A d : About(evs[l] \o msgs, d) <=> About(evs[l], d) \/ About(msgs, d)
      /\ \A op, d : Leads(evs[l], op, d) /\ ~Has(msgs, op, d) => Leads(evs[l] \o msgs, op, d)
  <2>1. evs[l] \in Seq(Notices)
    BY <1>0
  <2> QED BY <2>1, <1>3, CatFacts
<1>7. /\ e \in Seq(Notices)
      /\ \A d \in Calls : \A op :
           Has(e, op, d) <=> Has(evs[l], op, d) \/ (op \in N /\ leg[l][d] # NoCall)
      /\ \A d \in Calls : About(e, d) => About(evs[l], d) \/ leg[l][d] # NoCall
      /\ \A d \in Calls : \A op : Leads(evs[l], op, d) /\ op # "Ended" => Leads(e, op, d)
      /\ \A d \in Calls : \A op : leg[l][d] = NoCall /\ Leads(evs[l], op, d) => Leads(e, op, d)
  <2>1. CASE tell
    <3>1. e = evs[l] \o msgs
      BY <2>1
    <3> HIDE DEF e
    <3> QED BY <3>1, <2>1, <1>3, <1>4, <1>5, <1>6
  <2>2. CASE ~tell
    <3>1. e = evs[l]
      BY <2>2
    <3> HIDE DEF e
    <3> QED BY <3>1, <2>2, <1>0, <1>5
  <2> QED BY <2>1, <2>2
<1> HIDE DEF e
<1>8. /\ evs' \in [Legs -> Seq(Notices)] /\ evs'[l] = e
      /\ \A k \in Legs \ {l} : evs'[k] = evs[k]
  BY <1>0, <1>2, <1>7
<1>9. /\ leg' \in [Legs -> [Calls -> Entries]] /\ \A d \in Calls : leg'[l][d] = NoCall
      /\ \A k \in Legs \ {l} : \A d \in Calls : leg'[k][d] = leg[k][d]
  BY <1>0, <1>1
<1>10. /\ link' \in [Legs -> Links] /\ link'[l].session = "closing"
       /\ \A k \in Legs \ {l} : link'[k] = link[k]
  <2>1. \A x \in Links : /\ [x EXCEPT !.session = "closing"] \in Links
                         /\ [x EXCEPT !.session = "closing"].session = "closing"
    BY DEF Links
  <2> QED BY <2>1, <1>0, <1>1
<1>11. TypeOK'
  BY <1>0, <1>1, <1>8, <1>9, <1>10 DEF TypeOK, routerVars, trunkVars, admissionVars, policyVars,
     historyVars, Entries, Notices, Links
<1>12. SessionInv'
  BY <1>0, <1>1, <1>9, <1>10 DEF SessionInv
<1>13. \A d \in Calls : leg[l][d] = NoCall \/ ~Has(toLeg'[l], "Start", d)
  BY <1>1 DEF VoiceInv, CallInv, StartsOnce
<1>14. /\ \A d \in Calls : \A op :
            Has(evs'[l], op, d) <=> Has(evs[l], op, d) \/ (op \in N /\ leg[l][d] # NoCall)
       /\ \A d \in Calls : About(evs'[l], d) => About(evs[l], d) \/ leg[l][d] # NoCall
       /\ \A d \in Calls : \A op :
            Leads(evs[l], op, d) /\ op # "Ended" => Leads(evs'[l], op, d)
       /\ \A d \in Calls : \A op :
            leg[l][d] = NoCall /\ Leads(evs[l], op, d) => Leads(evs'[l], op, d)
  BY <1>7, <1>8
<1>15. \A k \in Legs \ {l} : /\ toLeg'[k] = toLeg[k] /\ evs'[k] = evs[k]
                             /\ \A d \in Calls : leg'[k][d] = leg[k][d]
  BY <1>1, <1>8, <1>9
<1>16. UNCHANGED <<routerVars, used>> /\ toLeg'[l] = toLeg[l] /\ N \in SUBSET {"Ended"}
  BY <1>1, <1>5
<1>17. \A d \in Calls : leg'[l][d] = NoCall
  BY <1>9
<1> QED BY <1>11, <1>12, <1>13, <1>14, <1>15, <1>16, <1>17, LegClosesInv

\* The task of a session ends, with the commands it had not read.
LEMMA LinkClosedInv ==
  ASSUME VoiceInv, NEW l \in Legs, LinkClosed(l)
  PROVE  VoiceInv'
<1> DEFINE new == [NotReady(l) EXCEPT !.session = "off"]
           N == {}
<1>0. /\ TypeOK /\ SessionInv /\ link \in [Legs -> Links] /\ toLeg \in [Legs -> Seq(Messages)]
      /\ link[l].session = "closing"
  BY DEF VoiceInv, TypeOK, Links, Messages, LinkClosed
<1>1. /\ link' = [link EXCEPT ![l] = new] /\ toLeg' = [toLeg EXCEPT ![l] = <<>>]
      /\ UNCHANGED <<leg, evs, used, routerVars>>
  BY DEF LinkClosed
<1>2. new \in Links /\ new.session = "off"
  <2>1. NotReady(l) \in Links
    BY <1>0, NotReadyFacts
  <2>2. \A x \in Links : /\ [x EXCEPT !.session = "off"] \in Links
                         /\ [x EXCEPT !.session = "off"].session = "off"
    BY DEF Links
  <2> QED BY <2>1, <2>2
<1> HIDE DEF new
<1>3. /\ link' \in [Legs -> Links] /\ link'[l].session = "off"
      /\ \A k \in Legs \ {l} : link'[k] = link[k]
  BY <1>0, <1>1, <1>2
<1>4. /\ toLeg' \in [Legs -> Seq(Messages)] /\ toLeg'[l] = <<>>
      /\ \A k \in Legs \ {l} : toLeg'[k] = toLeg[k]
  BY <1>0, <1>1
<1>5. \A d \in Calls : leg[l][d] = NoCall /\ leg'[l][d] = NoCall
  BY <1>0, <1>1 DEF SessionInv
<1>6. TypeOK'
  BY <1>0, <1>1, <1>3, <1>4 DEF TypeOK, routerVars, trunkVars, admissionVars, policyVars,
     historyVars, Links, Messages
<1>7. SessionInv'
  BY <1>0, <1>1, <1>3, <1>4, <1>5 DEF SessionInv
<1>8. N \in SUBSET {"Ended"} /\ \A op : op \notin N
  OBVIOUS
<1> HIDE DEF N
<1> QED BY <1>1, <1>4, <1>5, <1>6, <1>7, <1>8, LegClosesInv

\* A call of the network under a new id.
LEMMA NetIncomingInv ==
  ASSUME VoiceInv, NEW l \in Legs, NEW c \in Calls, NEW immediate \in BOOLEAN,
         NetIncoming(l, c, immediate)
  PROVE  VoiceInv'
<1> DEFINE entry == Entry(IF link[l].auto /\ immediate THEN "up" ELSE "ringing")
           ops == <<"Incoming">>
           msgs == [i \in DOMAIN ops |-> [op |-> ops[i], call |-> c]]
<1>0. /\ TypeOK /\ SessionInv /\ evs \in [Legs -> Seq(Notices)] /\ link[l].session = "on"
      /\ leg \in [Legs -> [Calls -> Entries]] /\ c \notin used
  BY DEF VoiceInv, TypeOK, Notices, Entries, NetIncoming, Fresh
<1>1. /\ leg' = [leg EXCEPT ![l][c] = entry] /\ evs' = [evs EXCEPT ![l] = @ \o msgs]
      /\ UNCHANGED <<routerVars, link, toLeg>> /\ used' = used \cup {c}
  BY DEF NetIncoming, LegStep, Fresh
<1>2. entry \in Entries /\ entry.st \in {"up", "ringing"} /\ entry.reinvite = FALSE
  BY DEF Entry, Entries
<1> HIDE DEF entry
<1>3. ops \in Seq(Events) /\ Told(ops) = {"Incoming"}
  BY ToldFacts DEF Events
<1> HIDE DEF ops
<1>4. /\ msgs \in Seq(Notices)
      /\ \A op, d : Has(msgs, op, d) <=> d = c /\ op = "Incoming"
      /\ \A d : About(msgs, d) => d = c
  <2>1. msgs = [i \in DOMAIN ops |-> [op |-> ops[i], call |-> c]]
    OBVIOUS
  <2> HIDE DEF msgs
  <2> QED BY <2>1, <1>3, OpsFacts
<1>5. \A op, d : Leads(msgs, op, d)
  <2>1. msgs = <<[op |-> "Incoming", call |-> c]>>
    BY DEF ops
  <2> HIDE DEF msgs
  <2> QED BY <2>1, HasOne
<1> HIDE DEF msgs
<1> DEFINE e == evs[l] \o msgs
<1>6. /\ e \in Seq(Notices)
      /\ \A op, d : Has(e, op, d) <=> Has(evs[l], op, d) \/ Has(msgs, op, d)
      /\ \A d : About(e, d) <=> About(evs[l], d) \/ About(msgs, d)
      /\ \A op, d : Leads(evs[l], op, d) /\ ~Has(msgs, op, d) => Leads(e, op, d)
      /\ \A op, d : ~About(evs[l], d) /\ Leads(msgs, op, d) => Leads(e, op, d)
  <2>1. evs[l] \in Seq(Notices)
    BY <1>0
  <2> QED BY <2>1, <1>4, CatFacts
<1>7. evs' = [evs EXCEPT ![l] = e]
  BY <1>0, <1>1
<1> HIDE DEF e
<1>8. /\ leg' \in [Legs -> [Calls -> Entries]] /\ leg'[l][c] = entry
      /\ \A k \in Legs, d \in Calls : k # l \/ d # c => leg'[k][d] = leg[k][d]
  <2> DEFINE row == [leg[l] EXCEPT ![c] = entry]
  <2>1. leg' = [leg EXCEPT ![l] = row]
    BY <1>0, <1>1
  <2>2. row \in [Calls -> Entries] /\ row[c] = entry /\ \A d \in Calls : d # c => row[d] = leg[l][d]
    BY <1>0, <1>2
  <2> HIDE DEF row
  <2> QED BY <2>1, <2>2, <1>0
<1>9. /\ evs' \in [Legs -> Seq(Notices)] /\ evs'[l] = e
      /\ \A k \in Legs \ {l} : evs'[k] = evs[k]
  BY <1>0, <1>6, <1>7
<1>10. UNCHANGED <<link, toLeg, cmds, asked, heard, api, route, pending, met, stopped, dropped>>
  BY <1>1 DEF routerVars, trunkVars, admissionVars, historyVars
<1>11. TypeOK'
  BY <1>0, <1>1, <1>8, <1>9 DEF TypeOK, routerVars, trunkVars, admissionVars, policyVars,
     historyVars, Entries, Notices
<1>12. SessionInv'
  BY <1>0, <1>2, <1>8, <1>10 DEF SessionInv
<1>13. ASSUME NEW d \in Calls \ {c} PROVE CallInv(d)'
  <2>1. \A op : Has(e, op, d) <=> Has(evs[l], op, d)
    BY <1>4, <1>6
  <2>2. Fewer(evs[l], e, d)
    BY <2>1, <1>4, <1>6 DEF Fewer
  <2>3. ASSUME NEW k \in Legs
        PROVE  /\ leg'[k][d] = leg[k][d] /\ Alike(toLeg[k], toLeg'[k], d)
               /\ Fewer(evs[k], evs'[k], d)
               /\ Has(evs[k], "Incoming", d) => Has(evs'[k], "Incoming", d)
    <3>1. CASE k = l
      BY <3>1, <2>1, <2>2, <1>8, <1>9, <1>10 DEF Alike
    <3>2. CASE k # l
      BY <3>2, <1>8, <1>9, <1>10, FewerSame DEF Alike
    <3> QED BY <3>1, <3>2
  <2>4. Frame(d)
    BY <2>3, <1>1, <1>10, FewerSame DEF Frame
  <2> QED BY <2>4, <1>0, FrameInv DEF VoiceInv
<1>14. /\ CallInv(c) /\ Untouched(c) /\ asked[c] = {} /\ api[c].st = "none" /\ ~About(cmds, c)
       /\ \A k \in Legs : Clean(k, c) /\ ~Arriving(k, c)
       /\ \A op : ~Has(cmds, op, c)
  BY <1>0, FreshFacts
<1>15. /\ Untouched(c)' /\ ~Outgoing(c)' /\ c \in used'
       /\ \A k \in Legs : \A op : ~Has(toLeg'[k], op, c) /\ ~About(toLeg'[k], c)
       /\ \A k \in Legs \ {l} : Clean(k, c)' /\ ~Arriving(k, c)' /\ Dead(k, c)'
       /\ \A op : Has(evs'[l], op, c) => op = "Incoming"
       /\ Has(evs'[l], "Incoming", c) /\ Leads(evs'[l], "Incoming", c)
       /\ \A k \in Legs \ {l} : \A op : ~Has(evs'[k], op, c)
  <2>1. Untouched(c)' /\ ~Outgoing(c)' /\ c \in used'
    BY <1>1, <1>10, <1>14 DEF Untouched, Outgoing
  <2>2. \A k \in Legs : \A op : ~Has(toLeg'[k], op, c) /\ ~About(toLeg'[k], c)
    BY <1>10, <1>14, HasAbout DEF Clean
  <2>3. \A k \in Legs \ {l} : Clean(k, c)' /\ ~Arriving(k, c)'
    BY <1>8, <1>9, <1>10, <1>14 DEF Clean, Arriving
  <2>4. /\ \A op : Has(evs'[l], op, c) => op = "Incoming"
        /\ Has(evs'[l], "Incoming", c) /\ Leads(evs'[l], "Incoming", c)
    BY <1>4, <1>5, <1>6, <1>9, <1>14, HasAbout DEF Clean
  <2>5. \A k \in Legs \ {l} : \A op : ~Has(evs'[k], op, c)
    BY <1>9, <1>14, HasAbout DEF Clean
  <2>6. \A k \in Legs \ {l} : Dead(k, c)'
    <3>1. \A k \in Legs \ {l} : leg'[k][c] = NoCall /\ NoCall.st = "none"
      BY <1>8, <1>14 DEF Clean, NoCall
    <3> QED BY <3>1, <2>2 DEF Dead
  <2> QED BY <2>1, <2>2, <2>3, <2>4, <2>5, <2>6
<1>16. Waits(c)' /\ Unused(c)' /\ Starts(c)' /\ Requested(c)' /\ Ended(c)'
  BY <1>10, <1>14, <1>15 DEF CallInv, Waits, Unused, Starts, Requested, Ended
<1>17. Rings(c)'
  BY <1>2, <1>8, <1>9, <1>10, <1>14, <1>15 DEF CallInv, Rings, Untouched
<1>18. OneWay(c)'
  <2>1. \A k \in Legs : leg'[k][c].st # "calling" /\ leg'[k][c].reinvite = FALSE
    <3>1. \A k \in Legs \ {l} : leg'[k][c] = NoCall
      BY <1>8, <1>14 DEF Clean
    <3>2. NoCall.st = "none" /\ NoCall.reinvite = FALSE
      BY DEF NoCall
    <3> QED BY <3>1, <3>2, <1>2, <1>8
  <2>2. \A k \in Legs : \A op : ~Has(toLeg'[k], op, c) /\ ~Has(evs'[k], "Answered", c)
    BY <1>15
  <2>3. asked'[c] = {} /\ heard'[c] = "nothing" /\ \A op : ~Has(cmds', op, c)
    BY <1>10, <1>14 DEF Untouched
  <2> QED BY <2>1, <2>2, <2>3 DEF OneWay
<1>19. HeldStart(c)' /\ Planned(c)'
  BY <1>15 DEF HeldStart, Planned, Untouched, NoRoute
<1>20. StartsOnce(c)'
  BY <1>10, <1>14, <1>15 DEF CallInv, StartsOnce
<1>21. Given(c)' /\ OnOneLeg(c)'
  <2>1. Given(c)'
    BY <1>15 DEF Given, Over, Untouched
  <2>2. OnOneLeg(c)'
    BY <1>15 DEF OnOneLeg, Legs
  <2> QED BY <2>1, <2>2
<1>22. Reached(c)'
  BY <1>15 DEF Reached, Untouched
<1>23. Ratchet(c)'
  BY <1>10, <1>14 DEF CallInv, Ratchet, Untouched
<1>24. CallInv(c)'
  BY <1>16, <1>17, <1>18, <1>19, <1>20, <1>21, <1>22, <1>23 DEF CallInv
<1> QED BY <1>11, <1>12, <1>13, <1>24 DEF VoiceInv

-----------------------------------------------------------------------------
(* The invariant is kept.                                                  *)

\* The invariant holds initially.
LEMMA VoiceInit ==
  ASSUME Init
  PROVE  VoiceInv
<1> DEFINE lk == [l \in Legs |-> [ready |-> TRUE, gen |-> 0, session |-> "on",
                                  allowed |-> TRUE, auto |-> TRUE]]
<1>1. /\ link = Permissions(lk, gate, Legs) /\ lk \in [Legs -> Links]
      /\ \A l \in Legs : lk[l].session = "on"
  BY DEF Init, Links
<1> HIDE DEF lk
<1>2. link \in [Legs -> Links] /\ \A l \in Legs : link[l].session = "on"
  <2>1. ASSUME NEW l \in Legs, NEW a \in BOOLEAN, NEW b \in BOOLEAN
        PROVE  /\ [lk[l] EXCEPT !.auto = a, !.allowed = b] \in Links
               /\ [lk[l] EXCEPT !.auto = a, !.allowed = b].session = "on"
    <3>1. lk[l] \in Links /\ lk[l].session = "on"
      BY <1>1
    <3> QED BY <3>1 DEF Links
  <2> QED BY <2>1, <1>1 DEF Permissions
<1>3. /\ leg \in [Legs -> [Calls -> Entries]] /\ \A l \in Legs, c \in Calls : leg[l][c] = NoCall
      /\ toLeg \in [Legs -> Seq(Messages)] /\ \A l \in Legs : toLeg[l] = <<>>
      /\ evs \in [Legs -> Seq(Notices)] /\ \A l \in Legs : evs[l] = <<>>
      /\ cmds = <<>> /\ NoCall.st = "none" /\ ~NoCall.reinvite
  <2>1. NoCall \in Entries /\ NoCall.st = "none" /\ ~NoCall.reinvite
    BY DEF NoCall, Entries
  <2>2. <<>> \in Seq(Messages) /\ <<>> \in Seq(Notices)
    OBVIOUS
  <2> QED BY <2>1, <2>2 DEF Init, Nothing
<1>4. /\ route \in [Calls -> Routes] /\ \A c \in Calls : route[c] = NoRoute
      /\ NoRoute.owner = "none" /\ NoRoute.rest = {} /\ ~NoRoute.start
  <2>1. NoRoute \in Routes /\ NoRoute.owner = "none" /\ NoRoute.rest = {} /\ ~NoRoute.start
    BY DEF NoRoute, Routes, Modes
  <2> QED BY <2>1 DEF Init
<1>5. /\ api \in [Calls -> Apis] /\ \A c \in Calls : api[c].st = "none"
      /\ pending \in [Calls -> Pendings] /\ \A c \in Calls : pending[c] = NoPending
      /\ NoPending.ticket = 0
  <2>1. NoRequest \in Apis /\ NoRequest.st = "none"
    BY DEF NoRequest, Apis, Modes
  <2>2. NoPending.ticket = 0
    BY DEF NoPending
  <2> QED BY <2>1, <2>2, NoPendingType DEF Init
<1>6. /\ asked \in [Calls -> SUBSET Commands] /\ \A c \in Calls : asked[c] = {}
      /\ heard \in [Calls -> {"nothing", "Incoming", "Answered", "over"}]
      /\ met \in [Calls -> SUBSET Modes] /\ stopped \in [Calls -> BOOLEAN]
      /\ dropped \in [Calls -> {"no", "stale", "refused", "lost"}]
      /\ \A c \in Calls : heard[c] = "nothing" /\ met[c] = {} /\ ~stopped[c]
      /\ tickets = 0 /\ tasks = {} /\ results = {} /\ used = {}
      /\ gate \in Modes /\ enabled = Legs /\ policies = 0 /\ lags = 0
  BY DEF Init
<1>7. TypeOK
  <2>1. 0 \in 0 .. MaxChanges /\ 0 \in 0 .. MaxLags
    BY VoiceAssumption
  <2> QED BY <2>1, <1>2, <1>3, <1>4, <1>5, <1>6 DEF TypeOK, Links, Entries, Messages, Notices,
                                                   Apis, Pendings
<1>8. SessionInv
  BY <1>2, <1>3 DEF SessionInv
<1>9. ASSUME NEW c \in Calls PROVE CallInv(c)
  <2>1. /\ \A op : ~Has(cmds, op, c) /\ Leads(cmds, op, c) /\ ~About(cmds, c)
        /\ \A l \in Legs : \A op : /\ ~Has(toLeg[l], op, c) /\ Leads(toLeg[l], op, c)
                                   /\ ~Has(evs[l], op, c) /\ Leads(evs[l], op, c)
        /\ TransferLast(cmds, c)
    <3>1. TransferLast(<<>>, c)
      BY DEF TransferLast
    <3> QED BY <3>1, <1>3, HasNone
  <2>2. Untouched(c) /\ ~Outgoing(c)
    BY <1>4, <1>5, <1>6 DEF Untouched, Outgoing
  <2>3. \A l \in Legs : Clean(l, c) /\ ~Arriving(l, c)
    BY <1>3, <1>5, HasNone DEF Clean, Arriving
  <2>4. \A l \in Legs : Dead(l, c)
    BY <2>3, CleanDead
  <2>5. Waits(c) /\ Unused(c) /\ Starts(c) /\ Requested(c) /\ Rings(c) /\ Ended(c)
    BY <1>4, <1>5, <1>6, <2>1, <2>2, <2>3 DEF Waits, Unused, Starts, Requested, Rings, Ended
  <2>6. OneWay(c)
    BY <1>3, <1>6, <2>1 DEF OneWay
  <2>7. HeldStart(c) /\ Planned(c) /\ StartsOnce(c)
    BY <1>3, <1>4, <1>5, <2>1 DEF HeldStart, Planned, StartsOnce
  <2>8. Given(c) /\ OnOneLeg(c) /\ Reached(c)
    BY <1>5, <2>1, <2>4 DEF Given, OnOneLeg, Reached, Legs
  <2>9. Ratchet(c)
    BY <1>4, <1>5, <1>6, <2>1 DEF Ratchet
  <2> QED BY <2>5, <2>6, <2>7, <2>8, <2>9 DEF CallInv
<1> QED BY <1>7, <1>8, <1>9 DEF VoiceInv

\* Whichever way an action is taken, the invariant is kept.
LEMMA TakeInv ==
  ASSUME VoiceInv, NEW act, Read(act), Take(act)
  PROVE  VoiceInv'
BY IgnoredInv, HeldInv, OverCapInv, NowInv DEF Take

\* A turn of the router keeps the invariant.
LEMMA RouterTurnInv ==
  ASSUME VoiceInv, RouterTurn
  PROVE  VoiceInv'
<1>1. CASE RouterTick
  BY <1>1, QuietInv
<1>2. CASE HandleCommand
  <2> DEFINE act == Command(Head(cmds).op, Head(cmds).call)
  <2>1. cmds # <<>> /\ Take(act) /\ cmds' = Tail(cmds) /\ evs' = evs
    BY <1>2 DEF HandleCommand
  <2>2. act = Command(Head(cmds).op, Head(cmds).call)
    OBVIOUS
  <2> HIDE DEF act
  <2>3. Read(act)
    BY <2>1, <2>2, CommandRead
  <2> QED BY <2>1, <2>3, TakeInv
<1>3. ASSUME NEW c \in Calls, HandleRequest(c) PROVE VoiceInv'
  <2> DEFINE act == Request(c)
  <2>1. api[c].st = "queued" /\ Take(act) /\ cmds' = cmds /\ evs' = evs
    BY <1>3 DEF HandleRequest
  <2>2. act = Request(c)
    OBVIOUS
  <2> HIDE DEF act
  <2>3. Read(act)
    BY <2>1, <2>2, RequestRead
  <2> QED BY <2>1, <2>3, TakeInv
<1>4. ASSUME NEW l \in Legs, HandleEvent(l) PROVE VoiceInv'
  <2> DEFINE act == Event(l, Head(evs[l]).op, Head(evs[l]).call)
  <2>1. evs[l] # <<>> /\ Take(act) /\ cmds' = cmds /\ evs' = [evs EXCEPT ![l] = Tail(@)]
    BY <1>4 DEF HandleEvent
  <2>2. act = Event(l, Head(evs[l]).op, Head(evs[l]).call)
    OBVIOUS
  <2> HIDE DEF act
  <2>3. Read(act)
    BY <2>1, <2>2, EventRead
  <2> QED BY <2>1, <2>3, TakeInv
<1>5. ASSUME NEW r \in results, HandleResult(r) PROVE VoiceInv'
  BY <1>5, ResultInv
<1> QED BY <1>1, <1>2, <1>3, <1>4, <1>5 DEF RouterTurn

\* A step of the trunk side keeps it.
LEMMA TrunkInv ==
  ASSUME VoiceInv, TrunkStep
  PROVE  VoiceInv'
<1>1. {0, gate} \subseteq Modes
  BY DEF VoiceInv, TypeOK, Modes
<1>2. PICK c \in Calls : \/ TrunkStart(c) \/ ApiTimeout(c)
                         \/ \E op \in Commands : TrunkAsk(c, op)
                         \/ \E mode \in {0, gate}, offers \in Offers : ApiStart(c, mode, offers)
  BY DEF TrunkStep
<1>3. CASE TrunkStart(c)
  BY <1>3, TrunkStartInv
<1>4. CASE ApiTimeout(c)
  BY <1>4, QuietInv
<1>5. ASSUME NEW op \in Commands, TrunkAsk(c, op) PROVE VoiceInv'
  BY <1>5, TrunkAskInv
<1>6. ASSUME NEW mode \in {0, gate}, NEW offers \in Offers, ApiStart(c, mode, offers)
      PROVE  VoiceInv'
  BY <1>1, <1>6, ApiStartInv
<1> QED BY <1>2, <1>3, <1>4, <1>5, <1>6

\* A step of a leg, a link or the network keeps it.
LEMMA LegInv ==
  ASSUME VoiceInv, LegStepAny
  PROVE  VoiceInv'
<1>1. PICK l \in Legs :
        \/ LegCommand(l) \/ LegLagged(l) \/ LinkUp(l) \/ LinkRevoked(l) \/ LinkClosed(l)
        \/ \E tell \in BOOLEAN : SessionEnds(l, tell)
        \/ \E c \in Calls :
             \/ NetFinal(l, c) \/ NetReinviteFinal(l, c) \/ NetEnd(l, c)
             \/ \E immediate \in BOOLEAN : NetIncoming(l, c, immediate)
  BY DEF LegStepAny
<1>2. CASE LegCommand(l) \/ LegLagged(l)
  BY <1>2, LegCommandInv, LegLaggedInv
<1>3. CASE LinkUp(l) \/ LinkRevoked(l)
  BY <1>3, QuietInv
<1>4. CASE LinkClosed(l)
  BY <1>4, LinkClosedInv
<1>5. ASSUME NEW tell \in BOOLEAN, SessionEnds(l, tell) PROVE VoiceInv'
  BY <1>5, SessionEndsInv
<1>6. ASSUME NEW c \in Calls, NetFinal(l, c) \/ NetReinviteFinal(l, c) \/ NetEnd(l, c)
      PROVE  VoiceInv'
  BY <1>6, NetFinalInv, NetReinviteFinalInv, NetEndInv
<1>7. ASSUME NEW c \in Calls, NEW immediate \in BOOLEAN, NetIncoming(l, c, immediate)
      PROVE  VoiceInv'
  BY <1>7, NetIncomingInv
<1> QED BY <1>1, <1>2, <1>3, <1>4, <1>5, <1>6, <1>7

\* Every step keeps it.
LEMMA VoiceStep ==
  ASSUME VoiceInv, [Next]_vars
  PROVE  VoiceInv'
<1>1. CASE RouterTurn
  BY <1>1, RouterTurnInv
<1>2. CASE RouterLagged
  BY <1>2, LagInv
<1>3. CASE TrunkStep
  BY <1>3, TrunkInv
<1>4. CASE LegStepAny
  BY <1>4, LegInv
<1>7. ASSUME NEW l \in Legs, EventsLagged(l) PROVE VoiceInv'
  BY <1>7, EventsLaggedInv
<1>5. CASE \/ \E t \in tasks : ObservationDone(t)
           \/ \E mode \in Modes : SetCostPolicy(mode)
           \/ \E layers \in Layers : SetVoicePolicy(layers)
  BY <1>5, QuietInv
<1>6. CASE UNCHANGED vars
  <2>1. UNCHANGED <<link, leg, toLeg, evs, cmds, asked, heard, api, used, route, pending, tasks,
                    results, tickets, gate, enabled, policies, met, stopped, dropped, lags>>
    BY <1>6 DEF vars, linkVars, trunkVars, admissionVars, policyVars, historyVars
  <2>2. TypeOK' /\ SessionInv'
    BY <2>1 DEF VoiceInv, TypeOK, SessionInv
  <2> QED BY <2>1, <2>2, QuietCalls
<1> QED BY <1>1, <1>2, <1>3, <1>4, <1>5, <1>6, <1>7 DEF Next

\* The invariant holds in every reachable state.
THEOREM VoiceInvariant == Spec => []VoiceInv
<1>1. Init => VoiceInv
  BY VoiceInit
<1>2. VoiceInv /\ [Next]_vars => VoiceInv'
  BY VoiceStep
<1> QED BY <1>1, <1>2, PTL DEF Spec

\* Every variable keeps its type, for any set of calls, offers and layers:
\* a route names a leg or none, and what waits is an action that may wait.
THEOREM VoiceTypeCorrect == Spec => []TypeOK
<1>1. VoiceInv => TypeOK
  BY DEF VoiceInv
<1> QED BY <1>1, VoiceInvariant, PTL

\* A call is never on both legs (access_router.rs, route_command and the
\* failover of route_event): the leg a call leaves is done with it, and the
\* legs left to try have never seen it.
THEOREM VoiceOneLeg == Spec => []OneLeg
<1>1. ASSUME VoiceInv PROVE OneLeg
  <2> SUFFICES ASSUME NEW c \in Calls, Holds("vowifi", c), Holds("cellular", c) PROVE FALSE
    BY DEF OneLeg
  <2>1. TypeOK /\ StartsOnce(c) /\ OnOneLeg(c) /\ {"vowifi", "cellular"} \subseteq Legs
    BY <1>1 DEF VoiceInv, CallInv, Legs
  <2> QED BY <2>1, HoldsFacts DEF OnOneLeg
<1>2. VoiceInv => OneLeg
  BY <1>1
<1> QED BY <1>2, VoiceInvariant, PTL

\* A call that a leg holds can be reached through the router, unless its link
\* was lost since it was routed, a re-INVITE of it was refused, or a lagging
\* receiver skipped the command that ends it (vowifi/operator.rs,
\* cellular_ims/live.rs) or its Incoming (the forwarder of access_router.rs).
THEOREM VoiceNoOrphan == Spec => []NoOrphan
<1>1. ASSUME VoiceInv PROVE NoOrphan
  <2> SUFFICES ASSUME NEW l \in Legs, NEW c \in Calls, Holds(l, c), dropped[c] = "no"
               PROVE  Known(l, c)
    BY <1>1 DEF NoOrphan
  <2>1. TypeOK /\ StartsOnce(c) /\ Reached(c)
    BY <1>1 DEF VoiceInv, CallInv
  <2>2. ~Dead(l, c) /\ ~Has(toLeg[l], "Stop", c)
    BY <2>1, HoldsFacts
  <2>3. Owner(c) = l \/ Has(evs[l], "Incoming", c)
    BY <2>1, <2>2 DEF Reached
  <2>4. DOMAIN evs[l] = 1 .. Len(evs[l])
    <3>1. evs[l] \in Seq(Notices)
      BY <2>1 DEF TypeOK, Notices
    <3> QED BY <3>1, LenProperties
  <2> QED BY <2>3, <2>4 DEF Known, Has
<1>2. VoiceInv => NoOrphan
  BY <1>1
<1> QED BY <1>2, VoiceInvariant, PTL

-----------------------------------------------------------------------------
(* What is sent to a leg.                                                  *)

\* What is sent is among the messages put behind the queue.
LEMMA SendsFacts ==
  ASSUME NEW l, NEW c, NEW ops, NEW q \in Seq(Messages), NEW r \in Seq(Messages),
         toLeg[l] = q, toLeg'[l] = q \o r, Sends(l, c, ops)
  PROVE  \E op \in ops : Has(r, op, c)
<1> DEFINE s == q \o r
<1>1. /\ Len(s) = Len(q) + Len(r) /\ Len(q) \in Nat /\ Len(r) \in Nat
      /\ \A i \in 1 .. Len(q) + Len(r) : s[i] = IF i <= Len(q) THEN q[i] ELSE r[i - Len(q)]
  BY ConcatProperties, LenProperties
<1>2. PICK i \in Len(q) + 1 .. Len(s) : s[i].call = c /\ s[i].op \in ops
  BY DEF Sends
<1> HIDE DEF s
<1>3. i - Len(q) \in 1 .. Len(r) /\ s[i] = r[i - Len(q)]
  BY <1>1
<1> QED BY <1>2, <1>3 DEF Has

\* A queue that only lost commands.
LEMMA NotSends ==
  ASSUME NEW l, NEW q \in Seq(Messages), toLeg[l] = q,
         toLeg'[l] = q \/ toLeg'[l] = <<>> \/ (q # <<>> /\ toLeg'[l] = Tail(q))
  PROVE  \A c, ops : ~Sends(l, c, ops)
<1>1. Len(q) \in Nat
  BY LenProperties
<1>2. Len(toLeg'[l]) <= Len(q)
  <2>1. CASE toLeg'[l] = q
    BY <2>1, <1>1
  <2>2. CASE toLeg'[l] = <<>>
    BY <2>2, <1>1
  <2>3. CASE q # <<>> /\ toLeg'[l] = Tail(q)
    <3>1. Len(Tail(q)) = Len(q) - 1
      BY <2>3, HeadTailProperties
    <3> QED BY <3>1, <2>3, <1>1
  <2> QED BY <2>1, <2>2, <2>3
<1>3. Len(toLeg'[l]) \in Nat
  <2>1. <<>> \in Seq(Messages) /\ (q # <<>> => Tail(q) \in Seq(Messages))
    BY HeadTailProperties
  <2>2. toLeg'[l] \in Seq(Messages)
    BY <2>1
  <2> QED BY <2>2, LenProperties
<1> QED BY <1>1, <1>2, <1>3 DEF Sends

\* What a turn sends is in its outcome, for the call it is about.
LEMMA ApplySends ==
  ASSUME TypeOK, NEW act, NEW out, act.call \in Calls, Fits(out.to, act.call), Apply(act, out),
         NEW l \in Legs, NEW c, NEW ops, Sends(l, c, ops)
  PROVE  c = act.call /\ \E op \in ops : Has(out.to[l], op, c)
<1> DEFINE q == toLeg[l]
           r == out.to[l]
<1>1. q \in Seq(Messages) /\ r \in Seq(Messages) /\ toLeg[l] = q /\ toLeg'[l] = q \o r
  BY DEF TypeOK, Messages, Fits, Apply
<1> HIDE DEF q, r
<1>2. PICK op \in ops : Has(r, op, c)
  BY <1>1, SendsFacts
<1>3. About(out.to[l], c)
  BY <1>2, HasAbout DEF r
<1> QED BY <1>2, <1>3 DEF Fits, r

\* The legs hear nothing, or one of them that it must stop.
Cheap(to, c) == to = Nothing \/ \E l \in Legs : to = Only(l, "Stop", c)

\* An outcome that only stops calls sends nothing costly.
LEMMA CheapSends ==
  ASSUME TypeOK, NEW act, NEW out, act.call \in Calls, Cheap(out.to, act.call), Apply(act, out)
  PROVE  \A l \in Legs : \A c : ~Sends(l, c, Costly)
<1> DEFINE d == act.call
           to == out.to
<1>1. Costly \subseteq Commands /\ "Stop" \in Commands \ Costly
  BY DEF Costly, Commands
<1>2. Fits(to, d) /\ \A l \in Legs, op \in Costly : ~Has(to[l], op, d)
  <2>1. CASE to = Nothing
    BY <2>1, NothingFacts
  <2>2. ASSUME NEW k \in Legs, to = Only(k, "Stop", d)
        PROVE  Fits(to, d) /\ \A l \in Legs, op \in Costly : ~Has(to[l], op, d)
    <3>1. /\ Fits(to, d)
          /\ \A l \in Legs, op \in Commands : Has(to[l], op, d) => l = k /\ op = "Stop"
      BY <2>2, <1>1, OnlyOut
    <3> QED BY <3>1, <1>1
  <2> QED BY <2>1, <2>2 DEF Cheap
<1> QED BY <1>2, ApplySends

\* An action that is not carried out sends a stop at most.
LEMMA IgnoredCheap ==
  ASSUME TypeOK, NEW act, Ready(act), NEW out, out = IgnoredOutcome(act)
  PROVE  Cheap(out.to, act.call)
<1>1. Foreign(act) => act.leg \in Legs
  BY DEF Foreign, Ready, Event, Command, Request
<1>2. \/ Foreign(act) /\ out = Outcome(route[act.call], Only(act.leg, "Stop", act.call), {})
      \/ out = Outcome(NoRoute, Nothing, {"Unavailable"})
      \/ out = Outcome(route[act.call], Nothing, {})
  BY DEF IgnoredOutcome, Stays
<1> QED BY <1>1, <1>2, OutcomeParts DEF Cheap

\* So does one that is rejected.
LEMMA RejectCheap ==
  ASSUME TypeOK, NEW act, Ready(act), Waits(act.call), Planned(act.call),
         NEW out, out = RejectCostChecked(act)
  PROVE  Cheap(out.to, act.call)
<1> DEFINE c == act.call
<1>1. /\ act.kind = "event" => act.leg \in Legs
      /\ route[c] # NoRoute => route[c].owner \in Legs
  <2>1. c \in Calls
    BY DEF Ready
  <2>2. act.kind = "event" => act.leg \in Legs
    BY DEF Ready, Event, Command, Request
  <2> QED BY <2>1, <2>2, RouteFacts
<1>2. \/ out = Outcome(route[c], Nothing, {})
      \/ act.kind = "event" /\ out = Outcome(route[c], Only(act.leg, "Stop", c), {})
      \/ out = Outcome(route[c], Nothing, Refusal(act.op))
      \/ out = Outcome(NoRoute, Nothing, {"Unavailable"})
      \/ route[c] # NoRoute /\ out = Outcome(NoRoute, Only(route[c].owner, "Stop", c), {"Unavailable"})
  BY DEF RejectCostChecked, Stays
<1> QED BY <1>1, <1>2, OutcomeParts DEF Cheap

\* The step has leave to spend money on the call.
Paid(c) ==
  LET modes == met'[c] \cup {gate}
  IN  /\ 1 \notin modes
      /\ 2 \in modes => /\ pending[c] # NoPending
                        /\ [call |-> c, ticket |-> pending[c].ticket, home |-> TRUE] \in results

\* What is dispatched at once has leave for what it costs.
LEMMA NowSends ==
  ASSUME VoiceInv, NEW act, Read(act), TakeNow(act), NEW l \in Legs, NEW c \in Calls,
         Sends(l, c, Costly)
  PROVE  ~stopped[c] /\ (l = "cellular" => Paid(c))
<1> DEFINE d == act.call
           mode == InitialMode(act)
<1>0. /\ TypeOK /\ SessionInv /\ d \in Calls /\ CallInv(d) /\ Ready(act)
      /\ Waits(d) /\ Planned(d)
  BY DEF VoiceInv, Read, Ready, CallInv
<1>1. PICK admitted \in Admitted(act), vanishes \in Vanishes(act) :
        Apply(act, Dispatch(act, mode, mode # 0, admitted, vanishes))
  BY DEF TakeNow
<1>2. /\ Ordinary(act)
      /\ met' = IF NeedsAdmission(act) THEN [met EXCEPT ![d] = @ \cup {mode}] ELSE met
  BY DEF TakeNow
<1> DEFINE out == Dispatch(act, mode, mode # 0, admitted, vanishes)
<1>3. Apply(act, out)
  BY <1>1
<1>4. /\ mode \in Modes /\ (mode = 0 => gate = 0)
      /\ act.kind # "request" /\ mode = 0 => route[d].mode = 0
  BY <1>0, InitialFacts
<1>5. vanishes => act.kind = "request"
  BY DEF Vanishes
<1> HIDE DEF out, mode
<1>6. Carried(act, out, mode # 0)
  BY <1>0, <1>4, <1>5, DispatchCarried DEF out
<1>7. /\ Fits(out.to, d) /\ Priced(act, out, mode # 0)
      /\ \A k \in Legs, op \in Costly : Has(out.to[k], op, d) => route[d] # NoRoute \/ Opens(act)
  BY <1>6 DEF Carried, Sound
<1>8. c = d /\ \E op \in Costly : Has(out.to[l], op, d)
  BY <1>0, <1>3, <1>7, ApplySends
<1>9. PICK op \in Costly : Has(out.to[l], op, d)
  BY <1>8
<1>10. ~stopped[d]
  BY <1>0, <1>7, <1>9 DEF CallInv, Ended, Read, Untouched
<1>11. ASSUME l = "cellular" PROVE Paid(d)
  <2>1. /\ mode = 0 /\ NeedsAdmission(act)
        /\ op = "Start" => Opens(act) \/ route[d].start
        /\ op # "Start" => act = Command(op, d)
    BY <1>7, <1>9, <1>11 DEF Priced
  <2>2. met'[d] = met[d] \cup {0} /\ gate = 0
    BY <2>1, <1>0, <1>2, <1>4 DEF TypeOK
  <2>3. 1 \notin met[d] /\ 2 \notin met[d]
    <3>1. CASE Opens(act)
      BY <3>1 DEF Read, Untouched
    <3>2. CASE ~Opens(act)
      <4>1. route[d] # NoRoute /\ act.kind # "request"
        BY <3>2, <1>7, <1>9 DEF Opens
      <4>2. pending[d] = NoPending /\ route[d].mode = 0
        BY <4>1, <2>1, <1>2, <1>4 DEF Ordinary
      <4>3. 1 \notin met[d] /\ (2 \in met[d] => Spent(d))
        BY <4>1, <4>2, <1>0 DEF CallInv, Ratchet
      <4>4. CASE op = "Start"
        <5>1. asked[d] \subseteq {"Start", "Stop"}
          BY <4>4, <3>2, <2>1, <1>0 DEF Planned
        <5> QED BY <5>1, <4>3 DEF Spent
      <4>5. CASE op # "Start"
        <5>1. op \in {"Accept", "Transfer"} /\ Has(cmds, op, d)
          BY <4>5, <2>1 DEF Read, Costly, Commands
        <5> QED BY <5>1, <4>3 DEF Spent
      <4> QED BY <4>4, <4>5
    <3> QED BY <3>1, <3>2
  <2> QED BY <2>2, <2>3 DEF Paid
<1> QED BY <1>8, <1>10, <1>11

\* So has whatever a turn sends for the action it read.
LEMMA TakeSends ==
  ASSUME VoiceInv, NEW act, Read(act), Take(act), NEW l \in Legs, NEW c \in Calls,
         Sends(l, c, Costly)
  PROVE  ~stopped[c] /\ (l = "cellular" => Paid(c))
<1> DEFINE d == act.call
<1>0. TypeOK /\ d \in Calls /\ Ready(act) /\ Waits(d) /\ Planned(d)
  BY DEF VoiceInv, Read, Ready, CallInv
<1>1. ASSUME TakeIgnored(act) PROVE FALSE
  <2> DEFINE out == IgnoredOutcome(act)
  <2>1. Apply(act, out)
    BY <1>1 DEF TakeIgnored
  <2>2. Cheap(out.to, d)
    BY <1>0, IgnoredCheap
  <2> HIDE DEF out
  <2> QED BY <2>1, <2>2, <1>0, CheapSends
<1>2. ASSUME TakeHeld(act) PROVE FALSE
  <2> DEFINE out == Stays(d)
  <2>1. Apply(act, out)
    BY <1>2 DEF TakeHeld
  <2>2. Cheap(out.to, d)
    BY StaysFacts DEF Cheap
  <2> HIDE DEF out
  <2> QED BY <2>1, <2>2, <1>0, CheapSends
<1>3. ASSUME TakeOverCap(act) PROVE FALSE
  <2> DEFINE out == RejectCostChecked(act)
  <2>1. Apply(act, out)
    BY <1>3 DEF TakeOverCap
  <2>2. Cheap(out.to, d)
    BY <1>0, RejectCheap
  <2> HIDE DEF out
  <2> QED BY <2>1, <2>2, <1>0, CheapSends
<1>4. CASE TakeNow(act)
  BY <1>4, NowSends
<1> QED BY <1>1, <1>2, <1>3, <1>4 DEF Take

\* So has what is sent when an observation is joined.
LEMMA ResultSends ==
  ASSUME VoiceInv, NEW r \in results, HandleResult(r), NEW l \in Legs, NEW c \in Calls,
         Sends(l, c, Costly)
  PROVE  ~stopped[c] /\ (l = "cellular" => Paid(c))
<1> DEFINE d == r.call
           item == pending[d]
           act == item.act
           mode == Combined(item.initial, gate)
<1>0. /\ TypeOK /\ d \in Calls /\ CallInv(d)
      /\ r \in [call : Calls, ticket : Nat, home : BOOLEAN]
  BY DEF VoiceInv, TypeOK
<1>1. met' = met /\ stopped' = stopped
  BY DEF HandleResult
<1>2. CASE item # NoPending /\ item.ticket = r.ticket
  <2>1. PICK fresh \in BOOLEAN, admitted \in Admitted(act), vanishes \in Vanishes(act) :
          LET only == mode = 1 \/ (mode = 2 /\ ~(r.home /\ fresh))
              out == IF act.kind = "request" /\ api[d].st = "gone" THEN Stays(d)
                     ELSE Dispatch(act, mode, only, admitted, vanishes)
          IN  Apply(act, out)
    BY <1>2 DEF HandleResult
  <2> DEFINE only == mode = 1 \/ (mode = 2 /\ ~(r.home /\ fresh))
             out == IF act.kind = "request" /\ api[d].st = "gone" THEN Stays(d)
                    ELSE Dispatch(act, mode, only, admitted, vanishes)
  <2>2. Apply(act, out)
    BY <2>1
  <2>3. (~only => mode # 1 /\ (mode = 2 => r.home))
    OBVIOUS
  <2> HIDE DEF only
  <2>4. Sound(act, out) /\ Priced(act, out, only)
    BY <1>0, <1>2, ResultOut
  <2>5. act.call = d /\ ~stopped[d] /\ 1 \notin met[d]
    BY <1>0, <1>2, PendingReady
  <2>6. mode = 1 \/ (mode = 2 /\ gate # 1)
    <3>1. item.initial = 2 /\ 2 \in Modes /\ gate \in Modes
      BY <1>0, <1>2 DEF CallInv, Waits, Modes, TypeOK
    <3> QED BY <3>1, CombinedFacts DEF Modes
  <2>7. /\ item # NoPending
        /\ r.home => r = [call |-> d, ticket |-> item.ticket, home |-> TRUE]
    BY <1>0, <1>2
  <2>8. item = pending[d]
    OBVIOUS
  <2> HIDE DEF out, act, d, item, mode
  <2>9. Fits(out.to, d)
    BY <2>4, <2>5 DEF Sound
  <2>10. c = d /\ \E op \in Costly : Has(out.to[l], op, d)
    BY <2>2, <2>5, <2>9, <1>0, ApplySends
  <2>11. ASSUME l = "cellular" PROVE Paid(d)
    <3>1. ~only
      BY <2>4, <2>5, <2>10, <2>11 DEF Priced
    <3>2. mode = 2 /\ gate # 1 /\ r.home
      BY <3>1, <2>3, <2>6
    <3> QED BY <3>2, <2>5, <2>7, <2>8, <1>1 DEF Paid
  <2> QED BY <2>5, <2>10, <2>11
<1>3. CASE ~(item # NoPending /\ item.ticket = r.ticket)
  <2>1. toLeg' = toLeg
    BY <1>3 DEF HandleResult
  <2>2. toLeg[l] \in Seq(Messages)
    BY <1>0 DEF TypeOK, Messages
  <2> QED BY <2>1, <2>2, NotSends
<1> QED BY <1>2, <1>3

\* An overrun sends only stops.
LEMMA LagSends ==
  ASSUME VoiceInv, RouterLagged, NEW l \in Legs, NEW c
  PROVE  ~Sends(l, c, Costly)
<1> DEFINE T == {d \in Calls : LagOutcome(d).to[l] # <<>>}
           q == toLeg[l]
           e == Each(T, "Stop")
<1>1. q \in Seq(Messages) /\ T \in SUBSET Calls /\ "Stop" \in Commands \ Costly
      /\ toLeg[l] = q /\ toLeg'[l] = q \o e
  BY DEF VoiceInv, TypeOK, Messages, Commands, Costly, RouterLagged
<1> HIDE DEF q, T
<1>2. e \in Seq(Messages) /\ \A op, d : Has(e, op, d) <=> op = "Stop" /\ d \in T
  BY <1>1, EachFacts DEF Messages
<1> HIDE DEF e
<1> QED BY <1>1, <1>2, SendsFacts

\* The other steps send nothing.
LEMMA QuietSends ==
  ASSUME VoiceInv, NEW l \in Legs, NEW c,
         \/ RouterTick \/ TrunkStep \/ LegStepAny \/ (\E k \in Legs : EventsLagged(k))
         \/ (\E t \in tasks : ObservationDone(t))
         \/ (\E mode \in Modes : SetCostPolicy(mode))
         \/ (\E layers \in Layers : SetVoicePolicy(layers))
         \/ UNCHANGED vars
  PROVE  ~Sends(l, c, Costly)
<1>0. toLeg \in [Legs -> Seq(Messages)]
  BY DEF VoiceInv, TypeOK, Messages
<1>1. CASE \/ RouterTick \/ (\E k \in Legs : EventsLagged(k))
           \/ (\E t \in tasks : ObservationDone(t))
           \/ (\E mode \in Modes : SetCostPolicy(mode))
           \/ (\E layers \in Layers : SetVoicePolicy(layers))
           \/ UNCHANGED vars
  <2>1. toLeg' = toLeg
    BY <1>1 DEF RouterTick, EventsLagged, ObservationDone, SetCostPolicy, SetVoicePolicy, SetPolicy, vars, linkVars
  <2> QED BY <2>1, <1>0, NotSends
<1>2. CASE TrunkStep
  <2>1. toLeg' = toLeg
    BY <1>2 DEF TrunkStep, TrunkStart, TrunkAsk, Ask, ApiTimeout, ApiStart, linkVars
  <2> QED BY <2>1, <1>0, NotSends
<1>3. CASE LegStepAny
  <2>1. ASSUME NEW k \in Legs, LegCommand(k) \/ LegLagged(k) PROVE ~Sends(l, c, Costly)
    <3>1. toLeg[k] # <<>> /\ toLeg' = [toLeg EXCEPT ![k] = Tail(toLeg[k])]
      BY <2>1 DEF LegCommand, LegLagged
    <3>2. toLeg'[l] = toLeg[l] \/ (toLeg[l] # <<>> /\ toLeg'[l] = Tail(toLeg[l]))
      BY <3>1, <1>0
    <3> QED BY <3>2, <1>0, NotSends
  <2>2. ASSUME NEW k \in Legs, LinkClosed(k) PROVE ~Sends(l, c, Costly)
    <3>1. toLeg'[l] = toLeg[l] \/ toLeg'[l] = <<>>
      BY <2>2, <1>0 DEF LinkClosed
    <3> QED BY <3>1, <1>0, NotSends
  <2>3. ASSUME NEW k \in Legs,
               \/ LinkUp(k) \/ LinkRevoked(k)
               \/ \E tell \in BOOLEAN : SessionEnds(k, tell)
               \/ \E d \in Calls :
                    \/ NetFinal(k, d) \/ NetReinviteFinal(k, d) \/ NetEnd(k, d)
                    \/ \E immediate \in BOOLEAN : NetIncoming(k, d, immediate)
        PROVE  ~Sends(l, c, Costly)
    <3>1. toLeg' = toLeg
      BY <2>3 DEF LinkUp, LinkRevoked, SessionEnds, NetFinal, NetReinviteFinal, NetEnd, NetIncoming
    <3> QED BY <3>1, <1>0, NotSends
  <2> QED BY <2>1, <2>2, <2>3, <1>3 DEF LegStepAny
<1> QED BY <1>1, <1>2, <1>3

\* Whatever costs money is sent with leave, for a call that was not stopped.
LEMMA CostlySends ==
  ASSUME VoiceInv, [Next]_vars, NEW l \in Legs, NEW c \in Calls, Sends(l, c, Costly)
  PROVE  ~stopped[c] /\ (l = "cellular" => Paid(c))
<1>1. CASE HandleCommand
  <2> DEFINE act == Command(Head(cmds).op, Head(cmds).call)
  <2>1. cmds # <<>> /\ Take(act) /\ cmds' = Tail(cmds) /\ evs' = evs
    BY <1>1 DEF HandleCommand
  <2>2. act = Command(Head(cmds).op, Head(cmds).call)
    OBVIOUS
  <2> HIDE DEF act
  <2>3. Read(act)
    BY <2>1, <2>2, CommandRead
  <2> QED BY <2>1, <2>3, TakeSends
<1>2. ASSUME NEW d \in Calls, HandleRequest(d)
      PROVE  ~stopped[c] /\ (l = "cellular" => Paid(c))
  <2> DEFINE act == Request(d)
  <2>1. api[d].st = "queued" /\ Take(act) /\ cmds' = cmds /\ evs' = evs
    BY <1>2 DEF HandleRequest
  <2>2. act = Request(d)
    OBVIOUS
  <2> HIDE DEF act
  <2>3. Read(act)
    BY <2>1, <2>2, RequestRead
  <2> QED BY <2>1, <2>3, TakeSends
<1>3. ASSUME NEW k \in Legs, HandleEvent(k)
      PROVE  ~stopped[c] /\ (l = "cellular" => Paid(c))
  <2> DEFINE act == Event(k, Head(evs[k]).op, Head(evs[k]).call)
  <2>1. evs[k] # <<>> /\ Take(act) /\ cmds' = cmds /\ evs' = [evs EXCEPT ![k] = Tail(@)]
    BY <1>3 DEF HandleEvent
  <2>2. act = Event(k, Head(evs[k]).op, Head(evs[k]).call)
    OBVIOUS
  <2> HIDE DEF act
  <2>3. Read(act)
    BY <2>1, <2>2, EventRead
  <2> QED BY <2>1, <2>3, TakeSends
<1>4. ASSUME NEW r \in results, HandleResult(r)
      PROVE  ~stopped[c] /\ (l = "cellular" => Paid(c))
  BY <1>4, ResultSends
<1>5. CASE RouterLagged
  BY <1>5, LagSends
<1>6. CASE \/ RouterTick \/ TrunkStep \/ LegStepAny \/ (\E k \in Legs : EventsLagged(k))
           \/ (\E t \in tasks : ObservationDone(t))
           \/ (\E mode \in Modes : SetCostPolicy(mode))
           \/ (\E layers \in Layers : SetVoicePolicy(layers))
           \/ UNCHANGED vars
  BY <1>6, QuietSends
<1> QED BY <1>1, <1>2, <1>3, <1>4, <1>5, <1>6 DEF Next, RouterTurn

\* A call that was once admitted in the VoWiFi-only mode costs nothing on
\* cellular ever after, and one that met the conditional mode only by an
\* observation of home made for the very admission that is carried out
\* (access_router.rs, dispatch_cost_checked; VoiceCostGate::combined_mode).
THEOREM VoiceCostRatchet == Spec => CostRatchet
<1>1. ASSUME VoiceInv, [Next]_vars, NEW c \in Calls, Sends("cellular", c, Costly)
      PROVE  Paid(c)
  BY <1>1, CostlySends DEF Legs
<1>2. VoiceInv /\ [Next]_vars =>
        [\A c \in Calls :
           Sends("cellular", c, Costly) =>
             LET modes == met'[c] \cup {gate}
             IN  /\ 1 \notin modes
                 /\ 2 \in modes => /\ pending[c] # NoPending
                                   /\ [call |-> c, ticket |-> pending[c].ticket,
                                       home |-> TRUE] \in results]_vars
  BY <1>1 DEF Paid
<1> QED BY <1>2, VoiceInvariant, PTL DEF Spec, CostRatchet

\* After a stop neither a late observation nor a failover places, answers or
\* transfers the call (access_router.rs, the abort of a pending admission).
THEOREM VoiceCancelWins == Spec => CancelWins
<1>1. VoiceInv /\ [Next]_vars =>
        [\A l \in Legs, c \in Calls : stopped[c] => ~Sends(l, c, Costly)]_vars
  BY CostlySends
<1> QED BY <1>1, VoiceInvariant, PTL DEF Spec, CancelWins

=============================================================================
