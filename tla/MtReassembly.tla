---------------------------- MODULE MtReassembly ----------------------------
(***************************************************************************)
(* The two reassemblers of concatenated incoming messages: MtReassembler   *)
(* of the cellular IMS session (cellular_ims/sms.rs) and the multipart map *)
(* of the VoWiFi listener (handlers.rs).  Both keep their parts in memory  *)
(* and differ in the key of a group and in what makes one go away.         *)
(*                                                                         *)
(* The network retransmits parts and delivers them in any order.  A sender *)
(* uses a reference again only after a day, the VoWiFi map's retention.    *)
(***************************************************************************)
EXTENDS Naturals, FiniteSets

CONSTANTS
  Messages,
  From,     \* originator of each message
  Ref,      \* its concatenation reference
  Total,    \* its number of parts
  Day,      \* the day it is sent
  Leg,      \* "vowifi" or "cellular"
  MaxCopies \* bound on the times one part is delivered

ASSUME ReassemblyAssumption ==
  /\ Total \in [Messages -> Nat \ {0}]
  /\ Day \in [Messages -> Nat]
  /\ Leg \in {"vowifi", "cellular"}
  /\ MaxCopies \in Nat
  /\ \A m, n \in Messages :
       m # n /\ From[m] = From[n] /\ Ref[m] = Ref[n] => Day[m] # Day[n]

VARIABLES
  groups,     \* the parts kept: for each key, a function from sequence numbers
  since,      \* the day each group began
  today,
  assembled,  \* history: what was passed on, as functions from 1 .. total
  got,        \* history: parts received since the process started
  copies      \* history: times each part was delivered

vars == <<groups, since, today, assembled, got, copies>>

Parts(m) == 1 .. Total[m]

\* Mutant: the reference alone, as the cellular leg has it.
Key_Reference(m) == Ref[m]

\* vowifi_mt_delivery_group_key, and the reference alone for the cellular leg.
Key(m) == IF Leg = "vowifi" THEN <<From[m], Ref[m], Total[m]>> ELSE Ref[m]

Keys == {Key(m) : m \in Messages}
NoParts == [s \in {} |-> {}]

Init ==
  /\ groups = [k \in Keys |-> NoParts]
  /\ since = [k \in Keys |-> 0]
  /\ today = 0
  /\ assembled = {}
  /\ got = [m \in Messages |-> {}]
  /\ copies = [m \in Messages |-> [s \in Parts(m) |-> 0]]

-----------------------------------------------------------------------------
\* The VoWiFi map forgets a group a day after its first part, whenever another
\* part comes in; the cellular one keeps it.
Retained(k) ==
  IF Leg = "vowifi" /\ since[k] < today THEN NoParts ELSE groups[k]

\* A part replaces the one with its sequence number.
WithPart(g, s, m) == [i \in DOMAIN g \cup {s} |-> IF i = s THEN m ELSE g[i]]

\* Mutant: sequence numbers are taken to start at zero.
IsComplete_FromZero(g, m) == 0 .. Total[m] - 1 \subseteq DOMAIN g

\* The cellular leg counts the parts against the last total it saw.
IsComplete(g, m) ==
  IF Leg = "vowifi" THEN Parts(m) \subseteq DOMAIN g
  ELSE Cardinality(DOMAIN g) >= Total[m]

Ingest(m, s) ==
  LET g == WithPart(Retained(Key(m)), s, m)
      rest == [k \in Keys |-> Retained(k)]
  IN
  /\ Day[m] = today
  /\ copies[m][s] < MaxCopies
  /\ copies' = [copies EXCEPT ![m][s] = @ + 1]
  /\ got' = [got EXCEPT ![m] = @ \cup {s}]
  /\ \/ /\ IsComplete(g, m)
        /\ assembled' = assembled \cup {g}
        /\ groups' = [rest EXCEPT ![Key(m)] = NoParts]
     \/ /\ ~IsComplete(g, m)
        /\ groups' = [rest EXCEPT ![Key(m)] = g]
        /\ UNCHANGED assembled
  /\ since' = [since EXCEPT ![Key(m)] = IF Retained(Key(m)) = NoParts
                                        THEN today ELSE @]
  /\ UNCHANGED today

NextDay ==
  /\ \E m \in Messages : Day[m] > today
  /\ today' = today + 1
  /\ UNCHANGED <<groups, since, assembled, got, copies>>

\* A restart, or the end of the session that owns the reassembler.
Restart ==
  /\ groups' = [k \in Keys |-> NoParts]
  /\ got' = [m \in Messages |-> {}]
  /\ UNCHANGED <<since, today, assembled, copies>>

Next ==
  \/ \E m \in Messages : \E s \in Parts(m) : Ingest(m, s)
  \/ NextDay
  \/ Restart

Spec == Init /\ [][Next]_vars

-----------------------------------------------------------------------------
\* What is passed on is one message, whole and in order, although several
\* senders use a reference at a time and a part retransmitted after its message
\* was passed on starts a group of its own; a group is the "state for one
\* in-flight concatenated (multipart) SMS" (cellular_ims/sms.rs:53).
WholeMessages ==
  \A a \in assembled : \E m \in Messages : a = [s \in Parts(m) |-> m]

\* A message all of whose parts came in while the process ran is passed on,
\* whatever other messages' parts came in between (handlers.rs:4450).
NothingHeldBack ==
  \A m \in Messages :
    got[m] = Parts(m) => [s \in Parts(m) |-> m] \in assembled
=============================================================================
