----------------------------- MODULE SmsMailbox -----------------------------
(***************************************************************************)
(* What the native reception of SMS promises.  "Commit precedes transport  *)
(* ACK/deletion" (native_sms_inbox.rs:1): the network or the card is only  *)
(* relieved of a PDU that is durable, and a message is shown once, made of *)
(* durable PDUs.                                                           *)
(***************************************************************************)
EXTENDS Naturals

CONSTANTS Pdus, Messages, MessageOf, PartOf, TotalOf

VARIABLES
  durable,   \* PDUs the inbox holds or held
  released,  \* PDUs nobody else keeps any more
  shown      \* how often each message was shown

vars == <<durable, released, shown>>

Init ==
  /\ durable = {}
  /\ released = {}
  /\ shown = [m \in Messages |-> 0]

\* The PDUs make up the message.
Whole(m, S) ==
  \A n \in 1 .. TotalOf[m] : \E p \in S : MessageOf[p] = m /\ PartOf[p] = n

Keep(p) ==
  /\ durable' = durable \cup {p}
  /\ UNCHANGED <<released, shown>>

Release(p) ==
  /\ p \in durable
  /\ released' = released \cup {p}
  /\ UNCHANGED <<durable, shown>>

Show(m) ==
  /\ shown[m] = 0
  /\ Whole(m, durable)
  /\ shown' = [shown EXCEPT ![m] = 1]
  /\ UNCHANGED <<durable, released>>

Next ==
  \/ \E p \in Pdus : Keep(p) \/ Release(p)
  \/ \E m \in Messages : Show(m)

Spec == Init /\ [][Next]_vars
=============================================================================
