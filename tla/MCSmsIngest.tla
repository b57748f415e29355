----------------------------- MODULE MCSmsIngest -----------------------------
(* Instances of SmsIngest: two messages with one text, or one each.          *)
EXTENDS SmsIngest, TLC

SameText == [m \in Messages |-> "text"]
OwnText == [m \in Messages |-> m]
=============================================================================
