-------------------------- MODULE MCNativeSmsInbox --------------------------
(* Instances of NativeSmsInbox: a message that comes in two encodings, one in *)
(* two parts and one for another card.                                        *)
EXTENDS NativeSmsInbox

MCMessageOf == [p \in Pdus |-> CASE p \in {"a", "b"} -> "x"
                                 [] p \in {"c", "d"} -> "y"
                                 [] OTHER -> "z"]
MCPartOf == [p \in Pdus |-> IF p = "d" THEN 2 ELSE 1]
MCTotalOf == [m \in Messages |-> IF m = "y" THEN 2 ELSE 1]
MCCardOf == [p \in Pdus |-> IF p = "e" THEN "card2" ELSE "card1"]
=============================================================================
