--------------------------- MODULE MCMtReassembly ---------------------------
(* Two senders with one reference, and one of them using it again next day.   *)
EXTENDS MtReassembly

MCMessages == {"a1", "b1", "a2"}
MCFrom == [a1 |-> "a", b1 |-> "b", a2 |-> "a"]
MCRef == [a1 |-> 7, b1 |-> 7, a2 |-> 7]
MCTotal == [a1 |-> 2, b1 |-> 2, a2 |-> 2]
MCDay == [a1 |-> 0, b1 |-> 0, a2 |-> 1]
=============================================================================
