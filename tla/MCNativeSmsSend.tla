--------------------------- MODULE MCNativeSmsSend ---------------------------
(* Instances of NativeSmsSend: a message in two parts and others in one.        *)
EXTENDS NativeSmsSend

MCTotal == [m \in Sends |-> IF m = "long" THEN 2 ELSE 1]
=============================================================================
