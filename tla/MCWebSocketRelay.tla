--------------------------- MODULE MCWebSocketRelay ----------------------------
(* Small instances of WebSocketRelay. *)
EXTENDS WebSocketRelay, TLC

MCSessionDevice == [s \in Sessions |-> CHOOSE d \in Devices : TRUE]
MCSymmetry == Permutations(Instances)
===============================================================================
