------------------------------ MODULE MCScreens ------------------------------
(* Two screens, a channel with a link of each kind, a dynamic channel, and a
   browser that has no player for .ts links. *)
EXTENDS Screens, TLC

CONSTANTS x, y, tv, dyn

MCKindOf == [ch \in Channel |-> IF ch = tv THEN <<"dash", "ts", "hls">> ELSE <<"hls">>]
MCRecoveries == [e \in Errors |-> IF e = "network" THEN 1 ELSE 0]
=============================================================================
