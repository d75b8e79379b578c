------------------------------ MODULE MCXtream ------------------------------
(* Values for the constants of XtreamPlaylists: one panel, which lists a
   stream with a name and one without. *)
EXTENDS XtreamPromise, TLC

CONSTANTS h1, s1, s2, p1, p2, g1, g2, c1, c2

MCHostOf == [l \in Links |-> h1]

MCFeed == <<>>

MCPanels == {s1 :> 1 @@ s2 :> Blank}
=============================================================================
