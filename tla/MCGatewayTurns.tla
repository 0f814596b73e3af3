--------------------------- MODULE MCGatewayTurns ---------------------------
(* GatewayTurns on small instances.                                         *)
EXTENDS GatewayTurns, TLC

CONSTANTS t1, t2, t3, s1, s2

MCTurns3 == {t1, t2, t3}
MCSessions == {s1, s2}
\* Two submissions compete for s1, the third goes to s2.
MCSessionOf3 == (t1 :> s1) @@ (t2 :> s1) @@ (t3 :> s2)
=============================================================================
