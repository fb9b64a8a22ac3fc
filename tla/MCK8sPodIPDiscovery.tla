------------------------- MODULE MCK8sPodIPDiscovery -------------------------
(* Instances of K8sPodIPDiscovery for TLC.                                  *)
EXTENDS K8sPodIPDiscovery, TLC

CONSTANTS p1, p2, m1, m2

MCServes == p1 :> {m1} @@ p2 :> {m2}
=============================================================================
