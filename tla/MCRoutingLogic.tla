---------------------------- MODULE MCRoutingLogic ----------------------------
(* Instances of RoutingLogic for TLC: three engines, successive pods of a   *)
(* deployment of one model, and one of another; every engine of the first   *)
(* twice on the ring, sessions below, between and above the points.         *)
EXTENDS RoutingLogic, TLC

CONSTANTS s1, s2, s3, mA, mB, iA, iB

MCServes == 1 :> mA @@ 2 :> mA @@ 3 :> mA @@ 4 :> mB
MCPoints == 1 :> {1, 6} @@ 2 :> {2, 5} @@ 3 :> {3, 7} @@ 4 :> {4}
MCHash == s1 :> 0 @@ s2 :> 5 @@ s3 :> 8
MCInstanceOf == 1 :> iA @@ 2 :> iA @@ 3 :> iA @@ 4 :> iB

\* Which coroutine is which makes no difference.
MCSymmetry == Permutations(KvHandlers)
=============================================================================
