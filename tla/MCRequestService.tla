-------------------------- MODULE MCRequestService --------------------------
(* Two engines, three requests of which two carry the same X-Request-Id (a   *)
(* client that retries, or a proxy that stamps one id on a batch).           *)
EXTENDS RequestService, TLC

CONSTANTS r1, r2, r3, e1, e2, idA, idB

MCIdOf == (r1 :> idA) @@ (r2 :> idA) @@ (r3 :> idB)
MCSymmetry == Permutations({r1, r2}) \cup Permutations(Engines)
=============================================================================
