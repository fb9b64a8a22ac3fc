------------------------ MODULE MCDisaggregatedPrefill ------------------------
EXTENDS DisaggregatedPrefill, TLC

CONSTANTS p1, p2, d1

MCLabel == (p1 :> "prefill") @@ (p2 :> "prefill") @@ (d1 :> "decode")
=============================================================================
