---------------------------- MODULE MCSessions -----------------------------
EXTENDS Sessions

CONSTANTS k1, k2, h1

MCHost == [k \in Keys |-> h1]
MCWeights == [f \in {"protocol", "malformed", "invalid"} |-> IF f = "invalid" THEN 2 ELSE 1]
=============================================================================
