--------------------------- MODULE MCUpdateEngine ---------------------------
(* Instances of UpdateEngine for TLC: three builds of different sizes.       *)
EXTENDS UpdateEngineInvariant, TLC

CONSTANTS v1, v2, v3

\* v1 is the oldest build and the only one without the core pool.
MCPayloadLen == [i \in Images |-> IF i = v2 THEN MaxPayload ELSE 1]
MCVersion == [i \in Images |-> CASE i = v1 -> 1 [] i = v2 -> 2 [] OTHER -> 2]
MCPoolImages == Images \ {v1}
=============================================================================
