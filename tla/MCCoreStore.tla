---------------------------- MODULE MCCoreStore -----------------------------
(* Instances of CoreStore for TLC: two fixed slots of two blocks each.       *)
EXTENDS CoreStoreProperties, TLC

CONSTANTS c1, c2

MCSize == [c \in Cores |-> IF c = c1 THEN 1 ELSE 2]
MCLegacyBlocks == [k \in Contexts |-> [n \in 1..Window |-> Window * k + n - 1]]
=============================================================================
