-------------------------- MODULE MCFirmwareTransfer --------------------------
(* An instance of FirmwareTransfer for TLC: frames of two units, pages of      *)
(* three, a manifest of one, a core of four and payloads of four and of two,   *)
(* so that pages end within frames and the last page is filled up.             *)
EXTENDS TransferInvariant

CONSTANT ShortPackage

MCLength == [f \in Files |-> 4]

MCPayloadSize == [p \in Packages |-> IF p = ShortPackage THEN 2 ELSE 4]

\* Any command but the first is answered by an older reply; or flash operations
\* fail, and replies other than to data may be old.
MCFaults ==
    {[stale |-> {"begin", "data", "end", "status"}, flash |-> FALSE],
     [stale |-> {"begin", "end", "status"}, flash |-> TRUE]}

\* The faults are those of the theorems.
ASSUME FaultsAreApart == FaultsApart

=============================================================================
