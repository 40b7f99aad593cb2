-------------------------- MODULE MCImageTransfer --------------------------
(* Instances of ImageTransfer for TLC: files of five units, frames of two and *)
(* pages of three, so that pages end within frames and a page is left over.  *)
EXTENDS ImageTransfer

MCLength == [f \in Files |-> 5]

\* Any command but the first is answered by an older reply; or flash operations
\* fail, and replies other than to data may be old.
MCFaults ==
    {[stale |-> {"begin", "data", "end", "status"}, flash |-> FALSE],
     [stale |-> {"begin", "end", "status"}, flash |-> TRUE]}

\* A page fails, and the reply to the frame is an older one.
MCResend == {[stale |-> {"data"}, flash |-> TRUE]}

=============================================================================
