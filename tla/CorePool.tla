------------------------------ MODULE CorePool ------------------------------
(***************************************************************************)
(* What the replaceable core pool promises its users (core_store.h,        *)
(* README.md "Each metadata commit retains the prior valid record"): a     *)
(* table of cores, one entry per context.  An entry changes only when an   *)
(* upload is completed or the core is deleted, in one step, and no power   *)
(* loss or failed flash operation ever changes another entry.              *)
(***************************************************************************)
EXTENDS Naturals

CONSTANTS
    Contexts,   \* the hardware contexts, one entry each
    Cores,      \* compressed FPGA cores
    NoCore,     \* an empty entry
    Foreign     \* an entry reserved for data no decoder recognizes

VARIABLES
    table,      \* the core each context boots from flash
    upload      \* the upload in progress, NoUpload if there is none

Entries == Cores \cup {NoCore, Foreign}
Uploads == [slot: Contexts, core: Cores]
NoUpload == [slot |-> NoCore, core |-> NoCore]

PoolInit ==
    /\ table \in [Contexts -> Entries]
    /\ upload = NoUpload

Open(k, c) ==
    /\ upload = NoUpload
    /\ upload' = [slot |-> k, core |-> c]
    /\ UNCHANGED table

\* Abort, an error, or a reset.
Close ==
    /\ upload # NoUpload
    /\ upload' = NoUpload
    /\ UNCHANGED table

Complete ==
    /\ upload # NoUpload
    /\ upload' = NoUpload
    /\ table' = [table EXCEPT ![upload.slot] = upload.core]

Delete(k) ==
    /\ upload = NoUpload
    /\ UNCHANGED upload
    /\ table' = [table EXCEPT ![k] = NoCore]

PoolNext ==
    \/ \E k \in Contexts, c \in Cores : Open(k, c)
    \/ Close
    \/ Complete
    \/ \E k \in Contexts : Delete(k)

PoolSpec == PoolInit /\ [][PoolNext]_<<table, upload>>
=============================================================================
