----------------------------- MODULE BootChoices ----------------------------
(***************************************************************************)
(* What the journal of boot choices promises: a table that changes only    *)
(* when the choice of one context is saved, all at once.  The promise ends *)
(* with the first record that rots.                                        *)
(***************************************************************************)
CONSTANTS Contexts, GoldenContexts, Choices, Golden

VARIABLES
    table,  \* the choice each context boots with
    lost    \* a record has rotted

Init == table \in [Contexts -> Choices] /\ lost = FALSE

Save(k, choice) ==
    /\ ~lost
    /\ choice = Golden => k \in GoldenContexts
    /\ table' = [table EXCEPT ![k] = choice]
    /\ UNCHANGED lost

Lose == lost' = TRUE /\ table' \in [Contexts -> Choices]

Next == (\E k \in Contexts, choice \in Choices : Save(k, choice)) \/ Lose

Spec == Init /\ [][Next]_<<table, lost>>
=============================================================================
