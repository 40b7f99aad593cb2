---------------------------- MODULE MCSupervisor ----------------------------
(* Instances of Supervisor for TLC: context 1 has the embedded image, context *)
(* 2 does not; two images are on the card, one for each.                      *)
EXTENDS Supervisor

CONSTANTS k1, k2, update, wild

MCHome == [p \in {update, wild} |-> IF p = update THEN k1 ELSE k2]
MCClass == [p \in {update, wild} |-> IF p = update THEN "update" ELSE "wildGz"]
MCRank == [p \in {update, wild} |-> 1]

\* What the card and the flash of the contexts hold.
World(u, w, f1, f2) ==
    [place \in Places |->
        CASE place = update -> u [] place = wild -> w
          [] place = <<k1, Flash>> -> f1 [] place = <<k2, Flash>> -> f2 [] OTHER -> "good"]

\* Everything loads, or card and flash fail in every way they can.
MCImages == {World("good", "good", "good", "good"),
             World("broken", "absent", "absent", "refused")}

\* The next record's number wraps.
MCRecords == {[seq |-> 3, table |-> [k \in {k1, k2} |-> IF k = k1 THEN update ELSE Flash]]}

Op(kind, k, choice) == [kind |-> kind, k |-> k, choice |-> choice]

MCOps == {Op("save", k1, Flash), Op("delete", k1, update),
          Op("clear", k1, Flash), Op("load", k1, Automatic), Op("once", k2, Flash),
          Op("restart", k1, Automatic)}
=============================================================================
