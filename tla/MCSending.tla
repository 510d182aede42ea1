----------------------------- MODULE MCSending -----------------------------
(* The instances of Sending for TLC. *)
EXTENDS Sending

CONSTANTS p, q, m1, m2

SecondMessage == send[m2].at # "idle"

SecondDevice ==
    \/ linked # {p} \/ pool[q] # held[q] \/ minted[q].calls # 1
    \/ theirs[q] # {} \/ mine[q] # {}
    \/ \E t \in Upkeeps : upkeep[q][t].at # "idle"
    \/ \E r \in Refs : q \in send[r].todo \union {send[r].dev}
    \/ cache # Nil /\ cache.devices # {p}

SecondUpkeep ==
    \E d \in Devices : minted[d].calls > 2 \/ \E t \in Upkeeps \ {1} : upkeep[d][t].at # "idle"

\* bound: at most one of a second message, a second device, a second upkeep call.
OneAtATime ==
    /\ ~(SecondMessage /\ SecondDevice)
    /\ ~(SecondMessage /\ SecondUpkeep)
    /\ ~(SecondDevice /\ SecondUpkeep)
=============================================================================
