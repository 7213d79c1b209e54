---------------------------- MODULE MCFloorLive ----------------------------
(* FloorLive for TLC, with the view of MCFloor. *)
EXTENDS FloorLive

LivePart(p) == <<p.part, p.pubRoom, p.perm, p.retry, p.released, p.part = "NpSends" /\ p.gTaken>>
LiveArb == CASE g = "Taken" -> <<speaker, sprio, firstRtp, IF succ /\ ~rtpSeen THEN c20 ELSE 0>>
             [] g = "Prevoke" -> <<revoking, rprio>>
             [] g = "Idle" -> <<idleBcast>>
View == <<g, LiveArb, queue, members, [u \in members |-> LivePart(parts[u])], quiet, due, stale>>
=============================================================================
