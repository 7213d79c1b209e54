------------------------------ MODULE MCFloor ------------------------------
(***************************************************************************)
(* Floor for TLC.  The view leaves out what cannot influence a later step  *)
(* (out, fx, prev, c7), the counters c8 and c21, which influence nothing   *)
(* but themselves, and every value that is overwritten before it is next   *)
(* read (a non-member's record, gTaken outside NpSends, the speaker's data *)
(* outside Taken ...).  Action properties that read out' or fx' are        *)
(* evaluated on every step, also on steps to a state already seen.         *)
(***************************************************************************)
EXTENDS Floor, TLC

Symmetry == Permutations(Users)

LivePart(p) == <<p.part, p.pubRoom, p.perm, p.retry, p.released, p.part = "NpSends" /\ p.gTaken>>
LiveArb == CASE g = "Taken" -> <<speaker, sprio, firstRtp, IF succ /\ ~rtpSeen THEN c20 ELSE 0>>
             [] g = "Prevoke" -> <<revoking, rprio>>
             [] g = "Idle" -> <<idleBcast>>
View == <<g, LiveArb, queue, members, [u \in members |-> LivePart(parts[u])]>>
=============================================================================
