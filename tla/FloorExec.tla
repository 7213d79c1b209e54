----------------------------- MODULE FloorExec -----------------------------
(***************************************************************************)
(* Carrying out the floor's decisions (crates/oxsfud/src/ops/floor.rs).    *)
(*                                                                         *)
(* `run` decides under the room's floor lock and numbers the effect; the   *)
(* thread that decided then carries it out in `execute` with no lock held  *)
(* from one step to the next: the audio slot's `bind` lock, the video      *)
(* slot's, and, if either slot took the effect, the slots' `speaker`       *)
(* pointers, which gate the forwarding of media.  Any number of threads    *)
(* (data channel, timers, room operations) may be in `execute` at once.    *)
(*                                                                         *)
(* Left out: what bind_media and release_media start on the side (prime    *)
(* and silence frames, keyframe requests, RTX gates) and the episode       *)
(* counter those compare.                                                  *)
(***************************************************************************)
EXTENDS FloorAbs

CONSTANT MaxGrant    \* bound on the number of grants explored
ASSUME MaxGrantAssumption == MaxGrant \in Nat
ASSUME NoUserAssumption == NoUser \notin Users

VARIABLES grantNo,   \* Clock.grant_no
          jobs,      \* the executions under way
          slot,      \* SlotFan.bind of each kind
          speaker    \* SlotFan.speaker of each kind

execVars == <<holder, waiting, fx, grantNo, jobs, slot, speaker>>

Kinds == {"audio", "video"}
Unbound == [u |-> NoUser, g |-> 0]
NewSlot == [bound |-> Unbound, seen |-> 0]

\* An execution: its effect, whether a slot took it, and the step it is at.
Job == [t : {"Bind", "Release"}, u : Users \cup {NoUser}, g : 1..MaxGrant,
        taken : BOOLEAN, pc : {"slotA", "slotV", "mediaA", "mediaV"}]

ExecInit == /\ Init
            /\ grantNo = 0 /\ jobs = {}
            /\ slot = [k \in Kinds |-> NewSlot]
            /\ speaker = [k \in Kinds |-> NoUser]

\* A Bind opens a new grant number, a Release carries the current one.
EffectNumber == IF fx'.t = "Bind" THEN grantNo + 1 ELSE grantNo

\* A decision under the floor lock.
Decide == /\ Next
          /\ grantNo' = EffectNumber
          /\ grantNo' <= MaxGrant
          /\ \/ fx'.t = "None" /\ UNCHANGED jobs
             \/ /\ fx'.t # "None"
                /\ jobs' = jobs \cup {[t |-> fx'.t, u |-> fx'.u, g |-> grantNo',
                                       taken |-> FALSE, pc |-> "slotA"]}
          /\ UNCHANGED <<slot, speaker>>

\* Slot::apply.  `seen` is 0 for the source's None: grant numbers start at 1.
FaultApply(s, e) ==
  IF e.t = "Bind"
  THEN IF e.g <= s.bound.g THEN s ELSE [bound |-> [u |-> e.u, g |-> e.g], seen |-> e.g]
  ELSE [bound |-> IF s.bound.g <= e.g THEN Unbound ELSE s.bound,
        seen |-> IF e.g > s.seen THEN e.g ELSE s.seen]
Apply(s, e) ==
  IF e.t = "Bind"
  THEN IF e.g <= s.seen THEN s ELSE [bound |-> [u |-> e.u, g |-> e.g], seen |-> e.g]
  ELSE [bound |-> IF s.bound.g <= e.g THEN Unbound ELSE s.bound,
        seen |-> IF e.g > s.seen THEN e.g ELSE s.seen]

Advance(j, next) == jobs' = (jobs \ {j}) \cup next

ApplyAudio(j) ==
  LET s == Apply(slot["audio"], j)
  IN  /\ j.pc = "slotA"
      /\ slot' = [slot EXCEPT !["audio"] = s]
      /\ Advance(j, {[j EXCEPT !.pc = "slotV", !.taken = s.bound # slot["audio"].bound]})
      /\ UNCHANGED <<holder, waiting, fx, grantNo, speaker>>

ApplyVideo(j) ==
  LET s == Apply(slot["video"], j)
      taken == j.taken \/ s.bound # slot["video"].bound
  IN  /\ j.pc = "slotV"
      /\ slot' = [slot EXCEPT !["video"] = s]
      /\ Advance(j, IF taken THEN {[j EXCEPT !.pc = "mediaA", !.taken = TRUE]} ELSE {})
      /\ UNCHANGED <<holder, waiting, fx, grantNo, speaker>>

\* bind_media and release_media store the pointers one after the other; the
\* video pointer stays empty when the user's video does not fit the room's codec.
MediaAudio(j) ==
  /\ j.pc = "mediaA"
  /\ speaker' = [speaker EXCEPT !["audio"] = IF j.t = "Bind" THEN j.u ELSE NoUser]
  /\ Advance(j, {[j EXCEPT !.pc = "mediaV"]})
  /\ UNCHANGED <<holder, waiting, fx, grantNo, slot>>

MediaVideo(j) ==
  /\ j.pc = "mediaV"
  /\ \E ok \in BOOLEAN :
       speaker' = [speaker EXCEPT !["video"] = IF j.t = "Bind" /\ ok THEN j.u ELSE NoUser]
  /\ Advance(j, {})
  /\ UNCHANGED <<holder, waiting, fx, grantNo, slot>>

ExecNext == \/ Decide
            \/ \E j \in jobs : ApplyAudio(j) \/ ApplyVideo(j) \/ MediaAudio(j) \/ MediaVideo(j)

ExecSpec == ExecInit /\ [][ExecNext]_execVars

\* Every variable keeps its type; an effect on its way has a grant number that
\* was really issued (1 or more, grant_no counted up before it is read).
ExecTypeOK == /\ holder \in Users \cup {NoUser}
              /\ waiting \in SUBSET Waiter
              /\ grantNo \in 0..MaxGrant
              /\ jobs \in SUBSET Job
              /\ slot \in [Kinds -> [bound : [u : Users \cup {NoUser}, g : 0..MaxGrant], seen : 0..MaxGrant]]
              /\ speaker \in [Kinds -> Users \cup {NoUser}]

Pending(j, k) == j.pc = "slotA" \/ (k = "video" /\ j.pc = "slotV")
Decided == IF holder = NoUser THEN Unbound ELSE [u |-> holder, g |-> grantNo]

\* In whatever order the threads reach a slot, once no effect is on its way to
\* it the slot is bound to the holder by the current grant, and to nobody when
\* the floor is free: a late Bind or Release of an older grant changes nothing
\* (Slot::apply, flr/bind.rs).
SlotsSettle == \A k \in Kinds : (\A j \in jobs : ~Pending(j, k)) => slot[k].bound = Decided

\* With no execution under way, the pointer that gates the forwarding of audio
\* names the holder of the floor, and nobody when the floor is free
\* (docs/architecture.md:397: the executor replaces the slot's `speaker` as
\* decided).
SpeakerIsHolder == jobs = {} => speaker["audio"] = holder
=============================================================================
