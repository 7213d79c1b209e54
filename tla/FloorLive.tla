----------------------------- MODULE FloorLive -----------------------------
(***************************************************************************)
(* The floor's timers with the passage of time: when T1 is due, and the    *)
(* two steps in which it fires.                                            *)
(*                                                                         *)
(* The timer task (crates/oxsfud/src/ops/floor.rs) fires T1 only after the *)
(* room's speaker has sent no media for T1_MS: on_rtp and fire_due push    *)
(* the deadline out at every packet of the bound speaker, and a new grant  *)
(* starts it anew.  `quiet` says that the silence has lasted that long.    *)
(* fire_due collects the timers that are due under the clock's lock and    *)
(* runs them afterwards, each under the floor's lock if it is still armed; *)
(* operations of other threads come in between.  The other timers have no  *)
(* deadline to miss: once armed they may fire at any time.                 *)
(***************************************************************************)
EXTENDS Floor

VARIABLES quiet,   \* the holder has been silent for T1_MS
          due,     \* fire_due has collected T1 and not run it yet
          stale    \* history: the floor was granted anew after that

clockVars == <<quiet, due, stale>>
liveVars == <<vars, clockVars>>

InitLive == Init /\ quiet = FALSE /\ due = FALSE /\ stale = FALSE

\* A new grant (`granted_at`) starts the silence anew.
Regrant == /\ quiet' = (quiet /\ fx'.t # "Bind")
           /\ stale' = (stale \/ (due /\ fx'.t = "Bind"))
           /\ UNCHANGED due

FaultMedia(u) == Rtp(u) /\ quiet' = FALSE /\ UNCHANGED <<due, stale>>
Media(u) == /\ Rtp(u)
            /\ quiet' = (quiet /\ Holder # u)
            /\ UNCHANGED <<due, stale>>

Elapse == /\ g # "Idle" /\ ~quiet
          /\ quiet' = TRUE
          /\ UNCHANGED <<vars, due, stale>>

\* T1's deadline has passed and no media of the holder pushes it out.
CollectT1 == /\ g # "Idle" /\ quiet /\ ~due
             /\ due' = TRUE /\ stale' = FALSE
             /\ UNCHANGED <<vars, quiet>>

\* T1 runs if `armed_server` still names it.
FireT1 == /\ due
          /\ due' = FALSE /\ stale' = FALSE
          /\ \/ T1 /\ quiet' = FALSE
             \/ g = "Idle" /\ UNCHANGED <<vars, quiet>>

FireT2 == T2 /\ Regrant
FireT3 == T3 /\ Regrant
FireOther == (T7 \/ T20) /\ Regrant

Quiet(u) == NoMedia(u) /\ Regrant

Timers == Elapse \/ CollectT1 \/ FireT1 \/ FireT2 \/ FireT3 \/ FireOther

NextLive == Timers \/ \E u \in Users : Quiet(u) \/ Media(u)

NextLiveMuted == Timers \/ \E u \in Users : Quiet(u) \/ (~InQ(queue, u) /\ Media(u))

\* The timer task runs as long as the room does: an armed timer that is due and
\* stays armed fires.  Nothing is assumed of clients or of their media.
TimerFairness == /\ WF_liveVars(Elapse)
                 /\ WF_liveVars(CollectT1)
                 /\ WF_liveVars(FireT1)
                 /\ WF_liveVars(FireT2)
                 /\ WF_liveVars(FireT3)

SpecLive == InitLive /\ [][NextLive]_liveVars /\ TimerFairness
SpecLiveMuted == InitLive /\ [][NextLiveMuted]_liveVars /\ TimerFairness

\* Nobody keeps the floor for ever: silence ends a tenure by T1, speech by T2 and
\* then T3, whatever the holder, the other members and the network do
\* (docs/protocol/10-flr.md:1256: the floor is taken back on T1 and T2).
FloorTurnsOver == \A u \in Users : (Holder = u) ~> (Holder # u)

\* T1 measures the tenure it ends: it is armed by the grant and again by every
\* packet (docs/protocol/10-flr.md:798), so it never ends a tenure that began
\* after its deadline had passed.
T1EndsOwnTenure == [][(due /\ ~due' /\ Holder' # Holder) => ~stale]_liveVars
=============================================================================
