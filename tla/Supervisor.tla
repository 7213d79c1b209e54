----------------------------- MODULE Supervisor -----------------------------
(***************************************************************************)
(* One media-server unit of the hub's supervisor                           *)
(* (oxhubd/src/ops/supervisor.rs): Supervisor::run_unit, the commands the  *)
(* admin surface sends it, and stop_all.  pc is the await the unit's task  *)
(* is at.  A child process is the number of its start; children are those  *)
(* alive, local the one whose client Bus::call_local uses (0 for none).    *)
(***************************************************************************)
EXTENDS Integers, Sequences, FiniteSets

CONSTANTS IntensityMax, MaxBoot, MaxReq

VARIABLES st, pc, cmds, children, boot, local, attempts, counted, stopping, nodeDeclared, reqs

vars == <<st, pc, cmds, children, boot, local, attempts, counted, stopping, nodeDeclared, reqs>>

UnitStates == {"Starting", "Running", "Down", "Stopping", "Stopped", "Blocked"}

Init ==
    /\ st = "Starting" /\ pc = "top" /\ cmds = <<>> /\ reqs = 0
    /\ children = {} /\ boot = 0 /\ local = 0
    /\ attempts = 0 /\ counted = TRUE /\ stopping = FALSE /\ nodeDeclared = FALSE

Cmd(c) == cmds # <<>> /\ Head(cmds) = c /\ cmds' = Tail(cmds)

\* The head of the loop; a unit that starts for the first time waits for its port.
Top ==
    /\ pc = "top"
    /\ pc' = CASE stopping -> "gone"
               [] ~stopping /\ st \in {"Stopped", "Blocked"} -> "idle"
               [] ~stopping /\ st = "Down" -> "backoff"
               [] OTHER -> "launch"
    /\ st' = IF pc' = "launch" THEN "Starting" ELSE st
    /\ UNCHANGED <<cmds, children, boot, local, attempts, counted, stopping, nodeDeclared, reqs>>

\* A stopped or blocked unit takes commands only.
Idle ==
    /\ pc = "idle"
    /\ \/ Cmd("load") /\ st' = "Starting" /\ counted' = FALSE /\ pc' = "launch"
       \/ Cmd("stop") /\ st' = "Stopped" /\ pc' = "top" /\ UNCHANGED counted
       \/ Cmd("kill") /\ pc' = "top" /\ UNCHANGED <<st, counted>>
    /\ UNCHANGED <<children, boot, local, attempts, stopping, nodeDeclared, reqs>>

\* A unit that is down waits for its backoff or a command.
Backoff ==
    /\ pc = "backoff"
    /\ \/ st' = "Starting" /\ pc' = "launch" /\ UNCHANGED cmds
       \/ Cmd("stop") /\ st' = "Stopped" /\ pc' = "top"
       \/ (Cmd("load") \/ Cmd("kill")) /\ pc' = "top" /\ UNCHANGED st
    /\ UNCHANGED <<children, boot, local, attempts, counted, stopping, nodeDeclared, reqs>>

\* note_attempt: old attempts fall out of the window; more than IntensityMax
\* left in it block the unit.
Attempts == IF counted THEN 1 .. attempts + 1 ELSE {attempts}

Launch ==
    /\ pc = "launch"
    /\ counted' = TRUE
    /\ \E k \in Attempts :
         /\ attempts' = k
         /\ \/ /\ counted /\ k > IntensityMax
               /\ st' = "Blocked" /\ pc' = "top"
               /\ UNCHANGED <<children, boot>>
            \/ /\ ~(counted /\ k > IntensityMax) /\ boot < MaxBoot
               /\ boot' = boot + 1 /\ children' = children \cup {boot + 1}
               /\ pc' = "hello" /\ UNCHANGED st
            \/ /\ ~(counted /\ k > IntensityMax)          \* the command did not start
               /\ st' = "Down" /\ pc' = "top" /\ UNCHANGED <<children, boot>>
    /\ UNCHANGED <<cmds, local, stopping, nodeDeclared, reqs>>

\* became_running: the client is handed to the bus before the unit is Running;
\* the first time the hub also declares its node token.
Hello ==
    /\ pc = "hello" /\ boot \in children
    /\ local' = boot /\ st' = "Running"
    /\ nodeDeclared' = TRUE
    /\ pc' = IF nodeDeclared THEN "run" ELSE "declare"
    /\ UNCHANGED <<cmds, children, boot, attempts, counted, stopping, reqs>>

Declared ==
    /\ pc = "declare" /\ pc' = "run"
    /\ UNCHANGED <<st, cmds, children, boot, local, attempts, counted, stopping, nodeDeclared, reqs>>

\* No hello in time: the child is killed and waited for, the unit goes down.
HelloTimeout ==
    /\ pc = "hello"
    /\ children' = children \ {boot}
    /\ st' = "Down" /\ pc' = "top"
    /\ UNCHANGED <<cmds, boot, local, attempts, counted, stopping, nodeDeclared, reqs>>

ChildDies ==
    /\ \E c \in children : children' = children \ {c}
    /\ UNCHANGED <<st, pc, cmds, boot, local, attempts, counted, stopping, nodeDeclared, reqs>>

\* supervise: the child's end, and the commands.
Exited ==
    /\ pc = "run" /\ boot \notin children
    /\ local' = 0
    /\ st' = IF stopping THEN "Stopped" ELSE "Down"
    /\ pc' = IF stopping THEN "gone" ELSE "top"
    /\ UNCHANGED <<cmds, children, boot, attempts, counted, stopping, nodeDeclared, reqs>>

RunLoad ==
    /\ pc = "run" /\ Cmd("load")
    /\ UNCHANGED <<st, pc, children, boot, local, attempts, counted, stopping, nodeDeclared, reqs>>

RunKill ==
    /\ pc = "run" /\ Cmd("kill")
    /\ children' = children \ {boot} /\ local' = 0
    /\ st' = IF stopping THEN "Stopped" ELSE "Down"
    /\ pc' = IF stopping THEN "gone" ELSE "top"
    /\ UNCHANGED <<boot, attempts, counted, stopping, nodeDeclared, reqs>>

RunStop ==
    /\ pc = "run" /\ Cmd("stop")
    /\ st' = "Stopping" /\ pc' = "term"
    /\ UNCHANGED <<children, boot, local, attempts, counted, stopping, nodeDeclared, reqs>>

\* terminate: SIGTERM, then SIGKILL; the command is answered before the bus
\* forgets the client.
Terminated ==
    /\ pc = "term"
    /\ children' = children \ {boot} /\ st' = "Stopped" /\ pc' = "unset"
    /\ UNCHANGED <<cmds, boot, local, attempts, counted, stopping, nodeDeclared, reqs>>

FaultUnset ==
    /\ pc = "unset" /\ pc' = "top"
    /\ UNCHANGED <<st, cmds, children, boot, local, attempts, counted, stopping, nodeDeclared, reqs>>

Unset ==
    /\ pc = "unset"
    /\ local' = 0 /\ pc' = "top"
    /\ UNCHANGED <<st, cmds, children, boot, attempts, counted, stopping, nodeDeclared, reqs>>

\* Supervisor::request, for the admin surface.
Request(c) ==
    /\ pc # "gone" /\ reqs < MaxReq
    /\ cmds' = Append(cmds, c) /\ reqs' = reqs + 1
    /\ UNCHANGED <<st, pc, children, boot, local, attempts, counted, stopping, nodeDeclared>>

\* stop_all: a unit that is not Running at that moment is not asked to stop.
StopAll ==
    /\ ~stopping /\ stopping' = TRUE
    /\ cmds' = IF st = "Running" THEN Append(cmds, "stop") ELSE cmds
    /\ UNCHANGED <<st, pc, children, boot, local, attempts, counted, nodeDeclared, reqs>>

Next ==
    \/ Top \/ Idle \/ Backoff \/ Launch
    \/ Hello \/ Declared \/ HelloTimeout
    \/ ChildDies \/ Exited \/ RunLoad \/ RunKill \/ RunStop \/ Terminated \/ Unset
    \/ \E c \in {"load", "stop", "kill"} : Request(c)
    \/ StopAll

Spec == Init /\ [][Next]_vars

----------------------------------------------------------------------------
(* Properties.                                                             *)

TypeOK ==
    /\ st \in UnitStates
    /\ pc \in {"top", "idle", "backoff", "launch", "hello", "declare", "run", "term", "unset", "gone"}
    /\ children \subseteq 1 .. boot /\ local \in 0 .. boot

\* run_unit and supervise, whatever commands, crashes and timeouts come in which
\* order: there is never more than one media server of this unit, the bus never
\* calls one that was started earlier, and while a new one is starting up or the
\* unit is down it calls none.
OneMediaServer ==
    /\ Cardinality(children) <= 1
    /\ local # 0 => local = boot /\ pc \in {"declare", "run", "term", "unset"}
=============================================================================
