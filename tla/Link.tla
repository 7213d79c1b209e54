-------------------------------- MODULE Link --------------------------------
(***************************************************************************)
(* The transports of the media server and the receive thread that finds    *)
(* them (oxsfud/src/link/mod.rs, link/creds.rs, fwd/rt.rs): credentials    *)
(* with at most one pending successor, ICE restart, the commands that      *)
(* control threads queue for the receive thread, its two indexes, the      *)
(* path chosen by the client, and the liveness timer.                      *)
(*                                                                         *)
(* A user name fragment (ufrag) is a number; transport t begins with the   *)
(* number t.  The receive thread owns both indexes; control threads reach  *)
(* them only through the queue.  A check whose password matches is a check *)
(* that verifies.  The time of the last check of a path is left out, so    *)
(* the timer may find it too old at any time; so are DTLS and SRTP.        *)
(***************************************************************************)
EXTENDS Integers, Sequences, FiniteSets

CONSTANTS Trs,         \* transports, numbered from 1
          Addrs, Threads,
          CmdLimit,    \* CTL_RING
          MaxUfrag     \* credentials made in all

\* What the proofs assume of the constants.
LinkBounds == CmdLimit \in Nat /\ Cardinality(Trs) \in Nat /\ Trs = 1 .. Cardinality(Trs)

VARIABLES creds, open, path, state,             \* Transport
          cmds, byUfrag, byAddr, check,         \* the receive thread
          ctl,                                  \* the control threads
          given, owner, crossed

vars == <<creds, open, path, state, cmds, byUfrag, byAddr, check, ctl, given, owner, crossed>>

None == 0
Idle == [pc |-> "idle", tr |-> None, old |-> None, new |-> None]
NoCheck == [tr |-> None, ufrag |-> None, addr |-> None]

Init ==
    /\ creds = [t \in Trs |-> [active |-> t, pending |-> None]]
    /\ open = Trs
    /\ path = [t \in Trs |-> None] /\ state = [t \in Trs |-> "Alive"]
    /\ cmds = <<>> /\ byUfrag = Trs /\ byAddr = [a \in Addrs |-> None] /\ check = NoCheck
    /\ ctl = [h \in Threads |-> Idle]
    /\ given = Trs /\ owner = [u \in Trs |-> u] /\ crossed = {}

Push(c) == cmds' = IF Len(cmds) < CmdLimit THEN Append(cmds, c) ELSE cmds
Lost(t) == IF Len(cmds) < CmdLimit THEN {} ELSE {t}

\* Another control thread is at work on this transport.
Busy(h, t) == IF \E g \in Threads \ {h} : ctl[g].tr = t THEN {t} ELSE {}

----------------------------------------------------------------------------
(* The control threads: ice_restart and the end of reap.                    *)

\* Creds::restart under the lock.  A new credential that replaces a pending one
\* leaves the old ufrag to be dropped.
Restart(h, t) ==
    LET new == Cardinality(DOMAIN owner) + 1
        old == creds[t].pending
    IN /\ ctl[h] = Idle /\ new <= MaxUfrag
       /\ creds' = [creds EXCEPT ![t].pending = new]
       /\ owner' = [u \in 1 .. new |-> IF u = new THEN t ELSE owner[u]]
       /\ ctl' = [ctl EXCEPT ![h] = [pc |-> IF old = None THEN "register" ELSE "drop",
                                     tr |-> t, old |-> old, new |-> new]]
       /\ crossed' = crossed \cup Busy(h, t) \cup (IF t \in open THEN {} ELSE {t})
       /\ UNCHANGED <<open, path, state, cmds, byUfrag, byAddr, check, given>>

\* Media::drop_ufrag; a push into a full queue fails silently.
DropOld(h) ==
    /\ ctl[h].pc = "drop"
    /\ Push([op |-> "drop", tr |-> ctl[h].tr, ufrag |-> ctl[h].old])
    /\ ctl' = [ctl EXCEPT ![h].pc = "register"]
    /\ crossed' = crossed \cup Lost(ctl[h].tr)
    /\ UNCHANGED <<creds, open, path, state, byUfrag, byAddr, check, given, owner>>

\* Media::register, and the answer that gives the client the new credential.
Register(h) ==
    /\ ctl[h].pc = "register"
    /\ Push([op |-> "register", tr |-> ctl[h].tr, ufrag |-> ctl[h].new])
    /\ ctl' = [ctl EXCEPT ![h] = Idle]
    /\ given' = given \cup {ctl[h].new}
    /\ crossed' = crossed \cup Lost(ctl[h].tr)
    /\ UNCHANGED <<creds, open, path, state, byUfrag, byAddr, check, owner>>

\* reap closes the transport and has it taken out of the indexes.
Close(h, t) ==
    /\ ctl[h] = Idle /\ t \in open
    /\ open' = open \ {t}
    /\ Push([op |-> "unregister", tr |-> t, ufrag |-> None])
    /\ crossed' = crossed \cup Busy(h, t) \cup Lost(t)
    /\ UNCHANGED <<creds, path, state, byUfrag, byAddr, check, ctl, given, owner>>

SetState(t, s) == state' = [state EXCEPT ![t] = s]

\* path_alive: a path not checked for too long, or over a closed socket, is not;
\* a transport without a path counts as alive.
MaySilence(t) == path[t] # None

\* The liveness timer.
Liveness(t) ==
    /\ t \in open /\ MaySilence(t) /\ state[t] = "Alive"
    /\ SetState(t, "Suspect")
    /\ UNCHANGED <<creds, open, path, cmds, byUfrag, byAddr, check, ctl, given, owner, crossed>>

----------------------------------------------------------------------------
(* The receive thread.                                                      *)

Ufrags(t) == {creds[t].active} \cup ({creds[t].pending} \ {None})

\* datagram, a STUN check up to its verification: ufrag, transport, password.
StunCheck(a, u) ==
    LET t == owner[u]
    IN /\ check = NoCheck /\ u \in given /\ u \in byUfrag /\ u \in Ufrags(t)
       /\ check' = [tr |-> t, ufrag |-> u, addr |-> a]
       /\ byAddr' = [byAddr EXCEPT ![a] = t]
       /\ UNCHANGED <<creds, open, path, state, cmds, byUfrag, ctl, given, owner, crossed>>

FaultStunDone(nominated) ==
    LET t == check.tr
        promoted == creds[t].pending = check.ufrag
    IN /\ check # NoCheck /\ check' = NoCheck
       /\ creds' = IF promoted THEN [creds EXCEPT ![t] = [active |-> check.ufrag, pending |-> None]] ELSE creds
       /\ path' = IF nominated THEN [path EXCEPT ![t] = check.addr] ELSE path
       /\ IF nominated THEN SetState(t, "Alive") ELSE UNCHANGED state
       /\ UNCHANGED <<open, cmds, byUfrag, byAddr, ctl, given, owner, crossed>>

\* The rest: Creds::checked promotes a pending credential at its first check and
\* the retired one leaves the index; a nominating check chooses the path.
StunDone(nominated) ==
    LET t == check.tr
        promoted == creds[t].pending = check.ufrag
    IN /\ check # NoCheck /\ check' = NoCheck
       /\ creds' = IF promoted THEN [creds EXCEPT ![t] = [active |-> check.ufrag, pending |-> None]] ELSE creds
       /\ byUfrag' = IF promoted THEN byUfrag \ {creds[t].active} ELSE byUfrag
       /\ path' = IF nominated THEN [path EXCEPT ![t] = check.addr] ELSE path
       /\ IF nominated THEN SetState(t, "Alive") ELSE UNCHANGED state
       /\ UNCHANGED <<open, cmds, byAddr, ctl, given, owner, crossed>>

\* recv_loop takes a command.
Drain ==
    LET c == Head(cmds)
        its(u) == owner[u] = c.tr
    IN /\ check = NoCheck /\ cmds # <<>> /\ cmds' = Tail(cmds)
       /\ byUfrag' = CASE c.op = "register" -> byUfrag \cup {c.ufrag}
                       [] c.op = "drop" -> byUfrag \ {c.ufrag}
                       [] c.op = "unregister" -> {u \in byUfrag : ~its(u)}
       /\ byAddr' = IF c.op = "unregister" THEN [a \in Addrs |-> IF byAddr[a] = c.tr THEN None ELSE byAddr[a]]
                    ELSE byAddr
       /\ UNCHANGED <<creds, open, path, state, check, ctl, given, owner, crossed>>

\* tcp_closed: the connection behind an address is gone.
TcpClosed(a) ==
    /\ check = NoCheck /\ byAddr[a] # None
    /\ byAddr' = [byAddr EXCEPT ![a] = None]
    /\ UNCHANGED <<creds, open, path, state, cmds, byUfrag, check, ctl, given, owner, crossed>>

Next ==
    \/ \E h \in Threads : DropOld(h) \/ Register(h) \/ \E t \in Trs : Restart(h, t) \/ Close(h, t)
    \/ \E t \in Trs : Liveness(t)
    \/ \E a \in Addrs, u \in DOMAIN owner : StunCheck(a, u)
    \/ \E nominated \in BOOLEAN : StunDone(nominated)
    \/ Drain
    \/ \E a \in Addrs : TcpClosed(a)

Spec == Init /\ [][Next]_vars

----------------------------------------------------------------------------
(* Properties.                                                              *)

LinkTypeOK ==
    /\ \A t \in Trs : Ufrags(t) \subseteq DOMAIN owner /\ \A u \in Ufrags(t) : owner[u] = t
    /\ byUfrag \subseteq DOMAIN owner /\ Len(cmds) <= CmdLimit
    /\ \A t \in Trs : path[t] \in Addrs \cup {None} /\ (state[t] = "Suspect" => path[t] # None)

\* ice_restart, datagram, reap: once the queue is empty and nobody is at work,
\* the receive thread knows exactly the active and the pending credential of
\* every open transport and nothing of a closed one, whatever checks with old
\* and new credentials arrived in between.  A restart that ran into another
\* control operation on the transport, or a full queue, is excepted (crossed).
IndexExact ==
    (cmds = <<>> /\ check = NoCheck /\ \A h \in Threads : ctl[h] = Idle) =>
        \A t \in Trs \ crossed :
            /\ {u \in byUfrag : owner[u] = t} = IF t \in open THEN Ufrags(t) ELSE {}
            /\ t \notin open => \A a \in Addrs : byAddr[a] # t
=============================================================================
