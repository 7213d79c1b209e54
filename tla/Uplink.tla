------------------------------- MODULE Uplink -------------------------------
(***************************************************************************)
(* One uplink video track of the media server: the packets missing from    *)
(* it, which the server asks the publisher for (oxsfud/src/pub/mod.rs      *)
(* NackUp), and the requests for key frames, at most one per throttle time *)
(* (oxsfud/src/rtcp/mod.rs request_pli, uplink).                           *)
(*                                                                         *)
(* The publisher counts its packets 0, 1, ...; a packet carries its number *)
(* modulo M.  The network may lose packets and reorder them.  Time is      *)
(* counted in calls of uplink.                                             *)
(***************************************************************************)
EXTENDS Integers, FiniteSets, Functions, FiniteSetsExt

CONSTANTS M,                     \* numbers on the wire, 2^16
          First,                 \* number of the first packet
          Span, NackMax,         \* 128 and NACK_MAX
          Resend, GiveUp,        \* NACK_RESEND_MS, NACK_GIVEUP_MS
          Throttle,              \* throttle_ms
          MaxPkt, MaxNow         \* bounds: packets sent, time

VARIABLES
    now,
    sent, net,      \* number of the next packet; packets under way
    nack,           \* NackUp
    pli,            \* PliState
    asked,          \* numbers asked for and not answered yet
    got,            \* packets that came, or came again
    passed, quit,   \* packets not looked for; packets given up
    owed,           \* time of the oldest request for a key frame not served
    fires           \* times of the requests sent

vars == <<now, sent, net, nack, pli, asked, got, passed, quit, owed, fires>>

None == -1

Init ==
    /\ now = 1 /\ sent = First /\ net = {}
    /\ nack = [last |-> None, base |-> 0, missing |-> <<>>]
    /\ pli = [last |-> 0, pending |-> FALSE]
    /\ asked = {} /\ got = {} /\ passed = {} /\ quit = {}
    /\ owed = None /\ fires = {}

----------------------------------------------------------------------------
(* NackUp                                                                   *)

\* A difference of two numbers as a signed one of the same width.
Signed(d) == LET x == d % M IN IF 2 * x >= M THEN x - M ELSE x

\* The numbers a packet u ahead of the newest shows to be missing: none across
\* too wide a gap, and no more than there is room for.
Holes(k, u) ==
    IF u - k.base < Span
    THEN {s \in k.base + 1 .. u - 1 : s - k.base <= NackMax - Cardinality(DOMAIN k.missing)}
    ELSE {}

\* The difference is taken without wrapping.
FaultUnwrap(k, seq) == k.base + (seq - k.last)

\* The number of a packet, counted on from the newest.
Unwrap(k, seq) == k.base + Signed(seq - k.last)

OnPacket(k, seq) ==
    IF k.last = None THEN [k EXCEPT !.last = seq, !.base = seq]
    ELSE LET u == Unwrap(k, seq)
             new == [s \in Holes(k, u) |-> [at |-> now, asked |-> None]] IN
         IF u <= k.base THEN [k EXCEPT !.missing = Restrict(@, DOMAIN @ \ {u})]
         ELSE [last |-> seq, base |-> u,
               missing |-> [s \in DOMAIN k.missing \cup DOMAIN new |->
                               IF s \in DOMAIN new THEN new[s] ELSE k.missing[s]]]

\* What due gives up at time t, and what it asks for.
Expired(k, t) == {s \in DOMAIN k.missing : t - k.missing[s].at > GiveUp}
Wanted(k, t) ==
    {s \in DOMAIN k.missing \ Expired(k, t) :
        k.missing[s].asked = None \/ t - k.missing[s].asked >= Resend}

Due(k, t) ==
    [k EXCEPT !.missing = [s \in DOMAIN k.missing \ Expired(k, t) |->
        IF s \in Wanted(k, t) THEN [k.missing[s] EXCEPT !.asked = t] ELSE k.missing[s]]]

\* The packets that numbers of NackUp, sent as they are modulo M, stand for.
Packets(S) == {p \in First .. sent - 1 : \E s \in S : p % M = s % M}

----------------------------------------------------------------------------
(* request_pli at time t                                                    *)

Fires(p, t) == p.last = 0 \/ t - p.last >= Throttle

Request(p, infra, t) ==
    IF Fires(p, t) THEN [last |-> t, pending |-> FALSE]
    ELSE [p EXCEPT !.pending = @ \/ infra]

\* The requests of the server itself are to be served; those of subscribers need not.
AskPli(infra) ==
    /\ pli' = Request(pli, infra, now)
    /\ fires' = IF Fires(pli, now) THEN fires \cup {now} ELSE fires
    /\ owed' = CASE Fires(pli, now) -> None
                 [] ~Fires(pli, now) /\ infra /\ owed = None -> now
                 [] OTHER -> owed
    /\ UNCHANGED <<now, sent, net, nack, asked, got, passed, quit>>

----------------------------------------------------------------------------
(* Packets                                                                  *)

Send ==
    /\ sent < First + MaxPkt
    /\ sent' = sent + 1 /\ net' = net \cup {sent}
    /\ UNCHANGED <<now, nack, pli, asked, got, passed, quit, owed, fires>>

Lose(n) ==
    /\ net' = net \ {n}
    /\ UNCHANGED <<now, sent, nack, pli, asked, got, passed, quit, owed, fires>>

\* on_ingress and on_repair, as far as NackUp goes.
Take(n) ==
    /\ nack' = OnPacket(nack, n % M)
    /\ got' = got \cup {n}
    /\ passed' = CASE got = {} -> First .. n - 1
                   [] got # {} /\ n <= Max(got) -> passed
                   [] OTHER -> passed \cup {p \in Max(got) + 1 .. n - 1 :
                         n - Max(got) >= Span \/ p - Max(got) > NackMax - Cardinality(DOMAIN nack.missing)}
    /\ UNCHANGED <<now, sent, pli, quit, owed, fires>>

Arrive(n) == Take(n) /\ net' = net \ {n} /\ UNCHANGED asked

\* The publisher sends a packet it was asked for again.
Repair(n) == Take(n) /\ asked' = asked \ {n} /\ UNCHANGED net

----------------------------------------------------------------------------
(* uplink, for this track: ask for what is missing, ask for a key frame    *)
(* when something was given up, and send the request that was held back.   *)

Tick ==
    LET t == now + 1
        gaveUp == Expired(nack, t) # {}
        p1 == IF gaveUp THEN Request(pli, TRUE, t) ELSE pli
        flush == p1.pending /\ t - p1.last >= Throttle
        p2 == IF flush THEN Request(p1, TRUE, t) ELSE p1 IN
    /\ now < MaxNow /\ now' = t
    /\ nack' = Due(nack, t)
    /\ asked' = asked \cup Packets(Wanted(nack, t))
    /\ quit' = quit \cup Packets(Expired(nack, t))
    /\ pli' = p2
    /\ fires' = IF p2.last = t THEN fires \cup {t} ELSE fires
    /\ owed' = CASE p2.last = t -> None
                 [] p2.last # t /\ gaveUp /\ owed = None -> t
                 [] OTHER -> owed
    /\ UNCHANGED <<sent, net, got, passed>>

Next ==
    \/ Send
    \/ \E n \in net : Lose(n) \/ Arrive(n)
    \/ \E n \in asked : Repair(n)
    \/ \E infra \in BOOLEAN : AskPli(infra)
    \/ Tick

Spec == Init /\ [][Next]_vars

----------------------------------------------------------------------------
(* Properties                                                               *)

UplinkTypeOK ==
    /\ net \subseteq First .. sent - 1 /\ got \subseteq First .. sent - 1
    /\ asked \subseteq First .. sent - 1 /\ owed \in {None} \cup 1 .. now
    /\ Cardinality(DOMAIN nack.missing) <= NackMax

\* NackUp and request_pli: the server pursues exactly the packets between the first
\* to come and the newest that have not come, but for those across too wide a gap,
\* those there was no room for and those it has given up.  Each is asked for
\* again in time, and giving one up, like every other need of the server's for a
\* key frame, leads to a request within the throttle time.  Two requests are
\* never closer than that.
GapsPursued ==
    /\ got # {} => Packets(DOMAIN nack.missing)
                     = {p \in Min(got) .. Max(got) : p \notin got \cup passed \cup quit}
    /\ \A s \in DOMAIN nack.missing :
          LET h == nack.missing[s] IN
          now - h.at <= GiveUp /\ now - (IF h.asked = None THEN h.at ELSE h.asked) < Resend
    /\ owed # None => now - owed < Throttle
    /\ \A f, g \in fires : f < g => g - f >= Throttle
=============================================================================
