------------------------------ MODULE Feedback ------------------------------
(***************************************************************************)
(* What the media server tells a publisher about the packets it received   *)
(* (oxsfud/src/rtcp/core.rs): the receiver report of RecvStats, with the   *)
(* greatest number and the packets lost, and the transport feedback of     *)
(* TwccRecv, with the arrival time of every packet.                        *)
(*                                                                         *)
(* The publisher counts its packets First, First + 1, ...; a packet        *)
(* carries its number modulo M (the number of the stream and that of the   *)
(* transport are one here).  The network loses and reorders packets.  Left *)
(* out are the jitter, the loss since the previous report and the counter  *)
(* of feedback messages.                                                   *)
(***************************************************************************)
EXTENDS Integers, Sequences, FiniteSets, Functions, FiniteSetsExt, SequencesExt

CONSTANTS M,                        \* numbers on the wire, 2^16
          First,
          MinSequential, Dropout, Misorder,   \* MIN_SEQUENTIAL, MAX_DROPOUT, MAX_MISORDER
          DeltaUnit,                     \* 250 us, the unit of a delta
          Reference,                \* 64 ms, the unit of the reference time
          DeltaMax,                 \* greatest delta, 2^15 - 1
          Keep,                     \* KEEP_US
          MaxPkt, MaxNet, MaxLoss, MaxNow   \* bounds: packets not lost, under way, lost; time

VARIABLES
    now,
    sent, net,         \* number of the next packet; packets under way
    recv,              \* RecvStats
    twcc,              \* TwccRecv
    counted, origin,   \* packets counted since the statistics began, at this packet
    seen,              \* arrival time of every packet
    heard              \* arrival times as the publisher has read them

vars == <<now, sent, net, recv, twcc, counted, origin, seen, heard>>

None == -1000

Init ==
    /\ now = 0 /\ sent = First /\ net = {}
    /\ recv = [started |-> FALSE, max |-> 0, cycles |-> 0, base |-> 0, bad |-> 0, probation |-> 0, received |-> 0]
    /\ twcc = [arrivals |-> <<>>, last |-> None, start |-> None, newest |-> 0]
    /\ counted = {} /\ origin = None /\ seen = <<>> /\ heard = <<>>

----------------------------------------------------------------------------
(* RecvStats                                                                *)

InitSeq(r, seq) == [r EXCEPT !.base = seq, !.max = seq, !.bad = M + 1, !.cycles = 0, !.received = 0]

\* The first packet: the statistics begin.
Begin(r, seq) ==
    IF r.started THEN r
    ELSE [InitSeq(r, seq) EXCEPT !.started = TRUE, !.max = (seq - 1) % M, !.probation = MinSequential]

\* Until enough packets came in sequence.
Probe(r, seq) ==
    LET p == IF seq = (r.max + 1) % M THEN r.probation - 1 ELSE MinSequential - 1 IN
    IF p = 0 THEN [InitSeq(r, seq) EXCEPT !.probation = 0, !.received = 1]
    ELSE [r EXCEPT !.probation = p, !.max = seq]

\* A greatest number that grows past the last number starts a new cycle.
Advance(r, seq) == [r EXCEPT !.max = seq, !.cycles = IF seq < r.max THEN @ + M ELSE @]

\* update_seq: the statistics after it and whether it counted the packet.
UpdateSeq(r0, seq) ==
    LET r == Begin(r0, seq)
        delta == (seq - r.max) % M
        count(x) == [recv |-> [x EXCEPT !.received = @ + 1], ok |-> TRUE] IN
    CASE r.probation > 0 -> LET p == Probe(r, seq) IN [recv |-> p, ok |-> p.probation = 0]
      [] r.probation = 0 /\ delta < Dropout -> count(Advance(r, seq))
      [] r.probation = 0 /\ delta >= Dropout /\ delta <= M - Misorder ->
            IF seq = r.bad THEN count(InitSeq(r, seq))
            ELSE [recv |-> [r EXCEPT !.bad = (seq + 1) % M], ok |-> FALSE]
      [] OTHER -> count(r)

\* report: there is one once the packets came in sequence.
Reports == recv.started /\ recv.probation = 0
ExtendedMax == recv.cycles + recv.max
Lost == ExtendedMax - recv.base + 1 - recv.received

----------------------------------------------------------------------------
(* TwccRecv                                                                 *)

Signed(d) == LET x == d % M IN IF 2 * x >= M THEN x - M ELSE x

Record(t, seq) ==
    LET u == IF t.last = None THEN seq ELSE t.last + Signed(seq - t.last)
        newest == Max({t.newest, now})
        start == IF t.start = None \/ u < t.start THEN u ELSE t.start
        all == IF u \in DOMAIN t.arrivals THEN t.arrivals
               ELSE [k \in DOMAIN t.arrivals \cup {u} |-> IF k = u THEN now ELSE t.arrivals[k]] IN
    [arrivals |-> Restrict(all, {k \in DOMAIN all : all[k] >= newest - Keep \/ k >= start}),
     last |-> IF t.last = None THEN u ELSE Max({t.last, u}),
     start |-> start, newest |-> newest]

Open(t) == {k \in DOMAIN t.arrivals : t.start # None /\ k >= t.start}
Pending(t) == Open(t) # {}

\* The next delta is taken from the true time.
FaultStatus(f, at) ==
    LET d == (at - f.last + DeltaUnit \div 2) \div DeltaUnit IN
    CASE f.full -> f
      [] ~f.full /\ at = None -> [f EXCEPT !.symbols = Append(@, None)]
      [] ~f.full /\ at # None /\ d \notin -DeltaMax - 1 .. DeltaMax -> [f EXCEPT !.full = TRUE]
      [] OTHER -> [f EXCEPT !.symbols = Append(@, d), !.last = at]

\* One status of build: a packet whose delta does not fit ends the message.  The next
\* delta is taken from the sum of the deltas, as the publisher will add them up.
Status(f, at) ==
    LET d == (at - f.last + DeltaUnit \div 2) \div DeltaUnit IN
    CASE f.full -> f
      [] ~f.full /\ at = None -> [f EXCEPT !.symbols = Append(@, None)]
      [] ~f.full /\ at # None /\ d \notin -DeltaMax - 1 .. DeltaMax -> [f EXCEPT !.full = TRUE]
      [] OTHER -> [f EXCEPT !.symbols = Append(@, d), !.last = @ + d * DeltaUnit]

\* A message does not end with packets that have not come.
Trim(s) == LET came == {i \in DOMAIN s : s[i] # None} IN SubSeq(s, 1, IF came = {} THEN 0 ELSE Max(came))

\* build: statuses from the start of the window to the greatest number.
Build(t) ==
    LET ref == t.arrivals[Min(Open(t))] \div Reference
        times == [i \in 1 .. Max(Open(t)) - t.start + 1 |->
                     IF t.start + i - 1 \in DOMAIN t.arrivals THEN t.arrivals[t.start + i - 1] ELSE None] IN
    [base |-> t.start % M, ref |-> ref,
     symbols |-> Trim(FoldLeft(Status, [full |-> FALSE, symbols |-> <<>>, last |-> ref * Reference], times).symbols)]

\* The loop of uplink: messages until nothing is pending.
RECURSIVE Drain(_, _)
Drain(t, msgs) ==
    LET m == Build(t) IN
    IF Pending(t) /\ m.symbols # <<>> THEN Drain([t EXCEPT !.start = @ + Len(m.symbols)], Append(msgs, m))
    ELSE [twcc |-> t, msgs |-> msgs]

\* The publisher adds up the deltas of a message; the numbers in it are of packets it sent.
Heard(m) ==
    LET base == CHOOSE p \in sent - M .. sent - 1 : p % M = m.base
        came == {i \in DOMAIN m.symbols : m.symbols[i] # None}
        time(i) == m.ref * Reference + DeltaUnit * MapThenSumSet(LAMBDA j : m.symbols[j], {j \in came : j <= i}) IN
    [p \in {base + i - 1 : i \in came} |-> time(p - base + 1)]

----------------------------------------------------------------------------
\* The network loses the next k packets of the publisher and takes the one after them.
Send(k) ==
    /\ Cardinality(net) < MaxNet /\ Cardinality(net \cup DOMAIN seen) < MaxPkt /\ sent + k < First + MaxPkt + MaxLoss
    /\ net' = net \cup {sent + k} /\ sent' = sent + k + 1
    /\ UNCHANGED <<now, recv, twcc, counted, origin, seen, heard>>

\* on_rtp: twcc_in, and on_ingress with RecvStats::update.
Arrive(n) ==
    LET u == UpdateSeq(recv, n % M)
        began == u.ok /\ u.recv.received = 1 IN
    /\ net' = net \ {n}
    /\ recv' = u.recv
    /\ twcc' = Record(twcc, n % M)
    /\ counted' = CASE began -> {n} [] u.ok /\ ~began -> counted \cup {n} [] OTHER -> counted
    /\ origin' = IF began THEN n ELSE origin
    /\ seen' = [p \in DOMAIN seen \cup {n} |-> IF p = n THEN now ELSE seen[p]]
    /\ UNCHANGED <<now, sent, heard>>

Pass ==
    /\ now < MaxNow /\ now' = now + 1
    /\ UNCHANGED <<sent, net, recv, twcc, counted, origin, seen, heard>>

\* uplink, when feedback is due.
Tell ==
    LET d == Drain(twcc, <<>>)
        add(h, m) == LET new == Heard(m) IN
                     [p \in DOMAIN h \cup DOMAIN new |-> IF p \in DOMAIN new THEN new[p] ELSE h[p]] IN
    /\ Pending(twcc)
    /\ twcc' = d.twcc
    /\ heard' = FoldLeft(add, heard, d.msgs)
    /\ UNCHANGED <<now, sent, net, recv, counted, origin, seen>>

Next ==
    \/ \E k \in 0 .. MaxLoss : Send(k)
    \/ \E n \in net : Arrive(n)
    \/ Pass
    \/ Tell

Spec == Init /\ [][Next]_vars

----------------------------------------------------------------------------
(* Properties                                                               *)

FeedbackTypeOK ==
    /\ recv.max \in 0 .. M - 1 /\ recv.probation \in 0 .. MinSequential /\ recv.received \in Nat
    /\ DOMAIN heard \subseteq First .. sent - 1 /\ DOMAIN seen \subseteq First .. sent - 1

\* RecvStats::report and TwccRecv::build: what the publisher is told is true.  The
\* greatest number and the loss of a report are those of the packets counted, also
\* after the numbers wrap; a time in a feedback is within half a unit of the true
\* one, however many deltas were added up; and every packet that came is in some
\* feedback or will be in the next.
ReportsTrue ==
    /\ Reports => /\ ExtendedMax - recv.base = Max(counted) - origin
                  /\ Lost = Cardinality({p \in origin .. Max(counted) : p \notin counted})
                              - Cardinality({p \in counted : p < origin})
    /\ \A p \in DOMAIN heard : p \in DOMAIN seen /\ 2 * (heard[p] - seen[p]) \in -DeltaUnit .. DeltaUnit
    /\ {p % M : p \in DOMAIN seen \ DOMAIN heard} \subseteq {k % M : k \in Open(twcc)}
=============================================================================
