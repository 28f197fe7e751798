----------------------------- MODULE FeatureParity -----------------------------
(***************************************************************************)
(* Three computations of the same features from the same packets: the      *)
(* pipeline of the FPGA (feature_pipeline.cpp), the server's own as a      *)
(* fallback and for its reflex lane (feature_echo_mt.py), and the test     *)
(* that recomputes a client's dumps (validate_features_off_packets.py).    *)
(*                                                                         *)
(* Everything is as wide as in the code, in bytes of Base values.  Which    *)
(* packet a result of the FPGA belongs to is the matter of EchoServer:     *)
(* here the n-th result is the n-th packet's.                              *)
(***************************************************************************)
EXTENDS Integers, Sequences

CONSTANTS
    None,
    Base,              \* values of a byte: 256
    NLevels,           \* of a side of the book: 16
    TauBurst, TauVol,  \* 200 000 and 2 000 000 ns
    Batches,           \* the deltas of a packet
    Times,             \* t_send_ns of a packet
    MaxSent,           \* bound: packets sent
    MaxFaults          \* bound: packets and replies lost, results not taken

Narrow == Base * Base     \* 16 bits
Wide == Narrow * Narrow   \* 32 bits
Long == Wide * Wide       \* 64 bits
MostDeltas == Base \div 2

Delta == [price : Int, qty : Int, level : Nat, side : {0, 1}, action : 0 .. 3]

(* Packets with more deltas than the pipeline takes are FeatureStream's. *)
ASSUME ParityAssumption ==
    /\ None \notin Nat
    /\ {Base, NLevels, TauBurst, TauVol} \subseteq Nat \ {0} /\ Base % 2 = 0
    /\ {MaxSent, MaxFaults} \subseteq Nat
    /\ \A b \in Batches : b \in Seq(Delta) /\ Len(b) \in 1 .. MostDeltas
    /\ Times \subseteq 1 .. Long - 1

VARIABLES
    sent,      \* packets sent
    faults,    \* faults so far
    wire,      \* the packet or the reply under way
    pl,        \* the static variables of feature_pipeline
    late,      \* its results that the server did not wait for
    ps,        \* the variables of processor_thread
    test,      \* the variables of the test
    compared,  \* history: what the test found in a reply and what it expected
    apart      \* history: why computations may differ from now on

parityVars == <<sent, faults, wire, pl, late, ps, test, compared, apart>>

-----------------------------------------------------------------------------
Lower(a, b) == IF a <= b THEN a ELSE b
Higher(a, b) == IF a <= b THEN b ELSE a
Clamp(x, low, high) == Higher(low, Lower(x, high))
Abs(x) == IF x < 0 THEN -x ELSE x

Int32(x) == ((x + Wide \div 2) % Wide) - Wide \div 2
Sat32(x) == Clamp(x, -(Wide \div 2), Wide \div 2 - 1)
Unbounded(x) == x

(* The division of C++, of a positive divisor. *)
Quotient(a, b) == IF a < 0 THEN -((-a) \div b) ELSE a \div b

(* Numbers of two, four and eight bytes in the other order of bytes. *)
Swapped16(x) == (x % Base) * Base + ((x \div Base) % Base)
Swapped32(x) == Swapped16(x % Narrow) * Narrow + Swapped16(x \div Narrow)
Swapped64(x) == Swapped32(x % Wide) * Wide + Swapped32(x \div Wide)

EmptySince(time) ==
    [book |-> [side \in {0, 1} |-> [level \in 0 .. NLevels - 1 |-> [p |-> 0, q |-> 0]]],
     ofi |-> 0, imb |-> 0, burst |-> 0, vol |-> 0, mid |-> 0, last |-> time]

(* The switch on the action of a delta is the same in all three, but for    *)
(* the width of a quantity.                                                 *)
LevelAfter(l, d, Fit(_)) ==
    [p |-> IF d.action = 0 THEN d.price ELSE l.p,
     q |-> Higher(0, CASE d.action = 0 -> d.qty
                       [] d.action \in {1, 2} -> Fit(l.q + d.qty)
                       [] d.action = 3 -> 0)]

Flow(d) == IF d.action \notin {1, 2} THEN 0 ELSE IF d.side = 0 THEN d.qty ELSE -d.qty

(* What a delta does to state s at the given level; FitQty and FitOfi are   *)
(* what becomes of a sum.                                                   *)
AtLevel(s, d, level, FitQty(_), FitOfi(_)) ==
    [s EXCEPT !.book[d.side][level] = LevelAfter(@, d, FitQty), !.ofi = FitOfi(@ + Flow(d))]

Scaled(s, Division(_, _)) ==
    LET bid == s.book[0][0].q
        ask == s.book[1][0].q
    IN IF bid + ask = 0 THEN 0
       ELSE Clamp(Division((bid - ask) * (Narrow \div 2), bid + ask),
                  -(Narrow \div 2), Narrow \div 2 - 1)

(* A state before the first delta and after each. *)
Along(Step(_, _), begin, deltas) ==
    LET state[k \in 0 .. Len(deltas)] ==
            IF k = 0 THEN begin ELSE Step(state[k - 1], deltas[k])
    IN state

Mid(s) == (s.book[0][0].p + s.book[1][0].p) \div 2

(* The two averages after dt; FitMid and Division are those of vol. *)
Averages(s, dt, FitMid(_), Division(_, _)) ==
    [s EXCEPT
        !.burst = Clamp(@ - (@ * dt) \div TauBurst + Narrow, 0, Wide - 1),
        !.vol = Clamp(@ + Division((Abs(FitMid(Mid(s) - s.mid)) * Narrow - @) * dt, TauVol),
                      0, Wide - 1),
        !.mid = Mid(s)]

Floor(a, b) == a \div b

Features(s) == [ofi |-> s.ofi, imb |-> s.imb, burst |-> s.burst, vol |-> s.vol]

-----------------------------------------------------------------------------
(* feature_pipeline.cpp: update_book and compute_features. *)
PlDelta(s, d) ==
    IF d.level < NLevels THEN AtLevel(s, d, d.level, Int32, Int32)
    ELSE [s EXCEPT !.ofi = Int32(@ + Flow(d))]

PlAlong(packet) == Along(PlDelta, pl, packet.deltas)

PlDt(t) == IF pl.last = 0 THEN 0 ELSE Lower((t - pl.last) % Long, Wide - 1)

(* Slip: the averages decay as if the last packet had just been received. *)
PlAfterNoDt(packet) ==
    LET s == PlAlong(packet)[Len(packet.deltas)]
    IN [Averages(s, 0, Int32, Quotient) EXCEPT !.imb = Scaled(s, Quotient), !.last = packet.t]

(* The reset bit is not looked at. *)
PlAfter(packet) ==
    LET s == PlAlong(packet)[Len(packet.deltas)]
    IN [Averages(s, PlDt(packet.t), Int32, Quotient)
        EXCEPT !.imb = Scaled(s, Quotient), !.last = packet.t]

-----------------------------------------------------------------------------
(* feature_echo_mt.py: processor_thread.  struct.unpack with ">" has put    *)
(* flags and time into the order of the host, and they are swapped again.   *)
Flags(packet) == (IF packet.reset THEN Narrow \div 2 ELSE 0) + Len(packet.deltas)

(* Slip: flags are swapped once only. *)
PsFlagsOnce(packet) == Flags(packet)

PsFlags(packet) == Swapped16(Flags(packet))

PsDelta(s, d) == IF d.level < NLevels THEN AtLevel(s, d, d.level, Unbounded, Unbounded) ELSE s

PsAfter(packet) ==
    LET flags == PsFlags(packet)
        n == Lower(flags % (Narrow \div 2), Len(packet.deltas))
        begin == IF flags >= Narrow \div 2 THEN EmptySince(None) ELSE ps
        s == [Along(PsDelta, begin, packet.deltas)[n]
              EXCEPT !.imb = 0, !.last = Swapped64(packet.t)]
        dt == IF begin.last = None THEN 0 ELSE Higher(0, s.last - begin.last)
        averaged == IF dt > 0 THEN Averages(s, dt, Unbounded, Floor) ELSE s
    IN [averaged EXCEPT !.imb = Scaled(s, Floor)]

(* The features of the FPGA lie least significant byte first in the buffer; *)
(* they are read as if most significant first, into the same variables.     *)
Misread(s, feat) ==
    [s EXCEPT !.ofi = Int32(Swapped32(feat.ofi % Wide)),
              !.imb = LET x == Swapped16(feat.imb % Narrow)
                      IN IF x >= Narrow \div 2 THEN x - Narrow ELSE x,
              !.burst = Swapped32(feat.burst),
              !.vol = Swapped32(feat.vol)]

-----------------------------------------------------------------------------
(* validate_features_off_packets.py. *)
TestDelta(s, d) ==
    AtLevel(s, d, IF d.level < NLevels THEN d.level ELSE 0, Unbounded, Sat32)

TestBegin(packet) == IF packet.reset THEN EmptySince(None) ELSE test

TestAfter(packet) ==
    LET begin == TestBegin(packet)
        s == [Along(TestDelta, begin, packet.deltas)[Len(packet.deltas)] EXCEPT !.last = packet.t]
        dt == IF begin.last = None THEN 0 ELSE Higher(0, packet.t - begin.last)
    IN [Averages(s, dt, Unbounded, Floor) EXCEPT !.imb = Scaled(s, Quotient)]

-----------------------------------------------------------------------------
Idle == [to |-> "nobody"]

ParityInit ==
    /\ sent = 0
    /\ faults = 0
    /\ wire = Idle
    /\ pl = EmptySince(0)
    /\ late = <<>>
    /\ ps = EmptySince(None)
    /\ test = EmptySince(None)
    /\ compared = None
    /\ apart = {}

Send(deltas, t, reset) ==
    /\ wire = Idle
    /\ sent < MaxSent
    /\ sent' = sent + 1
    /\ wire' = [to |-> "server", deltas |-> deltas, t |-> t, reset |-> reset]
    /\ UNCHANGED <<faults, pl, late, ps, test, compared, apart>>

(* What tells the computations apart from this packet on. *)
Before(packet, k) == PlAlong(packet)[k - 1]

OfiOverflows(packet, k) ==
    LET sum == Before(packet, k).ofi + Flow(packet.deltas[k]) IN Int32(sum) # sum

QtyOverflows(packet, k) ==
    LET d == packet.deltas[k]
        sum == Before(packet, k).book[d.side][d.level].q + d.qty
    IN d.level < NLevels /\ d.action \in {1, 2} /\ Int32(sum) # sum

VolDiffers(packet) ==
    LET moved == Mid(PlAlong(packet)[Len(packet.deltas)]) - pl.mid
        change == (Abs(moved) * Narrow - pl.vol) * PlDt(packet.t)
    IN Int32(moved) # moved \/ (change < 0 /\ change % TauVol # 0)

Causes(packet) ==
    LET index == DOMAIN packet.deltas IN
    (IF packet.reset /\ pl # EmptySince(0) THEN {"reset"} ELSE {})
    \cup (IF \E k \in index : packet.deltas[k].level >= NLevels THEN {"level"} ELSE {})
    \cup (IF \E k \in index : OfiOverflows(packet, k) THEN {"ofi"} ELSE {})
    \cup (IF \E k \in index : QtyOverflows(packet, k) THEN {"qty"} ELSE {})
    \cup (IF VolDiffers(packet) THEN {"vol"} ELSE {})
    \cup (IF pl.last # 0 /\ packet.t - pl.last \notin 0 .. Wide - 1 THEN {"time"} ELSE {})
    \cup (IF Len(packet.deltas) = MostDeltas THEN {"count"} ELSE {})

Arrived == wire.to = "server"

Reply(s) ==
    [to |-> "client", deltas |-> wire.deltas, t |-> wire.t, reset |-> wire.reset,
     found |-> Features(s)]

(* The server waits for a result, which is the oldest that it has not had.  *)
ServeFromPl ==
    /\ Arrived
    /\ pl' = PlAfter(wire)
    /\ LET results == Append(late, Features(pl')) IN
       /\ ps' = Misread(PsAfter(wire), Head(results))
       /\ late' = Tail(results)
    /\ wire' = Reply(ps')
    /\ apart' = apart \cup Causes(wire)
    /\ UNCHANGED <<sent, faults, test, compared>>

(* A total that does not fit the reply is an exception of struct.pack. *)
Fallback ==
    /\ faults < MaxFaults
    /\ faults' = faults + 1
    /\ ps' = PsAfter(wire)
    /\ wire' = IF Int32(ps'.ofi) = ps'.ofi THEN Reply(ps') ELSE Idle
    /\ UNCHANGED <<sent, test, compared>>

(* The time limit passes, and the result is left for the next packet...     *)
ServeLate ==
    /\ Arrived
    /\ pl' = PlAfter(wire)
    /\ late' = Append(late, Features(pl'))
    /\ apart' = apart \cup Causes(wire) \cup {"late"}
    /\ Fallback

(* ... or an exception of a register access keeps the packet from the FPGA. *)
ServeUnfed ==
    /\ Arrived
    /\ apart' = apart \cup {"unfed"}
    /\ Fallback
    /\ UNCHANGED <<pl, late>>

(* The reply is dumped, and the test recomputes it from the packet's dump. *)
Record ==
    /\ wire.to = "client"
    /\ test' = TestAfter(wire)
    /\ compared' = [found |-> wire.found, expected |-> Features(test')]
    /\ wire' = Idle
    /\ UNCHANGED <<sent, faults, pl, late, ps, apart>>

(* A datagram is lost. *)
Lose ==
    /\ wire # Idle
    /\ faults < MaxFaults
    /\ faults' = faults + 1
    /\ apart' = IF wire.to = "client" THEN apart \cup {"reply"} ELSE apart
    /\ wire' = Idle
    /\ UNCHANGED <<sent, pl, late, ps, test, compared>>

ParityNext ==
    \/ \E deltas \in Batches, t \in Times, reset \in BOOLEAN : Send(deltas, t, reset)
    \/ ServeFromPl \/ ServeLate \/ ServeUnfed
    \/ Record \/ Lose

ParitySpec == ParityInit /\ [][ParityNext]_parityVars

-----------------------------------------------------------------------------
(* The test expects what the FPGA computed, field by field, in the other    *)
(* order of bytes, although it starts over at a reset and the FPGA does     *)
(* not, and although it clamps, floors and limits what the FPGA wraps,      *)
(* truncates and drops: unless one of these was seen to happen.             *)
TestAgrees ==
    compared # None =>
        LET missed == {"reset", "reply", "late", "unfed"}
            expected == Misread(compared.expected, compared.expected)
            found == compared.found
        IN /\ apart \cap (missed \cup {"ofi"}) = {} => found.ofi = expected.ofi
           /\ apart \cap (missed \cup {"level", "qty"}) = {} => found.imb = expected.imb
           /\ apart \cap (missed \cup {"time"}) = {} => found.burst = expected.burst
           /\ apart \cap (missed \cup {"level", "time", "vol"}) = {} => found.vol = expected.vol

(* The reflex lane and the FPGA see the same book, across time-outs, lost   *)
(* datagrams and resets: the server does not see the reset bit either.      *)
LanesAgree ==
    apart \cap {"unfed", "qty", "count"} = {} => ps.book = pl.book

=============================================================================
