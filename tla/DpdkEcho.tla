------------------------------- MODULE DpdkEcho -------------------------------
(***************************************************************************)
(* The DPDK forwarder between two ports (host/dpdk/echo-io/main.c): it     *)
(* seeds frames, then moves what one port received to the other until a    *)
(* signal.  Buffers (mbufs) are counted, not named: they are in the pool,  *)
(* posted to a receive ring, received, queued for transmission, or held in *)
(* the array of the loop.                                                  *)
(*                                                                         *)
(* The ports work at any time between two calls of the loop.  They are     *)
(* cabled to each other; other traffic may come in as well, as they are    *)
(* in promiscuous mode.  The poll mode driver is outside the repository.   *)
(***************************************************************************)
EXTENDS Integers

CONSTANTS
    NumMbufs,   \* NUM_MBUFS, 16384
    RxDesc,     \* RX_DESC_DEFAULT, 1024
    TxDesc,     \* TX_DESC_DEFAULT, 1024
    BurstSize,  \* BURST_SIZE, 64
    Foreign,    \* bound: frames of other origin that reach the ports
    MaxRx       \* bound: no further round of the loop after so many frames

ASSUME EchoAssumption ==
    /\ {NumMbufs, Foreign, MaxRx} \subseteq Nat
    /\ {RxDesc, TxDesc, BurstSize} \subseteq Nat \ {0}
    /\ NumMbufs >= 2 * RxDesc    \* else init_port fails and nothing starts

Port == {0, 1}
Other(p) == 1 - p

VARIABLES
    pool,     \* free mbufs
    posted,   \* mbufs on each receive ring, empty
    rxq,      \* frames received on each port and not yet fetched
    txq,      \* frames on each transmit ring
    held,     \* frames in `pkts' (n0 or n1 of the round)
    pc,       \* "seed" 0, 1, then "rx" 0, "tx" 0, "rx" 1, "tx" 1, "check", ...
    running,  \* keep_running
    rx, tx,   \* rx0, rx1 and tx0, tx1
    drops,
    seeded,   \* history: frames sent by the seeding
    foreign,  \* history: frames of other origin, by the port they came to
    lost      \* history: frames that found no receive descriptor, or a bad cable

ringVars == <<pool, posted, rxq, txq>>
statVars == <<rx, tx, drops>>
vars == <<ringVars, held, pc, running, statVars, seeded, foreign, lost>>

At(label, p) == pc = <<label, p>>
GoTo(label, p) == pc' = <<label, p>>

Smaller(m, n) == IF m <= n THEN m ELSE n

Init ==
    /\ posted = [p \in Port |-> RxDesc]
    /\ pool = NumMbufs - 2 * RxDesc
    /\ rxq = [p \in Port |-> 0]
    /\ txq = [p \in Port |-> 0]
    /\ held = 0
    /\ pc = <<"seed", 0>>
    /\ running = TRUE
    /\ rx = [p \in Port |-> 0]
    /\ tx = [p \in Port |-> 0]
    /\ drops = 0
    /\ seeded = 0
    /\ foreign = [p \in Port |-> 0]
    /\ lost = 0

-----------------------------------------------------------------------------
(* The ports.  A frame that arrives takes a posted mbuf or is lost; a frame *)
(* sent frees its mbuf; the driver posts fresh mbufs while the pool lasts.  *)
Receive(p) ==
    /\ posted[p] > 0
    /\ posted' = [posted EXCEPT ![p] = @ - 1]
    /\ rxq' = [rxq EXCEPT ![p] = @ + 1]
    /\ UNCHANGED lost

Lose(p) ==
    /\ lost' = lost + 1
    /\ UNCHANGED <<posted, rxq>>

Transmit(p) ==
    /\ txq[p] > 0
    /\ txq' = [txq EXCEPT ![p] = @ - 1]
    /\ pool' = pool + 1
    /\ Receive(Other(p)) \/ Lose(Other(p))
    /\ UNCHANGED <<held, pc, running, statVars, seeded, foreign>>

Arrive(p) ==
    /\ foreign[0] + foreign[1] < Foreign
    /\ foreign' = [foreign EXCEPT ![p] = @ + 1]
    /\ Receive(p) \/ Lose(p)
    /\ UNCHANGED <<pool, txq, held, pc, running, statVars, seeded>>

Refill(p) ==
    /\ pool > 0
    /\ posted[p] + rxq[p] < RxDesc
    /\ pool' = pool - 1
    /\ posted' = [posted EXCEPT ![p] = @ + 1]
    /\ UNCHANGED <<rxq, txq, held, pc, running, statVars, seeded, foreign, lost>>

Sigint ==
    /\ running
    /\ running' = FALSE
    /\ UNCHANGED <<ringVars, held, pc, statVars, seeded, foreign, lost>>

Space(p) == TxDesc - txq[p]

-----------------------------------------------------------------------------
(* Direction d of the seeding: as many mbufs as the pool has, up to a       *)
(* burst, are given to the other port, and what its ring refuses is freed.  *)
(* Slip: the ring is filled.                                                *)
SeedFillsRing(d) ==
    /\ At("seed", d)
    /\ LET n == Smaller(TxDesc, pool)
           sent == Smaller(n, Space(Other(d)))
       IN /\ txq' = [txq EXCEPT ![Other(d)] = @ + sent]
          /\ pool' = pool - sent
          /\ seeded' = seeded + sent
    /\ IF d = 0 THEN GoTo("seed", 1) ELSE GoTo("check", 0)
    /\ UNCHANGED <<posted, rxq, held, running, statVars, foreign, lost>>

Seed(d) ==
    /\ At("seed", d)
    /\ LET n == Smaller(BurstSize, pool)
           sent == Smaller(n, Space(Other(d)))
       IN /\ txq' = [txq EXCEPT ![Other(d)] = @ + sent]
          /\ pool' = pool - sent
          /\ seeded' = seeded + sent
    /\ IF d = 0 THEN GoTo("seed", 1) ELSE GoTo("check", 0)
    /\ UNCHANGED <<posted, rxq, held, running, statVars, foreign, lost>>

(* Slip: the flag is read once, before the loop. *)
CheckOnce ==
    /\ At("check", 0)
    /\ rx[0] + rx[1] < MaxRx
    /\ GoTo("rx", 0)
    /\ UNCHANGED <<ringVars, held, running, statVars, seeded, foreign, lost>>

Check ==
    /\ At("check", 0)
    /\ IF running THEN rx[0] + rx[1] < MaxRx /\ GoTo("rx", 0)
                  ELSE GoTo("stopped", 0)
    /\ UNCHANGED <<ringVars, held, running, statVars, seeded, foreign, lost>>

AfterPort(p) == IF p = 0 THEN <<"rx", 1>> ELSE <<"check", 0>>

(* rte_eth_rx_burst on port p; the frames are the loop's until it sends     *)
(* or frees them.                                                           *)
RxBurst(p) ==
    /\ At("rx", p)
    /\ held' = Smaller(BurstSize, rxq[p])
    /\ rxq' = [rxq EXCEPT ![p] = @ - held']
    /\ pc' = IF held' = 0 THEN AfterPort(p) ELSE <<"tx", p>>
    /\ UNCHANGED <<pool, posted, txq, running, statVars, seeded, foreign, lost>>

(* Slips: the frames the ring refused are not freed; the last frame of a    *)
(* full burst is dropped.                                                   *)
TxBurstLeaks(p) ==
    /\ At("tx", p)
    /\ LET sent == Smaller(held, Space(Other(p))) IN
       /\ txq' = [txq EXCEPT ![Other(p)] = @ + sent]
       /\ tx' = [tx EXCEPT ![Other(p)] = @ + sent]
       /\ drops' = drops + (held - sent)
    /\ rx' = [rx EXCEPT ![p] = @ + held]
    /\ held' = 0
    /\ pc' = AfterPort(p)
    /\ UNCHANGED <<pool, posted, rxq, running, seeded, foreign, lost>>

TxBurstShort(p) ==
    /\ At("tx", p)
    /\ LET sent == Smaller(Smaller(held, BurstSize - 1), Space(Other(p))) IN
       /\ txq' = [txq EXCEPT ![Other(p)] = @ + sent]
       /\ pool' = pool + (held - sent)
       /\ tx' = [tx EXCEPT ![Other(p)] = @ + sent]
       /\ drops' = drops + (held - sent)
    /\ rx' = [rx EXCEPT ![p] = @ + held]
    /\ held' = 0
    /\ pc' = AfterPort(p)
    /\ UNCHANGED <<posted, rxq, running, seeded, foreign, lost>>

TxBurst(p) ==
    /\ At("tx", p)
    /\ LET sent == Smaller(held, Space(Other(p))) IN
       /\ txq' = [txq EXCEPT ![Other(p)] = @ + sent]
       /\ pool' = pool + (held - sent)
       /\ tx' = [tx EXCEPT ![Other(p)] = @ + sent]
       /\ drops' = drops + (held - sent)
    /\ rx' = [rx EXCEPT ![p] = @ + held]
    /\ held' = 0
    /\ pc' = AfterPort(p)
    /\ UNCHANGED <<posted, rxq, running, seeded, foreign, lost>>

-----------------------------------------------------------------------------
Forwarder ==
    \/ \E p \in Port : Seed(p) \/ RxBurst(p) \/ TxBurst(p)
    \/ Check

Next ==
    \/ Forwarder
    \/ Sigint
    \/ \E p \in Port : Transmit(p) \/ Arrive(p) \/ Refill(p)

Spec == Init /\ [][Next]_vars

(* The loop polls and never waits; nothing is assumed of the ports. *)
FairSpec == Spec /\ WF_vars(Forwarder)

-----------------------------------------------------------------------------
Labels == ({"seed", "rx", "tx"} \X Port) \cup {<<"check", 0>>, <<"stopped", 0>>}

(* No ring holds more than its descriptors, the array no more than a burst. *)
TypeOK ==
    /\ pool \in 0 .. NumMbufs
    /\ \A p \in Port : posted[p] + rxq[p] <= RxDesc
    /\ posted \in [Port -> 0 .. RxDesc]
    /\ rxq \in [Port -> 0 .. RxDesc]
    /\ txq \in [Port -> 0 .. TxDesc]
    /\ held \in 0 .. BurstSize
    /\ pc \in Labels
    /\ held > 0 => pc[1] = "tx"
    /\ running \in BOOLEAN
    /\ rx \in [Port -> Nat] /\ tx \in [Port -> Nat]
    /\ drops \in Nat /\ seeded \in Nat /\ foreign \in [Port -> 0 .. Foreign] /\ lost \in Nat

(* No mbuf is leaked or freed twice, whichever ring refuses or overflows:   *)
(* what tx_burst does not take is freed by the loop (main.c:127, 134).      *)
MbufsConserved ==
    pool + posted[0] + posted[1] + rxq[0] + rxq[1] + txq[0] + txq[1] + held = NumMbufs

(* Frames taken in are under way, dropped or lost: the printed drops are    *)
(* the whole loss inside the program.                                       *)
FramesAccounted ==
    rxq[0] + rxq[1] + txq[0] + txq[1] + held + drops + lost
        = seeded + foreign[0] + foreign[1]

(* Frames received on p and refused by the other port's ring. *)
Dropped(p) == rx[p] - tx[Other(p)]

(* However small the rings, a direction drops no more frames than others    *)
(* sent into it: it goes on carrying what its ring accepted when seeding,   *)
(* so drops in a closed loop do not come from the forwarder.                *)
DropsAreForeign ==
    /\ \A p \in Port : Dropped(p) <= foreign[p]
    /\ drops = Dropped(0) + Dropped(1)

(* With mbufs for the rings, for a burst per direction and for the frames   *)
(* of others the driver can always post again, so frames do not die of an   *)
(* empty pool.                                                              *)
RefillNeverFails ==
    NumMbufs > 2 * RxDesc + 2 * BurstSize + foreign[0] + foreign[1] => pool > 0

(* A signal ends the loop, however busy the ports are. *)
StopsOnSignal == ~ running ~> At("stopped", 0)

=============================================================================
