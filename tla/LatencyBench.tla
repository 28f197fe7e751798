----------------------------- MODULE LatencyBench -----------------------------
(***************************************************************************)
(* The latency overlays, clock by clock: a traffic generator, a stage that *)
(* scores beats, a sink, and a free-running counter that is started and    *)
(* stopped by their strobes (fpga/ip/traffic_gen, fpga/ip/feature_pipe),   *)
(* with the scripts that drive them over AXI-Lite (fpga/pynq/soc_latency_  *)
(* diag_core.py, _nodma.py and _mlp_only.py).                              *)
(*                                                                         *)
(* A packet is the number of its iteration; its words are counted in beats *)
(* of the width converter.  A strobe of the generator is assigned TRUE and *)
(* never FALSE again before the next call: the wire may keep that value or *)
(* carry it for one clock, depending on what the synthesis makes of it.    *)
(***************************************************************************)
EXTENDS Naturals

CONSTANTS
    None,
    Overlays,    \* a subset of {"core", "nodma", "mlp", "tgen"}
    Wires,       \* a subset of {"held", "strobe"}
    Beats,       \* sizes of packets
    Iterations,  \* bound: measurements
    MaxCycles    \* bound of the counters

ASSUME BenchAssumption ==
    /\ None \notin Nat /\ None \notin [pkt : Nat, last : BOOLEAN]
    /\ Overlays \subseteq {"core", "nodma", "mlp", "tgen"}
    /\ Wires \subseteq {"held", "strobe"}
    /\ Beats \subseteq Nat
    /\ {Iterations, MaxCycles} \subseteq Nat

VARIABLES
    overlay,  \* what stops the counter: the sink, the MLP or the generator
    wire,     \* what the generator's strobes do between assignments
    tgen,     \* the generator: its call, its strobes and its ap_done bit
    feat,     \* the beat between the generator and the scoring stage, or None
    mlp,      \* the scoring stage: its beat, its strobe and its ISR bit
    score,    \* the score on its way to the sink, or None
    sink,     \* done_pulse of the sink
    timer,    \* the counter
    pc,       \* where the script is
    iter,     \* the iteration, which names its packet
    size,     \* its beats
    ready,    \* a clock has passed since the script's last access
    quiet,    \* history: the fabric was empty when the iteration began
    stale,    \* history: the ISR bit was set after the script had "cleared" it
    early,    \* history: the iteration before read before its one beat had ended
    watch,    \* history: a stop watch on the iteration's packet
    reading   \* what the script took for the latency of the iteration, and
              \* (history) whether its packet had ended by then; or None

fabric == <<tgen, feat, mlp, score, sink, timer, watch>>
vars == <<overlay, wire, fabric, pc, iter, size, ready, quiet, stale, early, reading>>

Beat == [pkt : 1 .. Iterations, last : BOOLEAN]

Init ==
    /\ overlay \in Overlays
    /\ wire \in Wires
    /\ tgen = [at |-> "idle", start |-> FALSE, left |-> 0, pkt |-> 1,
               hw_start |-> FALSE, last |-> FALSE, ap_done |-> FALSE]
    /\ feat = None
    /\ mlp = [beat |-> None, done |-> FALSE, isr |-> FALSE]
    /\ score = None
    /\ sink = FALSE
    /\ timer = [reset |-> FALSE, running |-> FALSE, counter |-> 0]
    /\ pc = "clear"
    /\ iter = 1
    /\ size \in Beats
    /\ ready = TRUE
    /\ quiet = FALSE
    /\ stale = FALSE
    /\ early = FALSE
    /\ watch = [running |-> FALSE, ended |-> FALSE, cycles |-> 0]
    /\ reading = None

-----------------------------------------------------------------------------
(* One clock of each block, from the wires as they were before it.          *)

Emitting == tgen.at = "emit" /\ tgen.left > 0 /\ feat = None

(* What a strobe shows in a clock that does not assign it. *)
Kept(level) == wire = "held" /\ level

(* traffic_gen_const and traffic_gen.  ap_start stays set until the call    *)
(* has ended, so a start written during it is lost.                         *)
TGenClock ==
    \/ /\ tgen.at = "idle"
       /\ tgen' = IF tgen.start
                  THEN [tgen EXCEPT !.at = "raise", !.left = size, !.pkt = iter,
                                    !.hw_start = FALSE, !.last = FALSE]
                  ELSE [tgen EXCEPT !.hw_start = Kept(@), !.last = Kept(@)]
    \/ /\ tgen.at = "raise"
       /\ tgen' = [tgen EXCEPT !.at = "emit", !.hw_start = TRUE]
    \/ /\ tgen.at = "emit" /\ tgen.left > 0
       /\ tgen' = [tgen EXCEPT !.left = IF Emitting THEN @ - 1 ELSE @,
                               !.hw_start = Kept(@),
                               !.last = (Emitting /\ tgen.left = 1) \/ Kept(@)]
    \/ /\ tgen.at = "emit" /\ tgen.left = 0
       /\ tgen' = [tgen EXCEPT !.at = "idle", !.start = FALSE, !.ap_done = TRUE,
                               !.hw_start = Kept(@), !.last = Kept(@)]

(* mlp_core_stream, or the inference path of mlp_infer_stream: one beat per *)
(* call, after any number of clocks when `finish' says so.  The strobe is   *)
(* lowered at the start of the next call.                                   *)
MlpClock(finish) ==
    mlp' = [beat |-> IF finish THEN None ELSE IF mlp.beat = None THEN feat ELSE mlp.beat,
            done |-> finish,
            isr |-> mlp.isr \/ finish]

Handshakes(finish) ==
    /\ feat' = IF Emitting THEN [pkt |-> tgen.pkt, last |-> tgen.left = 1]
               ELSE IF mlp.beat = None THEN None ELSE feat
    /\ score' = IF finish THEN mlp.beat ELSE None

(* Slip: the sink pulses for every word. *)
SinkClockEachWord == sink' = (score # None)

(* score_sink: a pulse when the word it takes is the last. *)
SinkClock == sink' = (score # None /\ score.last)

Stop == CASE overlay \in {"core", "nodma"} -> sink
          [] overlay = "mlp" -> mlp.done
          [] overlay = "tgen" -> tgen.last

(* latency_timer: start, then stop, then count. *)
TimerClock ==
    LET running == (tgen.hw_start \/ timer.running) /\ ~ Stop
    IN timer' = IF timer.reset
                THEN [timer EXCEPT !.running = FALSE, !.counter = 0]
                ELSE [timer EXCEPT !.running = running,
                                   !.counter = IF running THEN @ + 1 ELSE @]

(* The stop watch starts with the generator's strobe for this packet and    *)
(* stops with the strobe that ends it.                                      *)
Ends(finish) ==
    CASE overlay \in {"core", "nodma"} -> score # None /\ score.last /\ score.pkt = iter
      [] overlay = "mlp" -> finish /\ mlp.beat.pkt = iter
      [] overlay = "tgen" -> Emitting /\ tgen.left = 1 /\ tgen.pkt = iter

WatchClock(finish) ==
    watch' = [running |-> \/ tgen.at = "raise" /\ tgen.pkt = iter
                          \/ watch.running /\ ~ Ends(finish),
              ended |-> watch.ended \/ (watch.running /\ Ends(finish)),
              cycles |-> IF watch.running THEN watch.cycles + 1 ELSE watch.cycles]

Clock ==
    /\ timer.counter < MaxCycles /\ watch.cycles < MaxCycles
    /\ \E finish \in BOOLEAN :
          /\ finish => mlp.beat # None /\ score = None
          /\ TGenClock /\ MlpClock(finish) /\ Handshakes(finish)
          /\ SinkClock /\ TimerClock /\ WatchClock(finish)
    /\ ready' = TRUE
    /\ UNCHANGED <<overlay, wire, pc, iter, size, quiet, stale, early, reading>>

-----------------------------------------------------------------------------
(* run_fpga_once.  An access to a register takes at least a clock.          *)
Access(from, to) ==
    /\ pc = from
    /\ ready
    /\ pc' = to
    /\ ready' = FALSE

FabricQuiet ==
    /\ tgen.at = "idle" /\ ~ tgen.start
    /\ feat = None /\ mlp.beat = None /\ score = None
    /\ tgen.hw_start => tgen.last

(* Slip: the register is not written, or (as in run_cycle_bench.py) twice.  *)
ClearNothing ==
    /\ Access("clear", "reset")
    /\ quiet' = FabricQuiet
    /\ stale' = mlp.isr
    /\ UNCHANGED <<overlay, wire, fabric, iter, size, early, reading>>

(* "Clear any stale MLP done/ready".  A one written to a bit of the ISR     *)
(* toggles it: a bit that was set is cleared, a bit that was clear is set.  *)
(* (The core overlay has no such register, and its script does not look.)   *)
ClearISR ==
    /\ Access("clear", "reset")
    /\ mlp' = [mlp EXCEPT !.isr = ~ @]
    /\ quiet' = FabricQuiet
    /\ stale' = ~ mlp.isr
    /\ UNCHANGED <<overlay, wire, tgen, feat, score, sink, timer, watch, iter, size, early, reading>>

(* reset_fabric_timer_and_start: the reset register is raised and lowered. *)
ResetTimer ==
    /\ \/ Access("reset", "release") /\ timer' = [timer EXCEPT !.reset = TRUE]
       \/ Access("release", "start") /\ timer' = [timer EXCEPT !.reset = FALSE]
    /\ UNCHANGED <<overlay, wire, tgen, feat, mlp, score, sink, watch, iter, size, quiet, stale, early, reading>>

StartTGen ==
    /\ Access("start", "tgen")
    /\ tgen' = [tgen EXCEPT !.start = TRUE]
    /\ watch' = [running |-> FALSE, ended |-> FALSE, cycles |-> 0]
    /\ UNCHANGED <<overlay, wire, feat, mlp, score, sink, timer, iter, size, quiet, stale, early, reading>>

(* Reading AP_CTRL clears ap_done.  The core script then sleeps.            *)
TGenIsDone ==
    /\ Access("tgen", IF overlay = "core" THEN "read" ELSE "isr")
    /\ tgen.ap_done
    /\ tgen' = [tgen EXCEPT !.ap_done = FALSE]
    /\ UNCHANGED <<overlay, wire, feat, mlp, score, sink, timer, watch, iter, size, quiet, stale, early, reading>>

(* mlp_wait_done_and_clear *)
MlpIsDone ==
    /\ Access("isr", "ack")
    /\ mlp.isr
    /\ UNCHANGED <<overlay, wire, fabric, iter, size, quiet, stale, early, reading>>

AckMlp ==
    /\ Access("ack", "read")
    /\ mlp' = [mlp EXCEPT !.isr = ~ @]
    /\ UNCHANGED <<overlay, wire, tgen, feat, score, sink, timer, watch, iter, size, quiet, stale, early, reading>>

(* A count of zero is no reading. *)
ReadCycles ==
    /\ Access("read", "next")
    /\ reading' = IF timer.counter > 0
                  THEN [cycles |-> timer.counter, ended |-> watch.ended] ELSE None
    /\ UNCHANGED <<overlay, wire, fabric, iter, size, quiet, stale, early>>

(* Slip: the counter is read whether the wait has succeeded or not. *)
ReadAnyway ==
    /\ pc \in {"tgen", "isr"}
    /\ ready
    /\ pc' = "read"
    /\ UNCHANGED <<overlay, wire, fabric, iter, size, ready, quiet, stale, early, reading>>

(* The generator or the MLP is given up after 20 and 200 milliseconds. *)
TimeOut ==
    /\ pc \in {"tgen", "isr"}
    /\ ready
    /\ pc' = "next"
    /\ UNCHANGED <<overlay, wire, fabric, iter, size, ready, quiet, stale, early, reading>>

(* A reading of one beat that met an empty fabric and had not ended.  *)
ReadTooEarly == reading # None /\ ~ reading.ended /\ quiet /\ size = 1

NextIteration ==
    /\ pc = "next"
    /\ iter < Iterations
    /\ iter' = iter + 1
    /\ size' \in Beats
    /\ pc' = "clear"
    /\ early' = ReadTooEarly
    /\ reading' = None
    /\ UNCHANGED <<overlay, wire, fabric, ready, quiet, stale>>

Script ==
    \/ ClearISR \/ ResetTimer \/ StartTGen
    \/ TGenIsDone \/ MlpIsDone \/ AckMlp \/ ReadCycles
    \/ TimeOut \/ NextIteration

Next == Clock \/ Script

Spec == Init /\ [][Next]_vars

-----------------------------------------------------------------------------
(* A reading taken after the end of a packet that met an empty fabric.      *)
Measured == reading # None /\ reading.ended /\ quiet

(* A reading that follows the end of its packet is the number of clocks     *)
(* from the generator's strobe to the strobe that ends the packet, whatever *)
(* the iterations before left in the registers, if the fabric was empty     *)
(* when the iteration began and the start strobe does not outlive its clock *)
(* (or the stop strobe outlives it as well, as the generator's own does).   *)
CountsItsPacket ==
    (/\ Measured
     /\ wire = "strobe" \/ (overlay = "tgen" /\ size > 0)) => reading.cycles = watch.cycles

(* The scripts that wait for the MLP never read the counter before their    *)
(* packet has ended, when it is a single beat and the toggling write of the *)
(* "clear" found the bit set: an earlier completion, even one of an         *)
(* abandoned iteration, is not taken for this one's.                        *)
ReadAfterTheEnd ==
    reading # None /\ quiet /\ ~ stale /\ overlay # "core" /\ size <= 1 => reading.ended

(* After a reading that was taken before its beat had ended, the next one   *)
(* waits for its own: the beat completes after the acknowledgement and      *)
(* leaves the bit set, so that the toggling write of the next iteration     *)
(* does clear it.  No two readings in a row are early.                      *)
NeverTwiceEarly ==
    reading # None /\ quiet /\ early /\ overlay # "core" /\ size <= 1 => reading.ended

=============================================================================
