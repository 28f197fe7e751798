-------------------------- MODULE LatencyBenchProofs --------------------------
(***************************************************************************)
(* Theorems of LatencyBench: what the counter of the latency overlays      *)
(* counts, and when the scripts read it.                                   *)
(*                                                                         *)
(* In an iteration that meets an empty fabric, the register that runs the  *)
(* counter (Run) goes in step with a stop watch on the iteration's packet: *)
(* nothing else can raise the start strobe or stop the counter until the   *)
(* packet has ended, and afterwards nothing starts it again unless a wire  *)
(* keeps the start strobe.  For a packet of one beat the ISR bit of the    *)
(* scoring stage is raised by its own beat, if the write before the start  *)
(* has cleared it.  That write toggles the bit, so it clears it only when  *)
(* it is set: as it is when the reading before was taken too early, since  *)
(* the beat was then still under way (Owes).                               *)
(***************************************************************************)
EXTENDS LatencyBench, TLAPS

-----------------------------------------------------------------------------
(* The inductive invariant *)

AnyBeat == [pkt : Nat, last : BOOLEAN]

BeatOrNone == {None} \cup AnyBeat

Generators == [at : {"idle", "raise", "emit"}, start : BOOLEAN, left : Nat, pkt : Nat,
               hw_start : BOOLEAN, last : BOOLEAN, ap_done : BOOLEAN]
Stages == [beat : BeatOrNone, done : BOOLEAN, isr : BOOLEAN]
Timers == [reset : BOOLEAN, running : BOOLEAN, counter : Nat]
Watches == [running : BOOLEAN, ended : BOOLEAN, cycles : Nat]
Readings == {None} \cup [cycles : Nat, ended : BOOLEAN]

TypeOK ==
    /\ overlay \in Overlays /\ wire \in Wires
    /\ tgen \in Generators
    /\ feat \in BeatOrNone
    /\ mlp \in Stages
    /\ score \in BeatOrNone
    /\ sink \in BOOLEAN
    /\ timer \in Timers
    /\ watch \in Watches
    /\ pc \in {"clear", "reset", "release", "start", "tgen", "isr", "ack", "read", "next"}
    /\ iter \in Nat
    /\ size \in Beats
    /\ ready \in BOOLEAN /\ quiet \in BOOLEAN /\ stale \in BOOLEAN /\ early \in BOOLEAN
    /\ reading \in Readings

Empty == feat = None /\ mlp.beat = None /\ score = None

Still == ~ sink /\ ~ mlp.done /\ (wire = "strobe" => ~ tgen.hw_start /\ ~ tgen.last)

Clean == wire = "strobe" \/ overlay = "tgen"

Run == (tgen.hw_start \/ timer.running) /\ ~ Stop

(* The script has not started the generator yet. *)
Waiting ==
    /\ tgen.at = "idle" /\ ~ tgen.start /\ Empty
    /\ tgen.hw_start => tgen.last
    /\ mlp.isr <=> stale
    /\ reading = None
    /\ pc # "reset" \/ ready => Still
    /\ pc = "release" => timer.reset
    /\ pc = "start" => ~ timer.reset
    /\ (pc = "start" \/ (pc = "release" /\ ready)) /\ Clean =>
          timer.counter = 0 /\ ~ timer.running

(* It has, and the generator has not raised its strobe. *)
Begun ==
    /\ Empty /\ Still /\ (~ stale => ~ mlp.isr)
    /\ \/ /\ tgen.at = "idle" /\ tgen.start /\ (tgen.hw_start => tgen.last)
          /\ pc = "tgen" /\ ~ ready
       \/ tgen.at = "raise" /\ tgen.pkt = iter /\ tgen.left = size /\ ~ tgen.hw_start /\ ~ tgen.last
    /\ watch = [running |-> FALSE, ended |-> FALSE, cycles |-> 0]

Going ==
    /\ \/ tgen.at = "emit" /\ tgen.pkt = iter /\ tgen.left <= size
       \/ tgen.at = "idle" /\ ~ tgen.start
    /\ \A beat \in {feat, mlp.beat, score} \ {None} : beat.pkt = iter /\ (size <= 1 => beat.last)
    /\ watch.running <=> ~ watch.ended
    /\ wire = "held" => tgen.hw_start

InStep == timer.counter = watch.cycles /\ (Run <=> watch.running)

(* What has to have happened to a packet of one beat when ... *)
OneBeat ==
    /\ overlay = "tgen" /\ (feat # None \/ mlp.beat # None \/ mlp.isr) => watch.ended
    /\ overlay = "mlp" /\ mlp.isr => watch.ended
    /\ overlay = "nodma" /\ mlp.isr => watch.ended \/ score # None
    /\ pc = "ack" => (ready => watch.ended)
    /\ pc = "read" => watch.ended
    /\ reading # None => reading.ended

(* The beat is yet to be scored, ... *)
Present ==
    \/ tgen.at \in {"raise", "emit"} /\ tgen.left > 0
    \/ feat # None \/ mlp.beat # None

(* ... it is yet to be stopped at, ... *)
Coming ==
    \/ tgen.at = "idle" /\ tgen.start
    \/ Present \/ (overlay = "nodma" /\ score # None)

(* ... and the bit is set, or will be before the fabric is empty. *)
Owes == Present \/ mlp.isr

Started ==
    /\ Begun \/ Going
    /\ ~ timer.reset
    /\ pc \in {"ack", "read"} /\ overlay # "core" /\ ~ stale => Going
    /\ Clean => InStep
    /\ size <= 1 /\ overlay # "core" /\ ~ stale => OneBeat
    /\ overlay = "tgen" /\ size = 1 /\ (feat # None \/ mlp.beat # None) => watch.ended
    /\ overlay # "core" /\ size = 1 /\ ~ watch.ended => Coming
    /\ reading # None => pc = "next"
    /\ reading # None /\ reading.ended => ~ watch.running /\ watch.ended
    /\ reading # None /\ reading.ended /\ Clean => reading.cycles = watch.cycles

(* What a reading that was too early leaves for the next. *)
Alternates ==
    /\ pc = "read" /\ ready /\ quiet /\ size = 1 /\ ~ watch.ended => Owes
    /\ pc = "next" /\ ReadTooEarly => Owes
    /\ pc = "clear" /\ early => Owes
    /\ pc # "clear" /\ early /\ quiet => ~ stale

IInv ==
    /\ TypeOK
    /\ pc = "clear" => reading = None
    /\ pc = "ack" => mlp.isr
    /\ quiet /\ pc \in {"reset", "release", "start"} => Waiting
    /\ quiet /\ pc \in {"tgen", "isr", "ack", "read", "next"} => Started
    /\ overlay # "core" => Alternates

-----------------------------------------------------------------------------
(* A clock with a given choice of the scoring stage. *)
Tick(finish) ==
    /\ finish => mlp.beat # None /\ score = None
    /\ TGenClock /\ MlpClock(finish) /\ Handshakes(finish)
    /\ SinkClock /\ TimerClock /\ WatchClock(finish)
    /\ ready' = TRUE
    /\ UNCHANGED <<overlay, wire, pc, iter, size, quiet, stale, early, reading>>

LEMMA ClockTicks == Clock => \E finish \in BOOLEAN : Tick(finish)
BY DEF Clock, Tick

LEMMA InitIInv == Init => IInv
<1> SUFFICES ASSUME Init PROVE IInv
  OBVIOUS
<1>1. TypeOK
  BY DEF Init, TypeOK, BeatOrNone, Generators, Stages, Timers, Watches, Readings
<1> QED
  BY <1>1 DEF Init, IInv, Alternates, ReadTooEarly

LEMMA NoneIsNoBeat == None \notin AnyBeat
BY BenchAssumption DEF AnyBeat

(* What a clock makes of the generator. *)
LEMMA TGenFields ==
    ASSUME TypeOK, TGenClock
    PROVE  /\ tgen' \in Generators
           /\ tgen.at = "idle" /\ tgen.start =>
                 /\ tgen'.at = "raise" /\ tgen'.left = size /\ tgen'.pkt = iter
                 /\ ~ tgen'.hw_start /\ ~ tgen'.last
           /\ tgen.at = "idle" /\ ~ tgen.start =>
                 /\ tgen'.at = "idle" /\ ~ tgen'.start
                 /\ tgen'.hw_start = Kept(tgen.hw_start) /\ tgen'.last = Kept(tgen.last)
           /\ tgen.at = "raise" =>
                 /\ tgen'.at = "emit" /\ tgen'.left = tgen.left /\ tgen'.pkt = tgen.pkt
                 /\ tgen'.hw_start /\ tgen'.last = tgen.last
           /\ tgen.at = "emit" =>
                 /\ \/ tgen'.at = "emit" /\ tgen'.left <= tgen.left /\ tgen'.pkt = tgen.pkt
                    \/ tgen'.at = "idle" /\ ~ tgen'.start
                 /\ tgen'.hw_start = Kept(tgen.hw_start)
                 /\ tgen'.last = ((Emitting /\ tgen.left = 1) \/ Kept(tgen.last))
<1> DEFINE h == Kept(tgen.hw_start)
           l == Kept(tgen.last)
           e == (Emitting /\ tgen.left = 1) \/ l
           k == IF Emitting THEN tgen.left - 1 ELSE tgen.left
<1>1. size \in Nat /\ iter \in Nat /\ tgen \in Generators
  BY BenchAssumption DEF TypeOK
<1>2. h \in BOOLEAN /\ l \in BOOLEAN /\ e \in BOOLEAN
  BY DEF Kept
<1>3. tgen.left > 0 => k \in Nat /\ k <= tgen.left
  BY <1>1 DEF Generators
<1> HIDE DEF h, l, e, k
<1>4. CASE tgen.at = "idle" /\ tgen.start
  <2>1. tgen' = [tgen EXCEPT !.at = "raise", !.left = size, !.pkt = iter,
                             !.hw_start = FALSE, !.last = FALSE]
    BY <1>4 DEF TGenClock
  <2> QED
    BY ONLY <1>1, <1>4, <2>1 DEF Generators
<1>5. CASE tgen.at = "idle" /\ ~ tgen.start
  <2>1. tgen' = [tgen EXCEPT !.hw_start = h, !.last = l]
    BY <1>5 DEF TGenClock, h, l
  <2>2. /\ tgen' \in Generators /\ tgen'.at = "idle" /\ ~ tgen'.start
        /\ tgen'.hw_start = h /\ tgen'.last = l
    BY ONLY <1>1, <1>2, <1>5, <2>1 DEF Generators
  <2> QED
    BY <1>5, <2>2 DEF h, l
<1>6. CASE tgen.at = "raise"
  <2>1. tgen' = [tgen EXCEPT !.at = "emit", !.hw_start = TRUE]
    BY <1>6 DEF TGenClock
  <2> QED
    BY ONLY <1>1, <1>6, <2>1 DEF Generators
<1>7. CASE tgen.at = "emit" /\ tgen.left > 0
  <2>1. tgen' = [tgen EXCEPT !.left = k, !.hw_start = h, !.last = e]
    BY <1>7 DEF TGenClock, h, l, e, k
  <2>2. /\ tgen' \in Generators /\ tgen'.at = "emit" /\ tgen'.left <= tgen.left /\ tgen'.pkt = tgen.pkt
        /\ tgen'.hw_start = h /\ tgen'.last = e
    BY ONLY <1>1, <1>2, <1>3, <1>7, <2>1 DEF Generators
  <2> QED
    BY <1>7, <2>2 DEF h, l, e
<1>8. CASE tgen.at = "emit" /\ tgen.left = 0
  <2>1. tgen' = [tgen EXCEPT !.at = "idle", !.start = FALSE, !.ap_done = TRUE,
                             !.hw_start = h, !.last = l]
    BY <1>1, <1>8 DEF TGenClock, Generators, h, l
  <2>2. e = l
    BY <1>2, <1>8 DEF Emitting, e
  <2>3. /\ tgen' \in Generators /\ tgen'.at = "idle" /\ ~ tgen'.start
        /\ tgen'.hw_start = h /\ tgen'.last = l
    BY ONLY <1>1, <1>2, <1>8, <2>1 DEF Generators
  <2> QED
    BY <1>8, <2>2, <2>3 DEF h, l, e
<1> QED
  BY <1>1, <1>4, <1>5, <1>6, <1>7, <1>8 DEF Generators

(* What a clock makes of the counter, and the stop watch. *)
LEMMA TimerFields ==
    ASSUME TypeOK, TimerClock
    PROVE  /\ timer' \in Timers
           /\ timer.reset => timer'.reset /\ ~ timer'.running /\ timer'.counter = 0
           /\ ~ timer.reset =>
                 /\ ~ timer'.reset /\ timer'.running = Run
                 /\ timer'.counter = IF Run THEN timer.counter + 1 ELSE timer.counter
<1>1. timer \in Timers /\ Run \in BOOLEAN
  BY DEF TypeOK, Run
<1>2. timer' = IF timer.reset THEN [timer EXCEPT !.running = FALSE, !.counter = 0]
               ELSE [timer EXCEPT !.running = Run,
                                  !.counter = IF Run THEN timer.counter + 1 ELSE timer.counter]
  BY DEF TimerClock, Run
<1>4. CASE timer.reset
  BY ONLY <1>1, <1>2, <1>4 DEF Timers
<1>5. CASE ~ timer.reset
  <2> DEFINE r == Run
             c == IF Run THEN timer.counter + 1 ELSE timer.counter
  <2>1. r \in BOOLEAN /\ c \in Nat
    BY <1>1 DEF Timers
  <2>2. timer' = [timer EXCEPT !.running = r, !.counter = c]
    BY <1>2, <1>5
  <2> HIDE DEF r, c
  <2>3. timer' \in Timers /\ ~ timer'.reset /\ timer'.running = r /\ timer'.counter = c
    BY ONLY <1>1, <1>5, <2>1, <2>2 DEF Timers
  <2> QED
    BY <1>5, <2>3 DEF r, c
<1> QED
  BY <1>4, <1>5

LEMMA TickTyped ==
    ASSUME TypeOK, NEW finish \in BOOLEAN, Tick(finish)
    PROVE  TypeOK'
<1>1. tgen' \in Generators
  BY TGenFields DEF Tick
<1>2. feat' \in BeatOrNone /\ score' \in BeatOrNone
  <2>1. [pkt |-> tgen.pkt, last |-> tgen.left = 1] \in BeatOrNone
    BY DEF TypeOK, Generators, BeatOrNone, AnyBeat
  <2>2. None \in BeatOrNone /\ mlp.beat \in BeatOrNone
    BY DEF TypeOK, Stages, BeatOrNone
  <2> QED
    BY <2>1, <2>2 DEF Tick, Handshakes, TypeOK
<1>3. mlp' \in Stages
  BY DEF Tick, MlpClock, TypeOK, BeatOrNone, Stages
<1>4. sink' \in BOOLEAN
  BY DEF Tick, SinkClock
<1>5. timer' \in Timers
  BY TimerFields DEF Tick
<1>6. watch' \in Watches
  BY DEF Tick, WatchClock, TypeOK, Watches
<1> QED
  BY <1>1, <1>2, <1>3, <1>4, <1>5, <1>6 DEF Tick, TypeOK

LEMMA ScriptTyped ==
    ASSUME TypeOK, Script
    PROVE  TypeOK'
<1>1. CASE ClearISR
  <2>1. mlp' \in Stages
    BY <1>1 DEF TypeOK, ClearISR, Stages
  <2>2. quiet' \in BOOLEAN /\ stale' \in BOOLEAN
    BY <1>1 DEF ClearISR, FabricQuiet
  <2>3. pc' = "reset" /\ ready' = FALSE
    BY <1>1 DEF ClearISR, Access
  <2>4. UNCHANGED <<overlay, wire, tgen, feat, score, sink, timer, watch, iter, size, early, reading>>
    BY <1>1 DEF ClearISR
  <2> QED
    BY <2>1, <2>2, <2>3, <2>4 DEF TypeOK
<1>2. CASE ResetTimer
  <2>1. timer' \in Timers
    BY <1>2 DEF TypeOK, ResetTimer, Timers
  <2>2. pc' \in {"release", "start"} /\ ready' = FALSE
    BY <1>2 DEF ResetTimer, Access
  <2>4. UNCHANGED <<overlay, wire, tgen, feat, mlp, score, sink, watch, iter, size, quiet, stale, early, reading>>
    BY <1>2 DEF ResetTimer
  <2> QED
    BY <2>1, <2>2, <2>4 DEF TypeOK
<1>3. CASE StartTGen
  BY <1>3 DEF TypeOK, StartTGen, Access, Generators, Watches
<1>4. CASE TGenIsDone
  BY <1>4 DEF TypeOK, TGenIsDone, Access, Generators
<1>5. CASE MlpIsDone \/ TimeOut
  BY <1>5 DEF TypeOK, MlpIsDone, TimeOut, Access, fabric
<1>6. CASE AckMlp
  <2>1. mlp' \in Stages
    BY <1>6 DEF TypeOK, AckMlp, Stages
  <2>2. pc' = "read" /\ ready' = FALSE
    BY <1>6 DEF AckMlp, Access
  <2>4. UNCHANGED <<overlay, wire, tgen, feat, score, sink, timer, watch, iter, size, quiet, stale, early, reading>>
    BY <1>6 DEF AckMlp
  <2> QED
    BY <2>1, <2>2, <2>4 DEF TypeOK
<1>7. CASE ReadCycles
  <2>1. reading' \in Readings
    BY <1>7 DEF TypeOK, ReadCycles, Readings, Timers, Watches
  <2>2. pc' = "next" /\ ready' = FALSE
    BY <1>7 DEF ReadCycles, Access
  <2>4. UNCHANGED <<overlay, wire, tgen, feat, mlp, score, sink, timer, watch, iter, size, quiet, stale, early>>
    BY <1>7 DEF ReadCycles, fabric
  <2> QED
    BY <2>1, <2>2, <2>4 DEF TypeOK
<1>8. CASE NextIteration
  BY <1>8 DEF TypeOK, NextIteration, ReadTooEarly, fabric, Readings
<1> QED
  BY <1>1, <1>2, <1>3, <1>4, <1>5, <1>6, <1>7, <1>8 DEF Script

-----------------------------------------------------------------------------
(* What a clock makes of the stop watch and of the beats. *)
LEMMA WatchFields ==
    ASSUME TypeOK, NEW finish \in BOOLEAN, WatchClock(finish)
    PROVE  /\ watch' \in Watches
           /\ watch'.running <=> \/ tgen.at = "raise" /\ tgen.pkt = iter
                                 \/ watch.running /\ ~ Ends(finish)
           /\ watch'.ended <=> watch.ended \/ (watch.running /\ Ends(finish))
           /\ watch'.cycles = IF watch.running THEN watch.cycles + 1 ELSE watch.cycles
<1> DEFINE r == \/ tgen.at = "raise" /\ tgen.pkt = iter
                \/ watch.running /\ ~ Ends(finish)
           e == watch.ended \/ (watch.running /\ Ends(finish))
           c == IF watch.running THEN watch.cycles + 1 ELSE watch.cycles
<1>1. r \in BOOLEAN /\ e \in BOOLEAN /\ c \in Nat
  BY DEF TypeOK, Watches
<1>2. watch' = [running |-> r, ended |-> e, cycles |-> c]
  BY DEF WatchClock
<1> HIDE DEF r, e, c
<1>3. watch' \in Watches /\ watch'.running = r /\ watch'.ended = e /\ watch'.cycles = c
  BY ONLY <1>1, <1>2 DEF Watches
<1> QED
  BY <1>3 DEF r, e, c

LEMMA BeatFields ==
    ASSUME TypeOK, NEW finish \in BOOLEAN, Tick(finish)
    PROVE  /\ finish => mlp.beat # None /\ score = None
           /\ mlp'.beat = IF finish THEN None ELSE IF mlp.beat = None THEN feat ELSE mlp.beat
           /\ mlp'.done = finish
           /\ mlp'.isr <=> mlp.isr \/ finish
           /\ score' = IF finish THEN mlp.beat ELSE None
           /\ ~ Emitting => feat' \in {feat, None}
           /\ Emitting => feat'.pkt = tgen.pkt /\ (feat'.last <=> tgen.left = 1)
           /\ sink' <=> score # None /\ score.last
           /\ UNCHANGED <<overlay, wire, pc, iter, size, quiet, stale, early, reading>> /\ ready'
<1>1. /\ mlp'.beat = IF finish THEN None ELSE IF mlp.beat = None THEN feat ELSE mlp.beat
      /\ mlp'.done = finish
  BY DEF Tick, MlpClock
<1>2. mlp'.isr <=> mlp.isr \/ finish
  BY DEF Tick, MlpClock
<1>3. /\ score' = IF finish THEN mlp.beat ELSE None
      /\ ~ Emitting => feat' \in {feat, None}
  BY DEF Tick, Handshakes
<1>4. Emitting => feat'.pkt = tgen.pkt /\ (feat'.last <=> tgen.left = 1)
  BY DEF Tick, Handshakes
<1>5. sink' <=> score # None /\ score.last
  BY DEF Tick, SinkClock
<1> QED
  BY <1>1, <1>2, <1>3, <1>4, <1>5 DEF Tick

LEMMA EmptyStays ==
    ASSUME TypeOK, NEW finish \in BOOLEAN, Tick(finish), Empty, ~ Emitting
    PROVE  ~ finish /\ Empty' /\ ~ sink' /\ ~ mlp'.done /\ (mlp'.isr <=> mlp.isr)
BY BeatFields DEF Empty

(* The clock while the script prepares an iteration, ... *)
LEMMA WaitingTicks ==
    ASSUME TypeOK, NEW finish \in BOOLEAN, Tick(finish), Waiting
    PROVE  Waiting'
<1>1. tgen.at = "idle" /\ ~ tgen.start /\ Empty /\ (tgen.hw_start => tgen.last)
  BY DEF Waiting
<1>2. /\ tgen'.at = "idle" /\ ~ tgen'.start
      /\ tgen'.hw_start = Kept(tgen.hw_start) /\ tgen'.last = Kept(tgen.last)
  BY <1>1, TGenFields DEF Tick
<1>3. Empty' /\ ~ sink' /\ ~ mlp'.done /\ (mlp'.isr <=> mlp.isr)
  BY <1>1, EmptyStays DEF Emitting
<1>4. UNCHANGED <<overlay, wire, pc, iter, size, quiet, stale, early, reading>> /\ ready'
  BY BeatFields
<1>5. (tgen'.hw_start => tgen'.last) /\ Still'
  BY <1>1, <1>2, <1>3, <1>4 DEF Kept, Still
<1>6. pc = "release" => timer'.reset /\ ~ timer'.running /\ timer'.counter = 0
  BY TimerFields DEF Tick, Waiting
<1>7. pc = "start" => ~ timer'.reset
  BY TimerFields DEF Tick, Waiting
<1>8. pc = "start" /\ Clean => timer'.counter = 0 /\ ~ timer'.running
  <2> SUFFICES ASSUME pc = "start", Clean PROVE timer'.counter = 0 /\ ~ timer'.running
    OBVIOUS
  <2>1. ~ timer.reset /\ timer.counter = 0 /\ ~ timer.running /\ Still
    BY DEF Waiting
  <2>2. ~ Run
    BY <1>1, <2>1, BenchAssumption DEF Run, Stop, Clean, Still
  <2> QED
    BY <2>1, <2>2, TimerFields DEF Tick
<1> QED
  BY <1>2, <1>3, <1>4, <1>5, <1>6, <1>7, <1>8 DEF Waiting, Clean

(* ... while the generator gets under way, ... *)
LEMMA BegunTicks ==
    ASSUME TypeOK, NEW finish \in BOOLEAN, Tick(finish), Begun, ~ timer.reset, Clean => InStep
    PROVE  /\ (Begun \/ Going)' /\ (Clean => InStep)' /\ Empty' /\ ~ timer'.reset
           /\ ~ stale => ~ mlp'.isr
           /\ size = 1 => Present'
<1>1. /\ Empty /\ Still /\ ~ Emitting /\ (~ stale => ~ mlp.isr)
      /\ ~ watch.running /\ ~ watch.ended /\ watch.cycles = 0
  BY DEF Begun, Emitting
<1>2. Empty' /\ ~ sink' /\ ~ mlp'.done /\ (~ stale => ~ mlp'.isr)
  BY <1>1, EmptyStays
<1>3. UNCHANGED <<overlay, wire, pc, iter, size, quiet, stale, early, reading>> /\ ready'
  BY BeatFields
<1>4. /\ ~ timer'.reset /\ timer'.running = Run
      /\ timer'.counter = IF Run THEN timer.counter + 1 ELSE timer.counter
  BY TimerFields DEF Tick
<1>5. Clean => ~ timer'.running /\ timer'.counter = 0
  BY <1>1, <1>4 DEF InStep
<1>6. CASE tgen.at = "idle" /\ tgen.start
  <2>1. /\ tgen'.at = "raise" /\ tgen'.left = size /\ tgen'.pkt = iter
        /\ ~ tgen'.hw_start /\ ~ tgen'.last
    BY <1>6, TGenFields DEF Tick
  <2>2. watch' \in Watches /\ ~ watch'.running /\ ~ watch'.ended /\ watch'.cycles = 0
    BY <1>1, <1>6, WatchFields DEF Tick
  <2>3. watch' = [running |-> FALSE, ended |-> FALSE, cycles |-> 0]
    BY ONLY <2>2 DEF Watches
  <2>4. Still'
    BY <1>2, <2>1 DEF Still
  <2>5. Begun'
    BY <1>2, <1>3, <2>1, <2>3, <2>4 DEF Begun
  <2>6. (Clean => InStep)'
    BY <1>3, <1>5, <2>1, <2>2 DEF InStep, Run, Clean
  <2>7. size = 1 => Present'
    BY <2>1 DEF Present
  <2> QED
    BY <1>2, <1>4, <2>5, <2>6, <2>7
<1>7. CASE tgen.at = "raise"
  <2>0. tgen.pkt = iter /\ tgen.left = size /\ ~ tgen.last
    BY <1>7 DEF Begun
  <2>1. /\ tgen'.at = "emit" /\ tgen'.left = size /\ tgen'.pkt = iter
        /\ tgen'.hw_start /\ ~ tgen'.last
    BY <1>7, <2>0, TGenFields DEF Tick
  <2>2. watch'.running /\ ~ watch'.ended /\ watch'.cycles = 0
    BY <1>1, <1>7, <2>0, WatchFields DEF Tick
  <2>3. size \in Nat
    BY BenchAssumption DEF TypeOK
  <2>4. Going'
    BY <1>2, <1>3, <2>1, <2>2, <2>3 DEF Going, Empty
  <2>5. ~ Stop'
    BY <1>2, <1>3, <2>1, BenchAssumption DEF Stop, TypeOK
  <2>6. (Clean => InStep)'
    BY <1>3, <1>5, <2>1, <2>2, <2>5 DEF InStep, Run, Clean
  <2>7. size = 1 => Present'
    BY <2>1 DEF Present
  <2> QED
    BY <1>2, <1>4, <2>4, <2>6, <2>7
<1> QED
  BY <1>6, <1>7 DEF Begun

(* ... and while its packet is on the way. *)
LEMMA GoingTicks ==
    ASSUME TypeOK, NEW finish \in BOOLEAN, Tick(finish), Going
    PROVE  Going'
<1>1. /\ tgen.at = "emit" => tgen.pkt = iter /\ tgen.left <= size
      /\ tgen.at # "raise" /\ (tgen.at # "emit" => tgen.at = "idle" /\ ~ tgen.start)
      /\ watch.running <=> ~ watch.ended
      /\ wire = "held" => tgen.hw_start
  BY DEF Going
<1>2. UNCHANGED <<overlay, wire, pc, iter, size, quiet, stale, early, reading>> /\ ready'
  BY BeatFields
<1>3. \/ tgen'.at = "emit" /\ tgen'.pkt = iter /\ tgen'.left <= size
      \/ tgen'.at = "idle" /\ ~ tgen'.start
  <2>1. tgen.at = "emit" => \/ tgen'.at = "emit" /\ tgen'.left <= tgen.left /\ tgen'.pkt = tgen.pkt
                            \/ tgen'.at = "idle" /\ ~ tgen'.start
    BY TGenFields DEF Tick
  <2>2. tgen.at # "emit" => tgen'.at = "idle" /\ ~ tgen'.start
    BY <1>1, TGenFields DEF Tick
  <2>3. size \in Nat /\ tgen.left \in Nat /\ (tgen.at = "emit" => tgen'.left \in Nat)
    BY BenchAssumption, TGenFields DEF TypeOK, Generators, Tick
  <2> QED
    BY <1>1, <2>1, <2>2, <2>3
<1>4. wire' = "held" => tgen'.hw_start
  BY <1>1, <1>2, TGenFields DEF Tick, Kept
<1>5. watch'.running <=> ~ watch'.ended
  BY <1>1, WatchFields DEF Tick
<1>6. ASSUME NEW beat \in {feat, mlp.beat, score} \ {None}
      PROVE  beat.pkt = iter /\ (size <= 1 => beat.last)
  BY DEF Going
<1>7. ASSUME NEW beat \in {feat', mlp'.beat, score'} \ {None}
      PROVE  beat.pkt = iter /\ (size <= 1 => beat.last)
  <2>1. beat \in {feat, mlp.beat} \/ (Emitting /\ beat = feat')
    BY BeatFields
  <2>2. CASE beat \in {feat, mlp.beat}
    BY <1>6, <2>2
  <2>3. CASE Emitting /\ beat = feat'
    <3>1. beat.pkt = tgen.pkt /\ (beat.last <=> tgen.left = 1)
      BY <2>3, BeatFields
    <3>2. tgen.at = "emit" /\ tgen.left > 0
      BY <2>3 DEF Emitting
    <3>3. size \in Nat /\ tgen.left \in Nat
      BY BenchAssumption DEF TypeOK, Generators
    <3> QED
      BY <1>1, <3>1, <3>2, <3>3
  <2> QED
    BY <2>1, <2>2, <2>3
<1> QED
  BY <1>2, <1>3, <1>4, <1>5, <1>7 DEF Going

(* The strobe that stops the counter is the one that ends the packet. *)
LEMMA StopEnds ==
    ASSUME TypeOK, NEW finish \in BOOLEAN, Tick(finish), Going, Clean, InStep
    PROVE  watch.running => (Stop' <=> Ends(finish))
<1> SUFFICES ASSUME watch.running PROVE Stop' <=> Ends(finish)
  OBVIOUS
<1>1. \A beat \in {feat, mlp.beat, score} \ {None} : beat.pkt = iter
  BY DEF Going
<1>2. overlay' = overlay /\ overlay \in {"core", "nodma", "mlp", "tgen"}
  BY BenchAssumption, BeatFields DEF TypeOK
<1>3. CASE overlay \in {"core", "nodma"}
  <2>1. Stop' <=> score # None /\ score.last
    BY <1>2, <1>3, BeatFields DEF Stop
  <2>2. Ends(finish) <=> score # None /\ score.last /\ score.pkt = iter
    BY <1>3 DEF Ends
  <2> QED
    BY <1>1, <2>1, <2>2
<1>4. CASE overlay = "mlp"
  <2>1. Stop' <=> finish
    BY <1>2, <1>4, BeatFields DEF Stop
  <2>2. Ends(finish) <=> finish /\ mlp.beat.pkt = iter
    BY <1>4 DEF Ends
  <2>3. finish => mlp.beat # None
    BY BeatFields
  <2> QED
    BY <1>1, <2>1, <2>2, <2>3
<1>5. CASE overlay = "tgen"
  <2>1. Stop' <=> tgen'.last
    BY <1>2, <1>5 DEF Stop
  <2>2. Ends(finish) <=> Emitting /\ tgen.left = 1 /\ tgen.pkt = iter
    BY <1>5 DEF Ends
  <2>3. ~ tgen.last
    BY <1>5 DEF InStep, Run, Stop
  <2>4. ~ Kept(tgen.last)
    BY <2>3 DEF Kept
  <2>5. tgen.at = "emit" => (tgen'.last <=> Emitting /\ tgen.left = 1) /\ tgen.pkt = iter
    BY <2>4, TGenFields DEF Tick, Going
  <2>6. tgen.at # "emit" => ~ tgen'.last /\ ~ Emitting
    BY <2>4, TGenFields DEF Tick, Going, Emitting
  <2> QED
    BY <2>1, <2>2, <2>5, <2>6
<1> QED
  BY <1>2, <1>3, <1>4, <1>5

LEMMA InStepTicks ==
    ASSUME TypeOK, NEW finish \in BOOLEAN, Tick(finish), Going, ~ timer.reset, Clean, InStep
    PROVE  InStep' /\ ~ timer'.reset
<1>1. /\ ~ timer'.reset /\ timer'.running = Run
      /\ timer'.counter = IF Run THEN timer.counter + 1 ELSE timer.counter
  BY TimerFields DEF Tick
<1>2. /\ watch'.running <=> watch.running /\ ~ Ends(finish)
      /\ watch'.cycles = IF watch.running THEN watch.cycles + 1 ELSE watch.cycles
  BY WatchFields DEF Tick, Going
<1>3. timer'.counter = watch'.cycles
  BY <1>1, <1>2 DEF InStep
<1>4. watch.running => (Stop' <=> Ends(finish))
  BY StopEnds
<1>5. UNCHANGED <<overlay, wire>> /\ wire \in {"held", "strobe"}
  BY BeatFields, BenchAssumption DEF TypeOK
<1>6. CASE wire = "strobe"
  <2>1. ~ tgen'.hw_start
    BY <1>6, TGenFields DEF Tick, Going, Kept
  <2>2. timer'.running <=> watch.running
    BY <1>1 DEF InStep
  <2> QED
    BY <1>1, <1>2, <1>3, <1>4, <2>1, <2>2 DEF InStep, Run
<1>7. CASE wire = "held"
  <2>1. overlay = "tgen" /\ tgen.hw_start
    BY <1>7 DEF Clean, Going
  <2>2. tgen'.hw_start /\ (tgen.last => tgen'.last)
    BY <1>7, <2>1, TGenFields DEF Tick, Going, Kept
  <2>3. ~ watch.running => tgen.last
    BY <2>1 DEF InStep, Run, Stop
  <2>4. Stop' <=> tgen'.last
    BY <1>5, <2>1 DEF Stop
  <2> QED
    BY <1>1, <1>2, <1>3, <1>4, <2>2, <2>3, <2>4 DEF InStep, Run
<1> QED
  BY <1>5, <1>6, <1>7

LEMMA OneBeatTicks ==
    ASSUME TypeOK, NEW finish \in BOOLEAN, Tick(finish), Going, OneBeat, size <= 1,
           overlay # "core", pc = "ack" => mlp.isr
    PROVE  OneBeat'
<1>1. /\ watch.running <=> ~ watch.ended
      /\ \A beat \in {feat, mlp.beat, score} \ {None} : beat.pkt = iter /\ beat.last
      /\ tgen.at = "emit" => tgen.pkt = iter /\ tgen.left <= 1
  <2>1. size \in Nat /\ tgen.left \in Nat
    BY BenchAssumption DEF TypeOK, Generators
  <2> QED
    BY <2>1 DEF Going
<1>2. UNCHANGED <<overlay, wire, pc, iter, size, quiet, stale, early, reading>> /\ ready'
  BY BeatFields
<1>3. watch'.ended <=> watch.ended \/ Ends(finish)
  BY <1>1, WatchFields DEF Tick
<1>4. Emitting => tgen.left = 1 /\ tgen.pkt = iter
  BY <1>1 DEF Emitting, TypeOK, Generators
<1>5. ASSUME overlay = "tgen", feat' # None \/ mlp'.beat # None \/ mlp'.isr
      PROVE  watch'.ended
  <2>1. Emitting \/ feat # None \/ mlp.beat # None \/ mlp.isr
    BY <1>5, BeatFields
  <2>2. CASE Emitting
    BY <1>3, <1>4, <1>5, <2>2 DEF Ends
  <2>3. CASE feat # None \/ mlp.beat # None \/ mlp.isr
    BY <1>3, <1>5, <2>3 DEF OneBeat
  <2> QED
    BY <2>1, <2>2, <2>3
<1>6. ASSUME overlay = "mlp", mlp'.isr
      PROVE  watch'.ended
  <2>1. mlp.isr \/ (finish /\ mlp.beat # None)
    BY <1>6, BeatFields
  <2> QED
    BY <1>1, <1>3, <1>6, <2>1 DEF OneBeat, Ends
<1>7. ASSUME overlay = "nodma", mlp.isr
      PROVE  watch'.ended
  <2>1. watch.ended \/ score # None
    BY <1>7 DEF OneBeat
  <2> QED
    BY <1>1, <1>3, <1>7, <2>1 DEF Ends
<1>8. ASSUME overlay = "nodma", mlp'.isr
      PROVE  watch'.ended \/ score' # None
  <2>1. mlp.isr \/ (finish /\ mlp.beat # None)
    BY <1>8, BeatFields
  <2>2. finish => score' = mlp.beat
    BY BeatFields
  <2> QED
    BY <1>7, <1>8, <2>1, <2>2
<1>9. ASSUME pc = "ack"
      PROVE  watch'.ended
  <2>1. mlp.isr
    BY <1>9
  <2>2. overlay \in {"nodma", "mlp", "tgen"}
    BY BenchAssumption DEF TypeOK
  <2> QED
    BY <1>3, <1>7, <2>1, <2>2 DEF OneBeat
<1>10. /\ pc' = "read" => watch'.ended
       /\ reading' # None => reading'.ended
  BY <1>2, <1>3 DEF OneBeat
<1> QED
  BY <1>2, <1>5, <1>6, <1>8, <1>9, <1>10 DEF OneBeat

(* A beat that has not been stopped at is in sight, ... *)
LEMMA ComingTicks ==
    ASSUME TypeOK, NEW finish \in BOOLEAN, Tick(finish), Going, size = 1, overlay # "core",
           overlay = "tgen" /\ (feat # None \/ mlp.beat # None) => watch.ended,
           ~ watch.ended => Coming, ~ watch'.ended
    PROVE  Present /\ Coming'
<1>1. /\ ~ watch.ended /\ watch.running /\ ~ Ends(finish)
  BY WatchFields DEF Tick, Going
<1>2. \A beat \in {feat, mlp.beat, score} \ {None} : beat.pkt = iter /\ beat.last
  BY DEF Going
<1>3. tgen.at = "emit" => tgen.pkt = iter /\ tgen.left <= 1 /\ tgen.left \in Nat
  BY DEF Going, TypeOK, Generators
<1>4. overlay' = overlay /\ overlay \in {"nodma", "mlp", "tgen"}
  BY BenchAssumption, BeatFields DEF TypeOK
<1>5. Present
  BY <1>1, <1>2, <1>4 DEF Coming, Going, Ends
<1>6. CASE mlp.beat # None
  <2>1. overlay = "nodma" /\ finish => score' # None
    BY <1>6, BeatFields
  <2>2. overlay = "mlp" => ~ finish
    BY <1>1, <1>2, <1>6 DEF Ends
  <2>3. ~ finish => mlp'.beat # None
    BY <1>6, BeatFields
  <2> QED
    BY <1>1, <1>4, <1>5, <1>6, <2>1, <2>2, <2>3 DEF Coming, Present
<1>7. CASE mlp.beat = None /\ feat # None
  <2>1. mlp'.beat # None
    BY <1>7, BeatFields
  <2> QED
    BY <1>5, <2>1 DEF Coming, Present
<1>8. CASE mlp.beat = None /\ feat = None
  <2>1. tgen.at = "emit" /\ tgen.left = 1 /\ Emitting
    BY <1>3, <1>5, <1>8 DEF Present, Going, Emitting
  <2>2. feat' # None
    <3>1. feat' = [pkt |-> tgen.pkt, last |-> tgen.left = 1]
      BY <2>1 DEF Tick, Handshakes
    <3>2. feat' \in AnyBeat
      BY <3>1 DEF TypeOK, Generators, AnyBeat
    <3> QED
      BY <3>2, NoneIsNoBeat
  <2> QED
    BY <1>5, <2>2 DEF Coming, Present
<1> QED
  BY <1>6, <1>7, <1>8

(* ... and one that is still to be scored will leave the bit set. *)
LEMMA OwesTicks ==
    ASSUME TypeOK, NEW finish \in BOOLEAN, Tick(finish), Owes
    PROVE  Owes'
<1>1. CASE mlp.isr \/ finish
  BY <1>1, BeatFields DEF Owes
<1>2. CASE ~ finish /\ mlp.beat # None
  BY <1>2, BeatFields DEF Owes, Present
<1>3. CASE ~ finish /\ mlp.beat = None /\ feat # None
  BY <1>3, BeatFields DEF Owes, Present
<1>4. CASE tgen.at = "raise" /\ tgen.left > 0
  BY <1>4, TGenFields DEF Tick, Owes, Present
<1>5. CASE feat = None /\ tgen.at = "emit" /\ tgen.left > 0
  <2>1. Emitting
    BY <1>5 DEF Emitting
  <2>2. feat' = [pkt |-> tgen.pkt, last |-> tgen.left = 1]
    BY <2>1 DEF Tick, Handshakes
  <2>3. feat' \in AnyBeat
    BY <2>2 DEF TypeOK, Generators, AnyBeat
  <2> QED
    BY <2>3, NoneIsNoBeat DEF Owes, Present
<1> QED
  BY <1>1, <1>2, <1>3, <1>4, <1>5 DEF Owes, Present

LEMMA StartedTicks ==
    ASSUME TypeOK, NEW finish \in BOOLEAN, Tick(finish), Started, pc = "ack" => mlp.isr
    PROVE  Started'
<1>1. UNCHANGED <<overlay, wire, pc, iter, size, quiet, stale, early, reading>> /\ ready'
  BY BeatFields
<1>2. Clean' <=> Clean
  BY <1>1 DEF Clean
<1>3. CASE Begun
  <2>1. /\ (Begun \/ Going)' /\ (Clean => InStep)' /\ Empty' /\ ~ timer'.reset
        /\ ~ stale => ~ mlp'.isr
        /\ size = 1 => Present'
    BY <1>3, BegunTicks DEF Started
  <2>2. ~ Going /\ ~ watch.ended
    BY <1>3 DEF Begun, Going
  <2>3. overlay # "core" /\ ~ stale => pc \notin {"ack", "read"}
    BY <2>2 DEF Started
  <2>4. ~ (reading # None /\ reading.ended)
    BY <2>2 DEF Started
  <2>5. (size <= 1 /\ overlay # "core" /\ ~ stale => OneBeat)'
    BY <1>1, <2>1, <2>3 DEF OneBeat, Empty, Started
  <2>6. /\ (overlay = "tgen" /\ size = 1 /\ (feat # None \/ mlp.beat # None) => watch.ended)'
        /\ (overlay # "core" /\ size = 1 /\ ~ watch.ended => Coming)'
    BY <1>1, <2>1 DEF Empty, Coming
  <2> QED
    BY <1>1, <2>1, <2>3, <2>4, <2>5, <2>6 DEF Started
<1>4. CASE Going
  <2>1. Going'
    BY <1>4, GoingTicks
  <2>2. ~ timer'.reset
    BY TimerFields DEF Tick, Started
  <2>3. (Clean => InStep)'
    BY <1>2, <1>4, InStepTicks DEF Started
  <2>4. (size <= 1 /\ overlay # "core" /\ ~ stale => OneBeat)'
    BY <1>1, <1>4, OneBeatTicks DEF Started
  <2>5. ~ watch.running /\ watch.ended =>
           ~ watch'.running /\ watch'.ended /\ watch'.cycles = watch.cycles
    BY <1>4, WatchFields DEF Tick, Going
  <2>6. (overlay # "core" /\ size = 1 /\ ~ watch.ended => Coming)'
    BY <1>1, <1>4, ComingTicks DEF Started
  <2>7. (overlay = "tgen" /\ size = 1 /\ (feat # None \/ mlp.beat # None) => watch.ended)'
    <3> SUFFICES ASSUME overlay = "tgen", size = 1, feat' # None \/ mlp'.beat # None
                 PROVE  watch'.ended
      BY <1>1
    <3>1. Emitting \/ feat # None \/ mlp.beat # None
      BY BeatFields
    <3>2. Emitting => tgen.left = 1 /\ tgen.pkt = iter
      BY <1>4 DEF Emitting, Going, TypeOK, Generators
    <3>3. watch'.ended <=> watch.ended \/ Ends(finish)
      BY <1>4, WatchFields DEF Tick, Going
    <3> QED
      BY <3>1, <3>2, <3>3 DEF Started, Ends
  <2> QED
    BY <1>1, <1>2, <2>1, <2>2, <2>3, <2>4, <2>5, <2>6, <2>7 DEF Started
<1> QED
  BY <1>3, <1>4 DEF Started

(* The clock, and what an early reading leaves behind. *)
LEMMA AlternatesTicks ==
    ASSUME TypeOK, NEW finish \in BOOLEAN, Tick(finish), Alternates, overlay # "core",
           quiet /\ pc = "read" => Started
    PROVE  Alternates'
<1>1. UNCHANGED <<overlay, wire, pc, iter, size, quiet, stale, early, reading>> /\ ready'
  BY BeatFields
<1>2. ReadTooEarly' <=> ReadTooEarly
  BY <1>1 DEF ReadTooEarly
<1>3. ASSUME pc = "read", quiet, size = 1, ~ watch'.ended
      PROVE  Owes'
  <2>1. CASE Begun
    <3>1. size = 1 => Present'
      BY <1>3, <2>1, BegunTicks DEF Started
    <3> QED
      BY <1>3, <3>1 DEF Owes
  <2>2. CASE Going
    <3>1. Present
      BY <1>3, <2>2, ComingTicks DEF Started
    <3> QED
      BY <3>1, OwesTicks DEF Owes
  <2> QED
    BY <1>3, <2>1, <2>2 DEF Started
<1> QED
  BY <1>1, <1>2, <1>3, OwesTicks DEF Alternates

-----------------------------------------------------------------------------
(* The accesses of the script. *)

LEMMA Prepares ==
    ASSUME IInv, ClearISR \/ ResetTimer, quiet'
    PROVE  Waiting'
<1>1. CASE ClearISR
  <2>1. /\ UNCHANGED <<overlay, wire, tgen, feat, score, sink, timer, watch, iter, size, early, reading>>
        /\ pc = "clear" /\ pc' = "reset" /\ ~ ready' /\ FabricQuiet
    BY <1>1 DEF ClearISR, Access
  <2>2. mlp' = [mlp EXCEPT !.isr = ~ @] /\ stale' = ~ mlp.isr
    BY <1>1 DEF ClearISR
  <2>3. (mlp'.isr <=> stale') /\ mlp'.beat = None
    BY <2>1, <2>2 DEF FabricQuiet, IInv, TypeOK, Stages
  <2>4. reading = None
    BY <2>1 DEF IInv
  <2> QED
    BY <2>1, <2>3, <2>4 DEF Waiting, FabricQuiet, Empty
<1>2. CASE ResetTimer
  <2>1. /\ UNCHANGED <<overlay, wire, tgen, feat, mlp, score, sink, watch, iter, size, quiet, stale, early, reading>>
        /\ ready /\ ~ ready'
        /\ \/ pc = "reset" /\ pc' = "release" /\ timer' = [timer EXCEPT !.reset = TRUE]
           \/ pc = "release" /\ pc' = "start" /\ timer' = [timer EXCEPT !.reset = FALSE]
    BY <1>2 DEF ResetTimer, Access
  <2>2. Waiting
    BY <1>2, <2>1 DEF IInv
  <2>3. Still'
    BY <2>1, <2>2 DEF Waiting, Still
  <2>4. timer \in Timers
    BY DEF IInv, TypeOK
  <2>5. pc' = "release" => timer'.reset
    BY <2>1, <2>4 DEF Timers
  <2>6. pc' = "start" => /\ ~ timer'.reset /\ timer'.running = timer.running
                         /\ timer'.counter = timer.counter
    BY <2>1, <2>4 DEF Timers
  <2>7. pc' = "start" /\ Clean => timer'.counter = 0 /\ ~ timer'.running
    BY <2>1, <2>2, <2>6 DEF Waiting
  <2> QED
    BY <2>1, <2>2, <2>3, <2>5, <2>6, <2>7 DEF Waiting, Empty, Clean
<1> QED
  BY <1>1, <1>2

LEMMA Starts ==
    ASSUME IInv, StartTGen, quiet
    PROVE  Started'
<1>1. /\ pc = "start" /\ ready /\ pc' = "tgen" /\ ~ ready'
      /\ UNCHANGED <<overlay, wire, feat, mlp, score, sink, timer, iter, size, quiet, stale, early, reading>>
      /\ watch' = [running |-> FALSE, ended |-> FALSE, cycles |-> 0]
  BY DEF StartTGen, Access
<1>2. Waiting
  BY <1>1 DEF IInv
<1>3. /\ tgen'.at = "idle" /\ tgen'.start /\ tgen'.hw_start = tgen.hw_start
      /\ tgen'.last = tgen.last
  BY <1>2 DEF StartTGen, IInv, TypeOK, Generators, Waiting
<1>4. Still'
  BY <1>1, <1>2, <1>3 DEF Still, Waiting
<1>5. Begun'
  BY <1>1, <1>2, <1>3, <1>4 DEF Begun, Waiting, Empty
<1>6. (Clean => InStep)'
  <2>1. Clean => timer.counter = 0 /\ ~ timer.running
    BY <1>1, <1>2 DEF Waiting
  <2>2. Clean => ~ Run'
    BY <1>1, <1>2, <1>3, <1>4, <2>1, BenchAssumption
       DEF Run, Stop, Clean, Still, Waiting, IInv, TypeOK
  <2> QED
    BY <1>1, <2>1, <2>2 DEF InStep, Clean
<1>7. ~ stale => OneBeat'
  BY <1>1, <1>2 DEF OneBeat, Waiting, Empty
<1>8. Coming' /\ feat' = None /\ mlp'.beat = None
  BY <1>1, <1>2, <1>3 DEF Coming, Waiting, Empty
<1> QED
  BY <1>1, <1>2, <1>5, <1>6, <1>7, <1>8 DEF Started, Waiting

(* An access that touches no beat and no strobe leaves the packet where it  *)
(* is.                                                                      *)
LEMMA AccessKeeps ==
    ASSUME Started, ready,
           /\ tgen'.at = tgen.at /\ tgen'.start = tgen.start /\ tgen'.left = tgen.left
           /\ tgen'.pkt = tgen.pkt /\ tgen'.hw_start = tgen.hw_start /\ tgen'.last = tgen.last,
           mlp'.beat = mlp.beat, mlp'.done = mlp.done, mlp'.isr => mlp.isr,
           UNCHANGED <<overlay, wire, feat, score, sink, timer, watch, iter, size, stale>>
    PROVE  /\ (Begun \/ Going)' /\ (Going => Going')
           /\ ~ timer'.reset
           /\ (Clean => InStep)'
           /\ (overlay = "tgen" /\ size = 1 /\ (feat # None \/ mlp.beat # None) => watch.ended)'
           /\ (overlay # "core" /\ size = 1 /\ ~ watch.ended => Coming)'
<1>1. Begun => Begun'
  BY DEF Begun, Empty, Still
<1>2. Going => Going'
  BY DEF Going
<1>3. (Clean => InStep)'
  BY DEF Started, Clean, InStep, Run, Stop
<1>4. Coming => Coming'
  BY DEF Coming, Present
<1> QED
  BY <1>1, <1>2, <1>3, <1>4 DEF Started

LEMMA Accesses ==
    ASSUME IInv, Started, TGenIsDone \/ MlpIsDone \/ AckMlp
    PROVE  Started'
<1>1. /\ reading = None /\ reading' = None /\ ready /\ ~ ready'
      /\ \/ pc = "tgen" /\ pc' = (IF overlay = "core" THEN "read" ELSE "isr")
         \/ pc = "isr" /\ pc' = "ack" /\ mlp.isr
         \/ pc = "ack" /\ pc' = "read"
      /\ UNCHANGED <<overlay, wire, feat, score, sink, timer, watch, iter, size, stale>>
  <2>1. CASE TGenIsDone
    BY <2>1 DEF TGenIsDone, Access, Started
  <2>2. CASE MlpIsDone
    BY <2>2 DEF MlpIsDone, Access, Started, fabric
  <2>3. CASE AckMlp
    BY <2>3 DEF AckMlp, Access, Started
  <2> QED
    BY <2>1, <2>2, <2>3
<1>2. /\ tgen'.at = tgen.at /\ tgen'.start = tgen.start /\ tgen'.left = tgen.left
      /\ tgen'.pkt = tgen.pkt /\ tgen'.hw_start = tgen.hw_start /\ tgen'.last = tgen.last
  <2>1. tgen \in Generators
    BY DEF IInv, TypeOK
  <2>2. tgen' = tgen \/ tgen' = [tgen EXCEPT !.ap_done = FALSE]
    BY DEF TGenIsDone, MlpIsDone, AckMlp, fabric
  <2> QED
    BY ONLY <2>1, <2>2 DEF Generators
<1>3. /\ mlp'.beat = mlp.beat /\ mlp'.done = mlp.done /\ (mlp'.isr => mlp.isr)
      /\ pc = "isr" => (mlp'.isr <=> mlp.isr)
  <2>1. mlp \in Stages
    BY DEF IInv, TypeOK
  <2>2. \/ mlp' = mlp
        \/ pc = "ack" /\ mlp.isr /\ mlp' = [mlp EXCEPT !.isr = ~ @]
    BY DEF TGenIsDone, MlpIsDone, AckMlp, fabric, Access, IInv
  <2> QED
    BY ONLY <2>1, <2>2 DEF Stages
<1>4. /\ (Begun \/ Going)' /\ (Going => Going') /\ ~ timer'.reset /\ (Clean => InStep)'
      /\ (overlay = "tgen" /\ size = 1 /\ (feat # None \/ mlp.beat # None) => watch.ended)'
      /\ (overlay # "core" /\ size = 1 /\ ~ watch.ended => Coming)'
  BY <1>1, <1>2, <1>3, AccessKeeps
<1>5. pc' \in {"ack", "read"} /\ overlay # "core" /\ ~ stale => Going'
  BY <1>1, <1>4 DEF Started, Begun
<1>6. size <= 1 /\ overlay # "core" /\ ~ stale => OneBeat'
  BY <1>1, <1>3 DEF Started, OneBeat
<1> QED
  BY <1>1, <1>4, <1>5, <1>6 DEF Started

LEMMA LastAccesses ==
    ASSUME IInv, Started, ReadCycles \/ TimeOut
    PROVE  Started'
<1>1. /\ pc' = "next" /\ ready /\ reading = None
      /\ UNCHANGED <<overlay, wire, tgen, feat, mlp, score, sink, timer, watch, iter, size, stale>>
  BY DEF ReadCycles, TimeOut, Access, Started, fabric
<1>2. /\ (Begun \/ Going)' /\ ~ timer'.reset /\ (Clean => InStep)'
      /\ (overlay = "tgen" /\ size = 1 /\ (feat # None \/ mlp.beat # None) => watch.ended)'
      /\ (overlay # "core" /\ size = 1 /\ ~ watch.ended => Coming)'
  BY <1>1, AccessKeeps
<1>3. reading' # None => /\ pc = "read" /\ reading'.cycles = timer.counter
                         /\ reading'.ended = watch.ended
  <2>1. CASE ReadCycles
    BY <2>1 DEF ReadCycles, Access
  <2>2. CASE TimeOut
    BY <1>1, <2>2 DEF TimeOut
  <2> QED
    BY <2>1, <2>2
<1>4. size <= 1 /\ overlay # "core" /\ ~ stale => OneBeat'
  <2>1. size <= 1 /\ overlay # "core" /\ ~ stale => OneBeat
    BY DEF Started
  <2> QED
    BY ONLY <1>1, <1>3, <2>1 DEF OneBeat
<1>5. watch.ended => ~ watch.running
  BY DEF Started, Begun, Going
<1>6. Clean => timer.counter = watch.cycles
  BY DEF Started, InStep
<1> QED
  BY <1>1, <1>2, <1>3, <1>4, <1>5, <1>6 DEF Started, Clean

(* What an early reading leaves behind, over an access and over the step to *)
(* the next iteration.                                                      *)
LEMMA AlternatesScript ==
    ASSUME IInv, Script, overlay' # "core"
    PROVE  Alternates'
<1>0. TypeOK /\ overlay' = overlay /\ Alternates
  <2>1. overlay' = overlay
    BY DEF Script, ClearISR, ResetTimer, StartTGen, TGenIsDone, MlpIsDone, AckMlp, ReadCycles,
           TimeOut, NextIteration
  <2> QED
    BY <2>1 DEF IInv
<1>1. CASE ClearISR
  <2>1. /\ pc = "clear" /\ pc' = "reset" /\ (quiet' <=> FabricQuiet)
        /\ early' = early /\ (stale' <=> ~ mlp.isr)
    BY <1>1 DEF ClearISR, Access, FabricQuiet
  <2>2. FabricQuiet /\ Owes => mlp.isr
    BY DEF FabricQuiet, Owes, Present
  <2> QED
    BY <1>0, <2>1, <2>2 DEF Alternates
<1>2. CASE ResetTimer \/ StartTGen \/ TGenIsDone \/ MlpIsDone \/ AckMlp
  <2>1. /\ pc # "clear" /\ pc' \notin {"clear", "next"} /\ ~ ready'
        /\ UNCHANGED <<quiet, stale, early>>
    BY <1>0, <1>2 DEF ResetTimer, StartTGen, TGenIsDone, MlpIsDone, AckMlp, Access
  <2> QED
    BY <1>0, <2>1 DEF Alternates
<1>3. CASE ReadCycles
  <2>1. /\ pc = "read" /\ ready /\ pc' = "next" /\ (reading' # None => reading'.ended = watch.ended)
        /\ UNCHANGED <<tgen, feat, mlp, size, quiet, stale, early>>
    BY <1>3 DEF ReadCycles, Access, fabric
  <2>2. Owes => Owes'
    BY <2>1 DEF Owes, Present
  <2> QED
    BY <1>0, <2>1, <2>2 DEF Alternates, ReadTooEarly
<1>4. CASE TimeOut
  <2>1. /\ pc \in {"tgen", "isr"} /\ pc' = "next"
        /\ UNCHANGED <<quiet, stale, early, reading>>
    BY <1>4 DEF TimeOut
  <2>2. quiet => reading = None
    BY <2>1 DEF IInv, Started
  <2> QED
    BY <1>0, <2>1, <2>2 DEF Alternates, ReadTooEarly
<1>5. CASE NextIteration
  <2>1. /\ pc = "next" /\ pc' = "clear" /\ early' = ReadTooEarly
        /\ UNCHANGED <<tgen, feat, mlp>>
    BY <1>5 DEF NextIteration, fabric
  <2>2. Owes => Owes'
    BY <2>1 DEF Owes, Present
  <2> QED
    BY <1>0, <2>1, <2>2 DEF Alternates
<1> QED
  BY <1>1, <1>2, <1>3, <1>4, <1>5 DEF Script

(* A step that changes no variable. *)
LEMMA Stutters ==
    ASSUME IInv, UNCHANGED vars
    PROVE  IInv'
<1>1. UNCHANGED <<overlay, wire, tgen, feat, mlp, score, sink, timer, watch, pc, iter, size,
                  ready, quiet, stale, early, reading>>
  BY DEF vars, fabric
<1>2. TypeOK'
  BY <1>1 DEF IInv, TypeOK
<1>3. Waiting => Waiting'
  BY <1>1 DEF Waiting, Empty, Still, Clean
<1>4. Started => Started'
  <2>1. /\ (Begun => Begun') /\ (Going => Going') /\ (InStep => InStep') /\ (OneBeat => OneBeat')
        /\ (Coming => Coming')
    BY <1>1 DEF Begun, Going, InStep, OneBeat, Empty, Still, Run, Stop, Coming, Present
  <2>2. Clean' <=> Clean
    BY <1>1 DEF Clean
  <2> QED
    BY <1>1, <2>1, <2>2 DEF Started
<1>5. Alternates => Alternates'
  BY <1>1 DEF Alternates, Owes, Present, ReadTooEarly
<1> QED
  BY <1>1, <1>2, <1>3, <1>4, <1>5 DEF IInv

LEMMA StepIInv == IInv /\ [Next]_vars => IInv'
<1> SUFFICES ASSUME IInv, [Next]_vars PROVE IInv'
  OBVIOUS
<1>1. ASSUME NEW finish \in BOOLEAN, Tick(finish) PROVE IInv'
  <2>1. TypeOK /\ (pc = "ack" => mlp.isr)
    BY DEF IInv
  <2>2. UNCHANGED <<overlay, pc, quiet, reading>>
    BY <1>1, <2>1, BeatFields
  <2>3. TypeOK' /\ (Waiting => Waiting') /\ (Started => Started')
    BY <1>1, <2>1, TickTyped, WaitingTicks, StartedTicks
  <2>4. (pc = "ack" => mlp.isr)'
    BY <1>1, <2>1, <2>2, BeatFields
  <2>5. (overlay # "core" => Alternates)'
    BY <1>1, <2>1, <2>2, AlternatesTicks DEF IInv
  <2> QED
    BY <2>2, <2>3, <2>4, <2>5 DEF IInv
<1>2. CASE Script
  <2>0. TypeOK' /\ (overlay # "core" => Alternates)'
    BY <1>2, ScriptTyped, AlternatesScript DEF IInv
  <2>1. CASE ClearISR \/ ResetTimer
    <3>1. pc' \in {"reset", "release", "start"}
      BY <2>1 DEF ClearISR, ResetTimer, Access
    <3> QED
      BY <2>0, <2>1, <3>1, Prepares DEF IInv
  <2>2. CASE StartTGen
    <3>1. pc' = "tgen" /\ quiet' = quiet
      BY <2>2 DEF StartTGen, Access
    <3> QED
      BY <2>0, <2>2, <3>1, Starts DEF IInv
  <2>3. CASE TGenIsDone \/ MlpIsDone \/ AckMlp
    <3>1. pc \in {"tgen", "isr", "ack"} /\ pc' \in {"isr", "ack", "read"} /\ quiet' = quiet
      BY <2>3 DEF TGenIsDone, MlpIsDone, AckMlp, Access
    <3>2. quiet => Started
      BY <3>1 DEF IInv
    <3>3. quiet' => Started'
      BY <2>3, <3>1, <3>2, Accesses
    <3>4. pc' = "ack" => mlp'.isr
      BY <2>3 DEF TGenIsDone, MlpIsDone, AckMlp, Access, fabric
    <3> QED
      BY <2>0, <3>1, <3>3, <3>4 DEF IInv
  <2>4. CASE ReadCycles \/ TimeOut
    <3>1. pc \in {"tgen", "isr", "read"} /\ pc' = "next" /\ quiet' = quiet
      BY <2>4 DEF ReadCycles, TimeOut, Access
    <3>2. quiet => Started
      BY <3>1 DEF IInv
    <3>3. quiet' => Started'
      BY <2>4, <3>1, <3>2, LastAccesses
    <3> QED
      BY <2>0, <3>1, <3>3 DEF IInv
  <2>5. CASE NextIteration
    BY <2>0, <2>5 DEF NextIteration, IInv
  <2> QED
    BY <1>2, <2>1, <2>2, <2>3, <2>4, <2>5 DEF Script
<1>3. CASE UNCHANGED vars
  BY <1>3, Stutters
<1> QED
  BY <1>1, <1>2, <1>3, ClockTicks DEF Next

-----------------------------------------------------------------------------
(* In an iteration that met an empty fabric the counter goes in step with a *)
(* stop watch on its packet, the completion bit rises with the iteration's  *)
(* own beat when the write before it has cleared it (and after an early     *)
(* reading it has): every state of the overlays satisfies the invariant,    *)
(* whatever the sizes of the packets, the number of iterations and the time *)
(* the scoring stage takes.                                                 *)
THEOREM BenchInvariant == Spec => []IInv
<1>1. Init => IInv
  BY InitIInv
<1>2. IInv /\ [Next]_vars => IInv'
  BY StepIInv
<1> QED
  BY <1>1, <1>2, PTL DEF Spec

(* A reading that follows the end of its packet counts the clocks of that   *)
(* packet and of no other (run_fpga_once of the three scripts, with         *)
(* latency_timer).                                                          *)
THEOREM ReadingCountsItsPacket == Spec => []CountsItsPacket
<1>1. IInv => CountsItsPacket
  <2> SUFFICES ASSUME IInv, Measured, Clean PROVE reading.cycles = watch.cycles
    BY DEF CountsItsPacket, Clean
  <2>1. pc # "clear" /\ quiet
    BY DEF IInv, Measured
  <2>2. pc \notin {"reset", "release", "start"}
    BY <2>1 DEF IInv, Measured, Waiting
  <2>3. Started
    BY <2>1, <2>2 DEF IInv, TypeOK
  <2> QED
    BY <2>3 DEF Started, Measured
<1> QED
  BY <1>1, BenchInvariant, PTL

(* A reading is taken in Started only. *)
LEMMA NoEarlyStep == IInv => ReadAfterTheEnd
<1> SUFFICES ASSUME IInv, reading # None, quiet, ~ stale, overlay # "core", size <= 1
             PROVE  reading.ended
  BY DEF ReadAfterTheEnd
<1>1. pc # "clear"
  BY DEF IInv
<1>2. pc \notin {"reset", "release", "start"}
  BY <1>1 DEF IInv, Waiting
<1>3. Started
  BY <1>1, <1>2 DEF IInv, TypeOK
<1> QED
  BY <1>3 DEF Started, OneBeat

(* mlp_wait_done_and_clear, after a write that found the completion bit set *)
(* and so cleared it, never takes an earlier completion for the one of this *)
(* iteration's beat: the counter is read after the packet has ended.        *)
THEOREM NoEarlyReading == Spec => []ReadAfterTheEnd
BY NoEarlyStep, BenchInvariant, PTL

(* run_fpga_once, whose first write toggles the completion bit, takes no    *)
(* two readings in a row before their beats have ended: the beat of the     *)
(* first leaves the bit set for the write of the second to clear.           *)
THEOREM NoTwoEarlyReadings == Spec => []NeverTwiceEarly
<1>1. IInv => NeverTwiceEarly
  <2> SUFFICES ASSUME IInv, reading # None, quiet, early, overlay # "core", size <= 1
               PROVE  reading.ended
    BY DEF NeverTwiceEarly
  <2>1. pc # "clear"
    BY DEF IInv
  <2>2. ~ stale
    BY <2>1 DEF IInv, Alternates
  <2>3. ReadAfterTheEnd
    BY NoEarlyStep
  <2> QED
    BY <2>2, <2>3 DEF ReadAfterTheEnd
<1> QED
  BY <1>1, BenchInvariant, PTL

=============================================================================
