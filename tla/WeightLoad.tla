------------------------------ MODULE WeightLoad ------------------------------
(***************************************************************************)
(* The weights of the inference core: weight_loader.cpp streams the four   *)
(* sections of a model as words, mlp_infer_stream.cpp stores them in its   *)
(* static arrays while reload_weights is set and computes scores from them *)
(* when it is not, and run_cycle_bench.py starts the one and the other     *)
(* (fpga/ip/feature_pipe, fpga/pynq).  Every access of the driver to the    *)
(* registers may fail: the exception is printed, and the next block of it   *)
(* is tried.                                                                *)
(*                                                                         *)
(* A word is the tuple of its bytes, the most significant first.  The      *)
(* scales of the layers are 1 here and inputs are given quantised.         *)
(***************************************************************************)
EXTENDS Integers, Functions

CONSTANTS
    None,
    H, D,     \* hidden units and inputs: 32 and 4
    Lanes,    \* bytes of a word: 4
    Bits,     \* width of a byte: 8
    Loads,    \* models: [sizes, image], bytes or words of each section
    Told,     \* the sections whose sizes the loader may find right (else 0)
    Aimed,    \* the sections whose pointers it may find right
    Stray,    \* the words a wrong pointer may yield
    Inputs    \* quantised features: [0 .. D - 1 -> Int]

Section == 1 .. 4   \* W0, B0, W1, B1
InBytes == {1, 3}

Cap == [s \in Section |-> CASE s = 1 -> H * D [] s \in {2, 3} -> H [] s = 4 -> 1]

Byte == 0 .. 2 ^ Bits - 1
Word == [0 .. Lanes - 1 -> Byte]
Item(s) == IF s \in InBytes THEN Byte ELSE Word
Zero(s) == IF s \in InBytes THEN 0 ELSE [k \in 0 .. Lanes - 1 |-> 0]

(* The arrays hold a whole number of words.  More words of B0 than hidden   *)
(* units would be stored outside of its array.                              *)
ASSUME LoadAssumption ==
    /\ {H, D, Lanes, Bits} \subseteq Nat \ {0}
    /\ \A s \in InBytes : Cap[s] % Lanes = 0
    /\ \A l \in Loads :
          /\ DOMAIN l = {"sizes", "image"}
          /\ l.sizes \in [Section -> Nat]
          /\ l.sizes[2] <= H
          /\ DOMAIN l.image = Section
          /\ \A s \in Section : l.image[s] \in [0 .. l.sizes[s] - 1 -> Item(s)]
    /\ Told \subseteq SUBSET Section /\ Aimed \subseteq SUBSET Section
    /\ Stray \subseteq [0 .. Lanes - 1 -> Int]
    /\ None \notin [0 .. Lanes - 1 -> Int]

VARIABLES
    load,    \* the model the driver loads
    pc,      \* where the driver is
    acked,   \* history: the end of the load was acknowledged
    loader,  \* weight_loader: running, its next word's section and index, the
             \* sizes its call reads, and the sections it reads from their places
    chan,    \* the word between the two cores, or None
    mlp,     \* mlp_infer_stream: its call, and the next word it expects
    ctrl,    \* its registers: reload_weights, ap_start, auto_restart, the ISR
    cache,   \* its static arrays
    feat,    \* the feature beat offered to it, or None
    score    \* the last score and its inputs, or None

vars == <<load, pc, acked, loader, chan, mlp, ctrl, cache, feat, score>>

-----------------------------------------------------------------------------
(* The place of a word in a load; section 5 is its end. *)
End == [sec |-> 5, at |-> 0]
Place == [sec : Section, at : Nat] \cup {End}

Stride(s) == IF s \in InBytes THEN Lanes ELSE 1

(* The first place from `at' in section s on that the limits leave to visit. *)
Settle(s, at, limit) ==
    IF at < limit[s] THEN [sec |-> s, at |-> at]
    ELSE CHOOSE p \in {[sec |-> r, at |-> 0] : r \in s + 1 .. 4} \cup {End} :
            /\ p # End => limit[p.sec] > 0
            /\ \A r \in s + 1 .. p.sec - 1 : limit[r] = 0

First(limit) == Settle(1, 0, limit)
After(p, limit) == Settle(p.sec, p.at + Stride(p.sec), limit)

(* The loader sends what was announced. *)
Announced == loader.sizes

(* Slip: the core waits for one word more. *)
ExpectedOneMore == [s \in Section |-> IF load.sizes[s] > 0 THEN load.sizes[s] + Lanes ELSE 0]

(* The loops of the core also stop where its byte arrays end. *)
Expected ==
    [s \in Section |-> IF s \in InBytes /\ load.sizes[s] > Cap[s] THEN Cap[s] ELSE load.sizes[s]]

(* A word of bytes is padded with zeros. *)
WordAt(p) ==
    IF p.sec \in InBytes
    THEN [k \in 0 .. Lanes - 1 |->
             IF p.at + k < Announced[p.sec] THEN load.image[p.sec][p.at + k] ELSE 0]
    ELSE load.image[p.sec][p.at]

(* Slip: the least significant byte first. *)
StoredReversed(array, p, word) ==
    [i \in 0 .. Cap[p.sec] - 1 |->
        IF p.sec \in InBytes
        THEN IF p.at <= i /\ i < p.at + Lanes /\ i < load.sizes[p.sec]
             THEN word[Lanes - 1 - (i - p.at)] ELSE array[i]
        ELSE IF i = p.at THEN word ELSE array[i]]

(* What the core makes of a word: bytes that were announced are stored. *)
Stored(array, p, word) ==
    [i \in 0 .. Cap[p.sec] - 1 |->
        IF p.sec \in InBytes
        THEN IF p.at <= i /\ i < p.at + Lanes /\ i < load.sizes[p.sec] THEN word[i - p.at] ELSE array[i]
        ELSE IF i = p.at THEN word ELSE array[i]]

-----------------------------------------------------------------------------
(* The inference of the core, and its weights as the bytes they are stored  *)
(* as (ap_uint<8>).  The biases are signed words.                           *)
Unsigned(b) == b
Signed(b) == IF b >= 2 ^ (Bits - 1) THEN b - 2 ^ Bits ELSE b

Bias(word) ==
    LET value[k \in 0 .. Lanes] == IF k = 0 THEN 0 ELSE value[k - 1] * 2 ^ Bits + word[k - 1]
        half == 2 ^ (Bits * Lanes - 1)
    IN IF value[Lanes] >= half THEN value[Lanes] - 2 * half ELSE value[Lanes]

Plus(a, b) == a + b
Total(f) == FoldFunction(Plus, 0, f)

Activation(acc) == IF acc < 0 THEN 0 ELSE IF acc >= 2 ^ (Bits - 1) THEN 2 ^ (Bits - 1) - 1 ELSE acc

Score(weights, x, Weight(_)) ==
    LET hidden == [h \in 0 .. H - 1 |-> Activation(
            Bias(weights[2][h]) + Total([d \in 0 .. D - 1 |-> x[d] * Weight(weights[1][h * D + d])]))]
    IN Bias(weights[4][0]) + Total([h \in 0 .. H - 1 |-> hidden[h] * Weight(weights[3][h])])

-----------------------------------------------------------------------------
NoWeights == [s \in Section |-> [i \in 0 .. Cap[s] - 1 |-> Zero(s)]]

Init ==
    /\ load \in Loads
    /\ pc = "off"
    /\ acked = FALSE
    /\ loader = [on |-> FALSE, pos |-> End, sizes |-> [s \in Section |-> 0], aimed |-> {}]
    /\ chan = None
    /\ mlp = [at |-> "idle", pos |-> End]
    /\ ctrl = [reload |-> FALSE, start |-> FALSE, auto |-> FALSE, isr |-> FALSE]
    /\ cache = NoWeights
    /\ feat = None
    /\ score = None

(* run_cycle_bench.py: the driver programs the sizes, sets reload_weights   *)
(* and starts the core, which waits for words...                            *)
SetUp ==
    /\ pc = "off"
    /\ ctrl' = [ctrl EXCEPT !.reload = TRUE, !.start = TRUE]
    /\ pc' = "loader"
    /\ UNCHANGED <<load, acked, loader, chan, mlp, cache, feat, score>>

(* ... or fails to, before or after it has set reload_weights.              *)
SetUpFails ==
    /\ pc = "off"
    /\ \E reload \in BOOLEAN : ctrl' = [ctrl EXCEPT !.reload = reload]
    /\ pc' = "loader"
    /\ UNCHANGED <<load, acked, loader, chan, mlp, cache, feat, score>>

(* With ENABLE_WEIGHT_LOAD off, it goes on without weights. *)
SkipLoad ==
    /\ pc = "off"
    /\ pc' = "auto"
    /\ UNCHANGED <<load, acked, loader, chan, mlp, ctrl, cache, feat, score>>

(* program_weight_loader starts the loader with the pointers and sizes that *)
(* it could program.                                                        *)
StartLoader ==
    /\ pc = "loader"
    /\ \E told \in Told, aimed \in Aimed :
          LET sizes == [s \in Section |-> IF s \in told THEN load.sizes[s] ELSE 0]
          IN loader' = [on |-> TRUE, pos |-> First(sizes), sizes |-> sizes, aimed |-> aimed]
    /\ pc' = "again"
    /\ UNCHANGED <<load, acked, chan, mlp, ctrl, cache, feat, score>>

StartFails ==
    /\ pc = "loader"
    /\ pc' = "again"
    /\ UNCHANGED <<load, acked, loader, chan, mlp, ctrl, cache, feat, score>>

(* The sections that the loader's call has not come to. *)
Unread == {s \in Section : loader.pos.sec < s \/ loader.pos = [sec |-> s, at |-> 0]}

(* Pointers and w1_bytes are written once more, when the loader is running: *)
(* its call sees them in time or not.                                       *)
Reassert ==
    /\ pc = "again"
    /\ \/ /\ loader.on
          /\ \E found \in Aimed :
                loader' = [loader EXCEPT !.aimed = @ \cup (found \cap Unread)]
       \/ /\ loader.on
          /\ 3 \in Unread
          /\ \E found \in Aimed :
                loader' = [loader EXCEPT !.aimed = @ \cup (found \cap Unread),
                                         !.sizes[3] = load.sizes[3]]
       \/ UNCHANGED loader
    /\ pc' = "wait"
    /\ UNCHANGED <<load, acked, chan, mlp, ctrl, cache, feat, score>>

Acknowledge ==
    /\ pc = "wait"
    /\ ctrl.isr
    /\ ctrl' = [ctrl EXCEPT !.isr = FALSE]
    /\ acked' = TRUE
    /\ pc' = "off2"
    /\ UNCHANGED <<load, loader, chan, mlp, cache, feat, score>>

(* After 200 ms, when a core that was started has long begun, the driver    *)
(* warns and goes on just the same.                                         *)
GiveUp ==
    /\ pc = "wait"
    /\ ctrl.start => mlp.at = "reload"
    /\ pc' = "off2"
    /\ UNCHANGED <<load, acked, loader, chan, mlp, ctrl, cache, feat, score>>

ReloadOff ==
    /\ pc = "off2"
    /\ ctrl' = [ctrl EXCEPT !.reload = FALSE]
    /\ pc' = "auto"
    /\ UNCHANGED <<load, acked, loader, chan, mlp, cache, feat, score>>

AutoRestart ==
    /\ pc = "auto"
    /\ ctrl' = [ctrl EXCEPT !.start = TRUE, !.auto = TRUE]
    /\ pc' = "bench"
    /\ UNCHANGED <<load, acked, loader, chan, mlp, cache, feat, score>>

(* "Weight load failed (continuing with zeros)" *)
LoadFails ==
    /\ pc \in {"wait", "off2", "auto"}
    /\ pc' = "bench"
    /\ UNCHANGED <<load, acked, loader, chan, mlp, ctrl, cache, feat, score>>

Offer(x) ==
    /\ pc = "bench"
    /\ feat = None
    /\ feat' = x
    /\ UNCHANGED <<load, pc, acked, loader, chan, mlp, ctrl, cache, score>>

-----------------------------------------------------------------------------
(* weight_loader *)
Put ==
    /\ loader.on
    /\ chan = None
    /\ IF loader.pos = End
       THEN loader' = [loader EXCEPT !.on = FALSE] /\ UNCHANGED chan
       ELSE /\ IF loader.pos.sec \in loader.aimed
               THEN chan' = WordAt(loader.pos) ELSE chan' \in Stray
            /\ loader' = [loader EXCEPT !.pos = After(@, Announced)]
    /\ UNCHANGED <<load, pc, acked, mlp, ctrl, cache, feat, score>>

(* mlp_infer_stream: a call begins... *)
Begin ==
    /\ mlp.at = "idle"
    /\ ctrl.start
    /\ mlp' = IF ctrl.reload THEN [at |-> "reload", pos |-> First(Expected)]
              ELSE [mlp EXCEPT !.at = "infer"]
    /\ UNCHANGED <<load, pc, acked, loader, chan, ctrl, cache, feat, score>>

(* ... stores a word... *)
Take ==
    /\ mlp.at = "reload"
    /\ mlp.pos # End
    /\ chan # None
    /\ cache' = [cache EXCEPT ![mlp.pos.sec] = Stored(@, mlp.pos, chan)]
    /\ mlp' = [mlp EXCEPT !.pos = After(@, Expected)]
    /\ chan' = None
    /\ UNCHANGED <<load, pc, acked, loader, ctrl, feat, score>>

(* ... and ends.  ap_start is then what auto_restart says. *)
Return ==
    /\ mlp' = [mlp EXCEPT !.at = "idle"]
    /\ ctrl' = [ctrl EXCEPT !.start = ctrl.auto, !.isr = TRUE]

(* Slip: an empty stream is taken for the end of the load. *)
EndReloadEarly ==
    /\ mlp.at = "reload"
    /\ mlp.pos = End \/ chan = None
    /\ Return
    /\ UNCHANGED <<load, pc, acked, loader, chan, cache, feat, score>>

EndReload ==
    /\ mlp.at = "reload"
    /\ mlp.pos = End
    /\ Return
    /\ UNCHANGED <<load, pc, acked, loader, chan, cache, feat, score>>

Infer ==
    /\ mlp.at = "infer"
    /\ feat # None
    /\ score' = [x |-> feat, value |-> Score(cache, feat, Unsigned)]
    /\ feat' = None
    /\ Return
    /\ UNCHANGED <<load, pc, acked, loader, chan, cache>>

Core == Begin \/ Take \/ EndReload \/ Infer

Next ==
    \/ SetUp \/ SetUpFails \/ SkipLoad
    \/ StartLoader \/ StartFails \/ Reassert
    \/ Acknowledge \/ GiveUp \/ ReloadOff \/ AutoRestart \/ LoadFails
    \/ \E x \in Inputs : Offer(x)
    \/ Put \/ Core

Spec == Init /\ [][Next]_vars

(* The two cores run; nothing is assumed of the driver. *)
FairSpec == Spec /\ WF_vars(Put) /\ WF_vars(Core)

-----------------------------------------------------------------------------
Fits == \A s \in Section : load.sizes[s] <= Cap[s]

(* The arrays after a complete load of an erased core. *)
Loaded ==
    [s \in Section |-> [i \in 0 .. Cap[s] - 1 |->
        IF i < load.sizes[s] THEN load.image[s][i] ELSE Zero(s)]]

(* The sections that the loader was pointed at, each byte of them. *)
InPlace == \A s \in loader.aimed : cache[s] = Loaded[s]

(* Whatever accesses of the driver failed, or came while the loader was     *)
(* running: a load that fits and was acknowledged had all of its sizes and  *)
(* has left nothing in the stream, and each section whose pointer the       *)
(* loader saw in time is in place byte for byte.                            *)
LoadLandsInPlace ==
    acked /\ Fits =>
        /\ Announced = load.sizes
        /\ chan = None /\ loader.pos = End
        /\ InPlace

(* No score is computed from half a model, even when the driver gave up on  *)
(* the load while it was running, or started the loader with other sizes    *)
(* than the core's: the core is in its inference path only with all of the  *)
(* sections the loader was pointed at, or with zeros.                       *)
NeverTorn ==
    mlp.at = "infer" /\ Fits => InPlace \/ cache = NoWeights

(* A load that fits, once both cores run with the same sizes, is over some  *)
(* time later, whatever the driver does in the meantime: neither is left    *)
(* waiting for the other.                                                   *)
LoadCompletes ==
    mlp.at = "reload" /\ loader.on /\ Announced = load.sizes /\ Fits
        ~> mlp.at # "reload" /\ ~ loader.on

(* "W0: H*D int8", "W1: H int8": a score is that of the signed weights.     *)
SignedWeights ==
    acked /\ Fits /\ InPlace /\ loader.aimed = Section /\ score # None =>
        score.value = Score(Loaded, score.x, Signed)

=============================================================================
