----------------------------- MODULE MCWeightLoad -----------------------------
(* Two hidden units, two inputs, words of two bytes of two bits. *)
EXTENDS WeightLoad

MCInputs == {x \in [0 .. 1 -> {-1, 0, 1}] : x[0] = 1}

(* Nothing, a part of a word, whole words and more than the arrays hold. *)
MCSizes == {<<w0, b0, w1, b1>> : w0 \in {0, 3, 5}, b0 \in {0, 2}, w1 \in {0, 1, 3}, b1 \in {0, 1}}

(* What the source reports: b0 and b1 "stayed zero", w1 "got clobbered",    *)
(* w1_bytes "may have been zeroed"; or the first access of all has failed.  *)
MCAimed == {1 .. 4, {1, 3}, {1, 2, 4}, {}}
MCTold == {1 .. 4, {1, 2, 4}, {1}, {}}
MCStray == {[k \in 0 .. 1 |-> 3]}

(* Bytes that differ from their neighbours, with and without the top bit. *)
Image(sizes, a, b) ==
    [s \in 1 .. 4 |-> [i \in 0 .. sizes[s] - 1 |->
        IF s \in {1, 3} THEN (a * i + b + s) % 4
        ELSE [k \in 0 .. 1 |-> IF k = 1 THEN 1 + ((i + b) % 2) ELSE 0]]]

MCLoads == {[sizes |-> sizes, image |-> Image(sizes, a, b)] :
               sizes \in MCSizes, a \in {1, 3}, b \in {2}}

=============================================================================
