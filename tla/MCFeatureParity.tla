---------------------------- MODULE MCFeatureParity ----------------------------
(* Bytes of three bits: quantities and totals of -2048 to 2047, packets of  *)
(* at most 4 deltas; one level of a book.                                   *)
EXTENDS FeatureParity

D(action, side, qty, price, level) ==
    [price |-> price, qty |-> qty, level |-> level, side |-> side, action |-> action]

(* Quantities that overflow together, a price that moves, a level beyond    *)
(* the book, and a packet whose count is taken for the reset bit.           *)
MCBatches == {
    <<D(0, 0, 300, 60, 0)>>,
    <<D(1, 0, 1200, 0, 0), D(2, 1, 500, 0, 0)>>,
    <<D(2, 0, -100, 0, 0), D(3, 1, 0, 0, 0)>>,
    <<D(1, 1, 40, 0, 1), D(0, 1, 40, 90, 1)>>,
    <<D(1, 0, 1, 0, 0), D(1, 0, 1, 0, 0), D(1, 1, 1, 0, 0), D(2, 1, -1, 0, 0)>>}

=============================================================================
