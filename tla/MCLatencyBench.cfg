CONSTANTS
    None = None
    Overlays = {"core", "nodma", "mlp", "tgen"}
    Wires = {"held", "strobe"}
    Beats = {0, 1, 2}
    Iterations = 3
    MaxCycles = 8
SPECIFICATION Spec
INVARIANTS
    CountsItsPacket
    ReadAfterTheEnd
    NeverTwiceEarly
CHECK_DEADLOCK FALSE
