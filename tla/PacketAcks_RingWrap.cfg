\* The rings wrap: more packets than slots, as after the 1024th packet.
CONSTANTS
    SeqCycle = 16
    RingSize = 4
    AckWindow = 2
    MaxPackets = 6
SPECIFICATION Spec
INVARIANT
    AckTruthful
