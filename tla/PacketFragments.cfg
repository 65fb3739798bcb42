\* A packet cut short passes for a packet without CRC.
SPECIFICATION Spec
CONSTANTS
    SeqMod = 100
    Base = 10
    MaxEmitted = 14
INVARIANT NoInventedLoss
