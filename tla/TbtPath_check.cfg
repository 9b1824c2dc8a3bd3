\* Delays of two bits; three or four ADC clocks to one clock of the receiver.
CONSTANTS
  MaxDelay = 3
  MinEdges = 3
  MaxEdges = 4
SPECIFICATION PathFairSpec
INVARIANTS TypeOK PulsesOnTime ArmedUntilBothFired OneEdgePerPulse TakenInTime
PROPERTIES ReturnsToIdle
