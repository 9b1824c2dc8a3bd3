\* A second of eleven edges, clocks of 150 and 200 MHz.
CONSTANTS
  Window = 11
  CountWord = 24
  Rates = {6, 8}
  MaxUpsets = 1
SPECIFICATION FairSpec
INVARIANTS FrequencyIsRecent LinksNotCrowded
PROPERTY KeepsMeasuring
