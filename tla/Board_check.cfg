\* Files of two lines and one restart.  The board may stop: that is what
\* happens when brdstats wakes up inside a long read.
CONSTANTS
  Lines <- MCLines
  MaxLines = 2
  MaxCuts = 1
SPECIFICATION BoardFairSpec
INVARIANTS ConfiguredAsFileSays DatWhole StatsFromTheirDevices SettingsStored
PROPERTIES StatsGoOn MenuComesBack
CHECK_DEADLOCK FALSE
