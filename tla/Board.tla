------------------------------- MODULE Board --------------------------------
(***************************************************************************)
(* The board from power-on: main sets up the clocks and the converters     *)
(* (BringUp), the main thread reads the SD card and starts the network     *)
(* (SdCard), then the console and brdstats share the I2C bus (I2cBus).     *)
(* The power may go at any moment, and the console can reboot; the SD card *)
(* and the EEPROM keep what they hold.                                     *)
(***************************************************************************)
EXTENDS SdCard, BringUp

CONSTANT MaxCuts      \* bound on restarts

VARIABLE cuts

boardVars == <<sdVars, busVars, main, cuts>>

BoardInit == SdInit /\ BusInit /\ main = "buses" /\ cuts = 0

-----------------------------------------------------------------------------
BoardMain == MainStep /\ UNCHANGED <<sdVars, cuts>>

\* Before the daemons exist the main thread has the bus for itself; the
\* hardware address is read from the EEPROM.
BoardBoot ==
  /\ main = "run"
  /\ \/ \E l \in Lines :
          /\ NetconfLine(l[1], l[2])
          /\ IF ReadsMac(l[1], l[2]) THEN port' = "eeprom" ELSE UNCHANGED port
     \/ FileStep /\ UNCHANGED port
  /\ UNCHANGED <<bus, eeVars, conVars, brdVars, torn, main, cuts>>

\* on_startup has created the daemons and the console.
Started == boot = "up"

BoardConsole == Started /\ Console /\ UNCHANGED <<sdVars, main, cuts>>

BoardBrdWake == Started /\ BrdWake /\ UNCHANGED <<sdVars, main, cuts>>

BoardBrdstats == Started /\ Brdstats /\ UNCHANGED <<sdVars, main, cuts>>

\* The power goes, or the console's menu reboots.
PowerCut ==
  /\ cuts < MaxCuts /\ cuts' = cuts + 1
  /\ SdCut /\ BusCut /\ main' = "buses"

BoardNext == BoardMain \/ BoardBoot \/ BoardConsole \/ BoardBrdWake \/ BoardBrdstats \/ PowerCut

BoardSpec == BoardInit /\ [][BoardNext]_boardVars

\* main, the main thread and brdstats run; the console gets a turn again and again,
\* for brdstats sleeps a second in every round.
BoardFairSpec ==
  /\ BoardSpec
  /\ WF_boardVars(BoardMain) /\ WF_boardVars(BoardBoot)
  /\ WF_boardVars(BoardBrdWake) /\ WF_boardVars(BoardBrdstats)
  /\ SF_boardVars(BoardConsole /\ con # "menu")
-----------------------------------------------------------------------------
\* The board comes up and brdstats keeps sending, whatever the console does to
\* the bus, unless the converters have no driver, or brdstats wakes up inside
\* the console's long read: then it spins for a bus that only the console could
\* free, and neither goes on.
StatsGoOn == []<>(brd = "send") \/ <>[](main = "dead") \/ <>[]caught
=============================================================================
