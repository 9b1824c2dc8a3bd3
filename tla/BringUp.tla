------------------------------ MODULE BringUp -------------------------------
(***************************************************************************)
(* main, before it starts the scheduler: the clock chips are written, the  *)
(* tiles of the RF data converter are started and synchronised.  It runs   *)
(* alone and looks at no status but that of InitRFdc, whose failure ends   *)
(* the program; then there is no daemon, and no console to reboot from.    *)
(***************************************************************************)
EXTENDS I2cBus

VARIABLE main      \* what main does next, "run" or "dead"

\* init_i2c, init_sysmon, and the branch of the monitor on the front end.
StartBuses ==
  /\ main = "buses" /\ main' = "clocks"
  /\ port' = "afe"

\* write_lmk61e2 selects its branch.
WriteOscillator ==
  /\ main = "clocks" /\ main' = "pll"
  /\ port' = "osc"

\* WriteLMK04828, behind the other expander.
WritePll ==
  /\ main = "pll" /\ main' = "monitor"
  /\ UNCHANGED port

\* ina226_init and two readings, which are -1 if nobody answers: the monitor's
\* branch is not selected any more.
ReadMonitor ==
  /\ main = "monitor" /\ main' = "converters"
  /\ UNCHANGED port

\* InitRFdc: without its driver there is no program.  A tile that is not ready
\* is left out.
StartConverters ==
  /\ main = "converters" /\ main' \in {"sync", "dead"}
  /\ UNCHANGED port

\* RunAdcMTS, which may fail.
SyncConverters ==
  /\ main = "sync" /\ main' = "receiver"
  /\ UNCHANGED port

\* The event receiver is reset, and the scheduler starts the main thread.
StartScheduler ==
  /\ main = "receiver" /\ main' = "run"
  /\ UNCHANGED port

MainStep ==
  /\ \/ StartBuses \/ WriteOscillator \/ WritePll \/ ReadMonitor
     \/ StartConverters \/ SyncConverters \/ StartScheduler
  /\ UNCHANGED <<bus, eeVars, conVars, brdVars, torn>>
=============================================================================
