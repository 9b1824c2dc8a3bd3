------------------------------- MODULE I2cBus -------------------------------
(***************************************************************************)
(* The I2C bus behind its port expander, as brdstats.c and console.c use   *)
(* it through i2c_devices.c.  To reach a device a thread first writes the  *)
(* expander, then talks to the device: two transfers and no lock.  Devices *)
(* on different branches have the same addresses, 0x48 to 0x4B, so that on *)
(* the wrong branch another device answers or none does.                   *)
(*                                                                         *)
(* The console has a lower priority than brdstats.  It runs only while     *)
(* brdstats blocks, and brdstats can preempt it between any two transfers  *)
(* and inside its one long one: the controller holds the bus when its FIFO *)
(* of 16 bytes is full, until the preempted thread reads it.  Shorter      *)
(* transfers are finished by the controller alone.                         *)
(***************************************************************************)
EXTENDS Sequences, Ltc2991

Settings == <<"ip", "mask", "gw">>      \* EEPROM bytes 0, 16 and 32
Field == {"ip", "mask", "gw", "res"}    \* and 48
Blank == "blank"

VARIABLES
  port,        \* the branch the expander I2C_PORTEXP1_ADDR connects: "none", "afe"
               \* (0x40), "osc" (0x20), "temps" (1), "ltc" (4) or "eeprom" (0x80)
  bus,         \* "idle", or "held" by an unfinished long transfer
  stored,      \* the fields of the EEPROM that hold what was typed last
  burning,     \* the field of the EEPROM's write cycle, if it is in one: until the
               \* cycle is over it does not answer, and the field is not there
  con, todo,   \* console: where it is, and the fields it has yet to write
  brd, msg,    \* brdstats: where it is, and the branches the temperatures and the
               \* rails of msg are from, and whether the rails were measured
  ltc,         \* the LTC2991s: "off" as after power-up, "on" when they convert, or
               \* "ready" when every register holds a result
  sent,        \* history: brdstats has sent a message
  torn,        \* history: fields whose write was preempted, or that the power
               \* left before the end of their write cycle
  caught       \* history: brdstats woke up while the console held the bus

busVars == <<port, bus, stored, burning, con, todo, brd, msg, ltc, sent, torn, caught>>
conVars == <<con, todo>>
brdVars == <<brd, msg, ltc, sent, caught>>
eeVars  == <<stored, burning>>

NoMsg == [temps |-> Blank, rails |-> Blank, measured |-> FALSE]

\* Power-up.
BusInit ==
  /\ port = "none" /\ bus = "idle" /\ burning = {}
  /\ con = "menu" /\ todo = <<>>
  /\ brd = "delay" /\ msg = NoMsg /\ ltc = "off" /\ sent = FALSE
  /\ caught = FALSE
  /\ stored = Field /\ torn = {}

Fields(s) == {s[i] : i \in 1 .. Len(s)}

-----------------------------------------------------------------------------
(***************************************************************************)
(* The console.                                                            *)
(***************************************************************************)
\* Mutant of Runs: the priorities do not matter.
RunsAnyTime == TRUE

\* brdstats blocks in vTaskDelay or in psc_send.
Runs == brd \in {"delay", "send"}

\* The menu calls program_ip or set_resolution, and new values are typed in.
Choose(fields) ==
  /\ con = "menu" /\ Runs
  /\ con' = "select" /\ todo' = fields
  /\ stored' = stored \ Fields(fields) /\ torn' = torn \ Fields(fields)
  /\ UNCHANGED <<port, bus, burning, brdVars>>

\* The menu calls dump_eeprom.
ChooseDump ==
  /\ con = "menu" /\ Runs
  /\ con' = "dump"
  /\ UNCHANGED <<port, bus, eeVars, todo, torn, brdVars>>

\* Mutant of ConSelect: the branch is selected once, for the first field.
ConSelectOnce ==
  /\ con \in {"select", "dump"} /\ Runs
  /\ port' = IF con = "select" /\ todo # Settings /\ Head(todo) # "res" THEN port ELSE "eeprom"
  /\ con' = IF con = "select" THEN "write" ELSE "point"
  /\ UNCHANGED <<bus, eeVars, todo, torn, brdVars>>

\* i2c_eeprom_writeBytes and i2c_eeprom_readBytes: i2c_set_port_expander.
ConSelect ==
  /\ con \in {"select", "dump"} /\ Runs
  /\ port' = "eeprom"
  /\ con' = IF con = "select" THEN "write" ELSE "point"
  /\ UNCHANGED <<bus, eeVars, todo, torn, brdVars>>

\* Mutant of ConWrite: a field that was not acknowledged is tried again.
ConWriteRetries ==
  /\ con = "write" /\ Runs
  /\ IF port = "eeprom" /\ burning = {}
     THEN burning' = {Head(todo)} /\ con' = "pause" /\ todo' = Tail(todo)
     ELSE UNCHANGED <<burning, con, todo>>
  /\ UNCHANGED <<port, bus, stored, torn, brdVars>>

\* i2c_eeprom_writeBytes: i2c_write, whose status nobody looks at.  The EEPROM
\* begins a write cycle with what it was sent.
ConWrite ==
  /\ con = "write" /\ Runs
  /\ burning' = IF port = "eeprom" /\ burning = {} THEN {Head(todo)} ELSE burning
  /\ todo' = Tail(todo)
  /\ con' = "pause"
  /\ UNCHANGED <<port, bus, stored, torn, brdVars>>

\* usleep(100000) after a field, vTaskDelay of 100 ms before the menu: both
\* are longer than the write cycle of the EEPROM.
ConPause ==
  /\ con = "pause" /\ Runs
  /\ burning' = {} /\ stored' = stored \union burning
  /\ con' = IF todo = <<>> THEN "menu" ELSE "select"
  /\ UNCHANGED <<port, bus, todo, torn, brdVars>>

\* i2c_eeprom_readBytes: the address, then 128 bytes.
ConPoint ==
  /\ con = "point" /\ Runs
  /\ con' = "read"
  /\ UNCHANGED <<port, bus, eeVars, todo, torn, brdVars>>

ConRead ==
  /\ con = "read" /\ Runs
  /\ IF port = "eeprom" THEN con' = "reading" /\ bus' = "held"
                        ELSE con' = "pause" /\ UNCHANGED bus
  /\ UNCHANGED <<port, eeVars, todo, torn, brdVars>>

ConReadDone ==
  /\ con = "reading" /\ Runs
  /\ con' = "pause" /\ bus' = "idle"
  /\ UNCHANGED <<port, eeVars, todo, torn, brdVars>>

Console ==
  \/ Choose(Settings) \/ Choose(<<"res">>)
  \/ ChooseDump \/ ConSelect \/ ConWrite \/ ConPause
  \/ ConPoint \/ ConRead \/ ConReadDone

-----------------------------------------------------------------------------
(***************************************************************************)
(* brdstats.                                                               *)
(***************************************************************************)
\* The second is over, in which the monitors have gone round their pins.
BrdWake ==
  /\ brd = "delay"
  /\ brd' = "temps" /\ ltc' = IF ltc = "on" THEN "ready" ELSE ltc
  /\ caught' = (caught \/ bus = "held")
  /\ UNCHANGED <<port, bus, eeVars, conVars, msg, sent, torn>>

\* Mutant of BrdTransfer: it waits for the EEPROM as well.
BrdTransferWaits(from, to) ==
  /\ brd = from /\ bus = "idle" /\ burning = {}
  /\ brd' = to
  /\ UNCHANGED <<bus, eeVars, conVars, sent, caught>>

\* A transfer spins until the bus is idle; the console does not run meanwhile.
BrdTransfer(from, to) ==
  /\ brd = from /\ bus = "idle"
  /\ brd' = to
  /\ UNCHANGED <<bus, eeVars, conVars, sent, caught>>

BrdSelect(from, b, to) ==
  /\ BrdTransfer(from, to)
  /\ port' = b
  /\ torn' = IF con = "write" THEN torn \union {Head(todo)} ELSE torn
  /\ UNCHANGED <<msg, ltc>>

ReadTemps ==
  /\ BrdTransfer("readTemps", "ltc")
  /\ msg' = [msg EXCEPT !.temps = port]
  /\ UNCHANGED <<port, ltc, torn>>

\* i2c_configure_ltc2991, in every round.
Configure ==
  /\ BrdTransfer("configure", "readLtc")
  /\ ltc' = IF port = "ltc" /\ ltc = "off" THEN "on" ELSE ltc
  /\ UNCHANGED <<port, msg, torn>>

\* The four temperatures and the rails, at once.
ReadRails ==
  /\ BrdTransfer("readLtc", "send")
  /\ msg' = [msg EXCEPT !.rails = port, !.measured = (ltc = "ready")]
  /\ UNCHANGED <<port, ltc, torn>>

\* psc_send, which may block or not.
BrdSend ==
  /\ brd = "send"
  /\ brd' = "delay" /\ sent' = TRUE
  /\ UNCHANGED <<port, bus, eeVars, conVars, msg, ltc, torn, caught>>

\* i2c_configure_ltc2991 begins by selecting its branch once more.
Brdstats ==
  \/ BrdSelect("temps", "temps", "readTemps") \/ ReadTemps
  \/ BrdSelect("ltc", "ltc", "select") \/ BrdSelect("select", "ltc", "configure")
  \/ Configure \/ ReadRails \/ BrdSend

-----------------------------------------------------------------------------
\* Power goes: a write cycle is broken off, what the field holds after it is
\* undefined.  The expander and the monitors forget.
PowerGoes ==
  /\ port' = "none" /\ ltc' = "off"
  /\ torn' = torn \union Fields(todo) \union burning
  /\ UNCHANGED stored

\* The program starts over: write cycles go on and are long over when it is up.
Restarts ==
  /\ torn' = torn \union Fields(todo)
  /\ stored' = stored \union burning
  /\ UNCHANGED <<port, ltc>>

BusCut ==
  /\ PowerGoes \/ Restarts
  /\ burning' = {} /\ bus' = "idle"
  /\ con' = "menu" /\ todo' = <<>>
  /\ brd' = "delay" /\ msg' = NoMsg /\ sent' = FALSE
  /\ caught' = FALSE

-----------------------------------------------------------------------------
\* What brdstats sends was read from the temperature sensors and from the
\* LTC2991s: the console never moves the expander between its two transfers.
\* The first message after a start may hold registers that nothing was measured
\* for yet, later ones do not.
StatsFromTheirDevices ==
  brd = "send" =>
    /\ msg.temps = "temps" /\ msg.rails = "ltc"
    /\ sent => msg.measured
    /\ \A r \in DOMAIN Drawn :
          VoltageAsDrawn(r) /\ (r # "v0_85" => CurrentAsDrawn(r))

\* i2c_devices.c:767 draws V7/V8 of U37 for the current of the 0.85 V rail,
\* i2c_devices.c:777 measures the pair: what is sent is its difference.
CurrentsAreDifferences ==
  brd = "send" => \A r \in DOMAIN Drawn : CurrentAsDrawn(r)

\* When the console is back at its menu, what was typed last is in the EEPROM,
\* field by field, unless brdstats moved the expander between its select and its
\* write, or the console did not get to the field or the EEPROM to the end of
\* the field's write cycle before the restart.
SettingsStored == con = "menu" => Field \subseteq stored \union torn

\* The console comes back to its menu.
MenuComesBack == con # "menu" ~> con = "menu" \/ caught
=============================================================================
