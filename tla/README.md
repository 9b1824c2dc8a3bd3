# Verification project for the RFSoC DFE firmware

TLA+ models of the RFSoC digital front end in `src/`: the C program on the
processor (FreeRTOS and lwIP, `src/src/sw/src/`) and the VHDL and Verilog of the
programmable logic (`src/src/hw/hdl/`).  TLC checks the models on small
instances, TLAPS proves the safety properties of all of them, one of them a
refinement, for every size.

## The system

A client (an EPICS IOC) connects over TCP, writes settings and soft triggers,
and receives waveforms and statistics.  A soft trigger goes through a register
to the logic, which captures ADC samples on two paths: into short FIFOs that a
daemon reads word by word, and through a DMA into DDR, from where another daemon
sends them.

| Component | State | Operations | Meets the others through |
|---|---|---|---|
| PSC server, `listener.c` | client table `clients_used`, `clients[]`; mutex `sendguard`; listening socket | accept loop, one thread per client, `psc_send` of every daemon | descriptor table of the IP stack, `sendguard`, callbacks `client_event` and `client_msg` |
| Framing, `pscmsg.c` | none but the caller's buffer `rxbuf` | send and receive all, receive a message, skip | called by the server |
| Settings, `control.c` | `soft_trig_cnt`, registers | `reg_settings`, `soft_trig` | runs in the handler threads; counter polled by `dmadata`, registers read by the logic |
| DMA daemon, `dmadata.c` | last count served, buffers | poll, arm, wait, read DDR, send, arm again | counter, DMA core, capture engine, `psc_send` |
| FIFO daemon, `adcdata.c` | message buffer | poll `wrdone`, read eight channels, acknowledge | FIFO registers, `psc_send` |
| `trigger_sync.vhd` | state, two countdowns | arm on the soft trigger, start on TbT, two pulses | soft trigger register, event receiver, both capture paths |
| `adc2dma.vhd` | capture state, schedule, holding register, FIFO | capture, back-pressure, overflow, resets | trigger, width converter and DMA |
| `adc_data_rdout.vhd` | read-out state, FIFO | capture, announce, wait, reset | trigger, FIFO daemon |
| Statistics daemons: `brdstats.c`, `sadata.c`, `rfstats` in `rfdc.c`, `lstats.c` | message buffers | measure, `psc_send` | I2C bus, time stamp and counter registers, lwIP counters |
| I2C bus: `i2c_devices.c`, `brdstats.c`, `console.c` | port expander, EEPROM, registers of the monitors | select a branch and transfer; configure, measure; edit the settings | one bus without a lock, two priorities |
| Bring-up: `main.c`, `rfdc.c`, the clock chips | none that outlives it | buses, oscillator, PLL, converters, multi-tile synchronisation, scheduler | port expanders; the vendor driver of the converters |
| Start-up of the application: `sdcard.c`, `net_setup.c` | `net_config`, files on the card | mount, read `NET.CNF`, update `EEPROM.DAT`, start the network and the server | hardware address over I2C; the card outlives a power cut |
| Event receiver, `evr_top.vhd` and below | counters and shift registers | decode events, pulse, time of day | `trigger_sync`, registers read by `sadata` |
| Frequency counters, `clk_freq_counter.vhd`, `sync_pulse_ack_cc.vhd` | prescaler, counters, handshakes | count the edges of a clock for a second of another | two clock domains, registers read by `rfstats` |
| DAC player, `rf_dac_awg.vhd` | address counter | play a waveform | started by no caller |

What is hard in it: threads of one priority share a table and descriptor numbers
that the stack reuses; a broadcast blocks for seconds with the lock in hand; a
trigger is an event in three clock domains and a counter in a fourth place, and
the program polls; the handshake between the daemon and the read-out engines is
two register writes; the DMA path has no completion interrupt, just a delay; a
device on the I2C bus is reached by two transfers between which a thread of
higher priority can come; a counter and its reader run on clocks of which either
may stop.

## Modules

| Module | Models | How the state corresponds |
|---|---|---|
| `ClientPool` | specification: what a server promises its clients | members, refused, departed connections |
| `PscServer` | `listener.c`, `client_event`, `client_msg` | `used`, `sock` are the table; `fdtab` the stack's descriptors; `guard`, `tx` the thread in `psc_send`; `a..` and `h..` the locals of the accept loop and the handlers |
| `PscServerProofs` | proofs about `PscServer` | |
| `ClientCommands` | `psc_recvmsg`, `psc_recvskip`, `handle_client`'s loop, `reg_settings` | `wire` is the stream, `need` and `left` the lengths of the loops, `rxbuf` the buffer, `regs` the registers |
| `ClientCommandsProofs` | proofs about `ClientCommands` | |
| `DmaAcquisition` | `soft_trig`, `dmadata_push`, and as much of the logic as the path needs | `cnt`, `prev` the counters; `trig`, `pend`, `cap`, `fifo`, `conv`, `dma`, `ddr` one variable per unit of the logic |
| `DmaAcquisitionProofs` | proofs about `DmaAcquisition` | |
| `FifoReadout` | `adc_data_rdout.vhd`, `rf_adc_fifos.vhd`, `adcdata_push` | the engines' state machine, `wrdone`, `done` and its synchronised copy `seen` |
| `TriggerSync` | `trigger_sync.vhd` clock by clock | signals by their names, the two outputs as functions on `Out` |
| `TbtReceiver` | the data half of `evr_top.vhd`: mark, event, stretched pulse | signals by their names |
| `TbtPath` | the two together, as `top.vhd` connects them | `edges` relates the two clocks; `owed` and `lag` follow one pulse |
| `TbtPathProofs` | proofs about `TriggerSync` and `TbtPath` | |
| `EventChannel` | `EventReceiverChannel.v` with the delay of one clock that `evr_top.vhd` sets | registers by their names; `flight` follows the events that are answered |
| `TimeOfDay` | `timeofDayReceiver.v` | registers by their names; `bits` and `told` are the frame that was sent |
| `EventReceiver` | the two on one event stream | no state of its own |
| `SaData` | `sadata_push` reading the time stamp of an `EventReceiver` | `sa` is the daemon's step, `evr_ts_s` the field of its message |
| `EventReceiverProofs` | proofs about `EventReceiver` and `SaData` | |
| `Adc2Dma` | `adc2dma.vhd`, both clocks | signals by their names |
| `CapturePaths` | `FifoReadout` and `Adc2Dma` behind one soft trigger | `pending` are the pulses `trigger_sync` has still to give |
| `CapturePathsProofs` | proofs about each of the two and the two together | |
| `PulseSync` | `sync_pulse_ack_cc.vhd`, one pulse handshake between two clocks | signals by their names in one record per link |
| `FreqCounter` | `clk_freq_counter.vhd` with its two `PulseSync` links, and `rfstats` as its reader | signals by their names; `rate` and `phase` are the frequency and position of the measured clock |
| `FreqCounterProofs` | proofs about `PulseSync` and `FreqCounter` | |
| `Ltc2991` | which register each rail of `brdstats` is read from, and what it holds | operators, no state |
| `I2cBus` | `brdstats_push`, the console's EEPROM functions, `i2c_devices.c` under them | `port` is the expander, `con` and `brd` the two threads, `stored` the fields of the EEPROM that are up to date, `burning` the one in its write cycle |
| `SdCard` | `sdcard.c`, `realmain` and the choice in `net_setup` | `conf` is `net_config`, `boot` the main thread, `new` and `dat` the files |
| `BringUp` | `main`'s steps before the scheduler | `main` is the step it is at, or how it ended |
| `Board` | the three together: bring-up, start, run, power cut, reboot | `cuts` counts the restarts |
| `BoardProofs` | proofs about `SdCard`, `I2cBus` and `Board` | |

`MC...` modules instantiate them for TLC.  An operator whose comment begins with
"Mutant of" is a deliberately wrong variant of the definition that follows it; no
specification uses it, it shows that a property depends on that definition.

`PscServer` splits every place where another thread can come in between: the
accept loop takes an entry under `sendguard` (`Alloc`) and writes `C->sock` after
releasing it (`Assign`); a handler looks its descriptor up when it calls `recv`
(`RecvCall`) and blocks on the connection it found; `psc_send` sends header and
body in two calls (`SendHead`, `SendBody`), and on an error closes the descriptor
(`CloseEntry`) before it writes -1 (`MarkEntry`).  External, modelled from its
use: the stack gives out the lowest free descriptor, closing a descriptor makes
the calls that block on its connection fail, an AXI DMA transfer ends with TLAST
or with its length, FIFO cores keep order and drop words when full.

In `FifoReadout` the four engines run in lock step: they get the same trigger,
clock, acknowledge and reset.  The reset is `rfadc_reset` (`top.vhd:269`): up at
power-on and whenever the PLL of the ADC clock loses its lock.  It takes the engines
back to IDLE and empties their FIFOs (`SysReset`), stays up for as long as it wants
(`SysRelease`), and never reaches the daemon, which goes on reading.  One that
comes between the eight reads of a group counts as one before or after the group.
`CapturePaths` gives one soft trigger to both paths, as
`trigger_sync` does: two pulses, in either order, at any distance, and a soft
trigger that comes before both are out is ignored.  `rfadc_reset` is one signal for
all three (`RfadcReset`): it takes the pulses that are still out and resets both
paths; `fifo_rst` resets the DMA path alone.  When the pulses come to the clock is
in `TriggerSync` and `TbtPath`.  In `DmaAcquisition` the trigger synchroniser and the
capture engine appear with what the daemon can tell apart; clock by clock they
are `TriggerSync` and `Adc2Dma`.  Three resets meet on its path, and none covers all
of it: `DMA_FIFORST` the engine and its FIFO (`FifoReset`), `S2MM_DMACR` the DMA core
(`DmaCoreReset`), `rfadc_reset` the synchroniser, the engine and its FIFO
(`AdcReset`).  The width converter between FIFO and DMA core is reset with the board
only (`system.tcl:1600`), so it keeps what it has taken (`conv`) and gives it to the
next transfer.  `pl_reset` is pulsed at boot and is not a step of any of these.

In `TbtPath` the receiver runs on a clock of 124.92 MHz and the synchroniser on
one of 416.4 MHz; a step is an edge of one of them, with `MinEdges` to `MaxEdges`
of the faster between two of the slower.  Resets are steps of their own: the one
of the ADC clock alone (its PLL loses lock) and the one of the whole logic.

In `FreqCounter` a step is an edge of one of the two clocks.  While the measured
clock runs it keeps its frequency, given in quarters of that of the reference, up
to a jitter of one period (`phase` stays between -4 and `rate + 3`); it may stop and come back with another one, because
software sets the synthesiser and the converters up while the counters run.  A
register that resolves late is one whose clock came first, so the count is exact in
the order of the edges.

In `SaData` the daemon reads a register of the receiver's clock domain while it may
change: each bit comes out old or new.

In `I2cBus` the console runs only while `brdstats` blocks, and `brdstats` can wake
up between any two of its transfers.  External, modelled from its use: the I2C
controller finishes short transfers alone and holds the bus in the middle of one
that is longer than its FIFO of 16 bytes; the EEPROM does not answer during the
write cycle that follows a write, and what the field holds is undefined if the power
goes in that cycle (`PowerGoes`), while a restart of the program lets it end
(`Restarts`); an LTC2991 holds nothing measured until it has
been configured and has had time to convert.  `Ltc2991` names for each rail of
`brdstats` the register its current and its voltage are read from and the pins that
register belongs to.  `SdCard` lets every file operation fail and
leaves open what is on the card until `f_sync` has returned.  The block that
`sdcard_sync_eeprom` compares with the file is uninitialised (`ee_read` is
commented out), so the comparison may come out either way.

## Runs

| Run | Question | Bounds |
|---|---|---|
| `server_safety` | Does the table match the threads; are connections isolated and messages whole until a send fails; does the server implement `ClientPool`? | 3 connections, 2 entries, 1 daemon: a client is refused, an entry is reused, two handlers and a broadcast meet |
| `server_liveness` | Does every daemon broadcast again and again, and does the table drain? | 2 connections on 1 entry |
| `server_wakeup` (violation) | Does a send error wake the handler, as `listener.c:251` says? | 2 connections, 2 entries |
| `server_listener` (violation) | Does a send error only close clients, as `listener.c:250` says? | 2 connections, 1 entry |
| `commands_check` | Is the stream cut into the messages that were sent, and do the registers hold what was commanded last? | 3 messages of 13 kinds, 0 to 8 words, buffers of 3 and 2 words: lengths below, at and above every boundary |
| `dma_check` | Is a capture that begins in time what is sent; is every trigger served; is the engine free again after it? | 2 clients, 3 triggers, 2 chunks, a FIFO of 1, `rfadc_reset` at any time: a stale capture, a chunk left in the converter, an ignored trigger and one that counts at the same time |
| `paths_check` | Does every FIFO message begin with one whole acquisition, and do the engines wait, but for resets; is the DMA stream the schedule without gaps, with TLAST exactly when complete; do both paths take a trigger that finds them idle; does the FIFO path get ready again? | 3 soft triggers, `rfadc_reset` at any time; two channels and a third without an engine, acquisitions and FIFOs of 2 groups, messages of 3; two bursts of 3 clocks in turns of 4 and a stream FIFO of 2, so that back-pressure and overflow occur |
| `timing_check` | Is every TbT pulse seen once and in time; do the triggers come after their delay; is `armed` exact; does it get back to IDLE? | delays of 0 to 3: zero, one, equal and different; 3 or 4 ADC clocks to a receiver clock, as 416.4 to 124.92 |
| `events_check` | Is every event answered by its pulse, and does the channel come to rest; are the latched seconds the ones that were sent, and is the stamp that `sadata` sends of one second? | a pulse of 3 clocks, seconds of 2 bits, counters that wrap at 8 and 5; any event and a reset on any clock, a read between any two |
| `clocks_check` | Is the frequency that is reported the exact count of one of the last two seconds; is no handshake overrun; do counts keep coming? | a second of 11 edges, a clock of one and a half times and one of twice the reference's frequency, counters that wrap at 24, one stop or reset at any moment |
| `board_check` | Does the configuration mean what the file says; is `EEPROM.DAT` whole after a start; does `brdstats` read its own devices; do settings reach the EEPROM; do both threads go on? | bring-up with and without converters, files of 2 lines of 10 kinds (every kind overrides another), a restart at any moment |
| `board_rails` (violation) | Is the current sent for every rail computed from a differential measurement, as `i2c_devices.c:767` and `:777` say? | the same |

The ratios of the bounds follow the code where a property depends on them: an
acquisition fits its FIFO and is shorter than its message (4000, 4096, 8000), a burst
is longer than the stream FIFO (so overflow is reached), the programmed DMA length is
longer than an acquisition.  In `dma_check` all of an acquisition is sent, where the
code sends 8192 of 10000 turns; the proof covers both.
`CHECK_DEADLOCK FALSE` is set where a behaviour ends because the bound on the
messages is used up; on the board because `brdstats` can hang
and `main` can end.

### What the violations show

* `server_wakeup`: the client's window is full while its handler is in
  `client_msg`; a broadcast fails and closes the descriptor; the next client gets
  the number; the first handler returns to `recv` and reads the second client's
  commands.  After that both handlers close the descriptor.
* `server_listener`: a broadcast between `psc_client_alloc` and `C->sock = client`
  finds the bit set and the socket 0, which is the listening socket.
* `board_rails`: `i2c_ltc2991_vcc_0v85_current` (`i2c_devices.c:942`) reads the
  register of the voltage of pin V7, where the difference of V7 and V8 is in the
  next one, and the value is sent as the current of the 0.85 V rail.

Other disagreements met while modelling, which no run repeats:
an engine is to "wait here until fifo readout is complete" (`adc_data_rdout.vhd:235`), but
if the daemon is preempted after it set `rdoutdone` and before it clears it, an
acquisition triggered meanwhile finds the level still high (line 237) and is dropped
unread; `InitRFdc` takes the readiness of the DAC tiles from the status register of
an ADC tile (`rfdc.c:144`); the INA226 is read (`main.c:241`) after `write_lmk61e2`
moved the expander from its branch (`main.c:231`), and nobody looks at the -1; a
failed multi-tile synchronisation is only printed (`main.c:265`); the comment of
`i2c_devices.c:872` says "scale by 2" where the code multiplies by 11;
`read_i2c_temp` takes the two's complement of the sensor for unsigned
(`i2c_devices.c:594`), which is wrong below zero; the first statistics after
power-up are of monitors that have not measured yet (`StatsFromTheirDevices` is
about the later ones);
`adc2dma.vhd:14` asks to "Arm the downstream DMA before triggering capture", but
the handler triggers 10 ms after it counted and the daemon polls the count every
10 ms, so a capture may begin while the DMA is reset (`InTimeCaptureIsSent` is
about the captures that do not);
`adc2dma.vhd:33` asks to "Coordinate resets with the downstream width converter and
DMA", but arming resets the DMA core alone (`dmadata.c:53-57`) and nothing but the
board's reset reaches the converter (`system.tcl:1600`): if a capture that began while
the DMA was halted is given up by the reset of the next arming, what the converter has
taken of it comes first in the next transfer and shifts everything behind it; `sadata` sends clocks of the event receiver since
the last second as `evr_ts_ns`;
`process_ADC_dma` "Call after DMA completion" (`dmadata.c:110`) is called after a
fixed delay; half of every FIFO message lies beyond the 4000 groups an engine
writes and comes from an empty FIFO; `RFADC_FIFO_RST_REG` is not connected
(`rf_adc_fifos.vhd:60`), so "clear the FIFO" (`control.c:114`) clears nothing;
`testdata_enb` is not latched (`adc2dma.vhd:18`), the synchroniser is commented
out; its `done_sync` is assigned in the same commented-out process, so `DRAIN` is
left by a reset alone and `dma_active` stays high, where line 28 lets it fall when
the last word was accepted; `EEPROM.NEW` is erased "after update" (`sdcard.c:239`)
although `ee_write` is commented out, so its contents are lost; `EEPROM.DAT` is
created and rewritten, not only written "if present with zero size"
(`sdcard.c:6`), with the contents of uninitialised memory; the console says
"Reboot for settings to take effect" (`console.c:140`), but nothing reads the
address in the EEPROM, the network is configured from `NET.CNF` alone; the select
of `pt_cntrl.vhd:37` is inverted, and its output is not used.
Some restrictions in the properties are real as well:
`RegistersAsCommanded` excludes settings messages of less than two words, because
`reg_settings` does not look at the length and completes them from an earlier
message; `PulseFollowsEvent` excludes an event on two successive clocks and one that
starts a pulse on the clock on which the last one ends: either leaves a start bit
set until a counter of 32 bits has wrapped around, 34 s later, and the first kind
loses every event until then; `SecondsAsSent` excludes bits in the two clocks after a latch
event; `StampOfOneSecond` excludes a second that begins between the two reads of
`sadata`, whose nanoseconds then belong to the second before; `EveryTriggerServed` excludes overlapping increments of `soft_trig_cnt`
(`control.c:112`), because a late store can bring back a count that was served
already and the triggers in between are never seen; `SettingsStored` excludes a
write between whose two transfers `brdstats` moved the expander, which is lost
without a message, and one the power did not leave to the end of its write cycle;
`InTimeCaptureIsSent` excludes a transfer that was started with something left in the
converter, as above, and a capture that `rfadc_reset` cut off;
`MessageStartsWithAcquisition` and `EnginesWaitForDaemon` exclude what a loss of the ADC clock
does while the daemon reads (`torn`): the FIFOs are emptied under it, and an acquisition
triggered after that is taken away in pieces by messages that began before it, and then
announced with what is left; `StatsGoOn` excludes that the converters did not start, and it and
`MenuComesBack` exclude that `brdstats` wakes
up inside `dump_eeprom`'s read of 128 bytes (`i2c_devices.c:474`), for then it
spins in `XIicPs_BusIsBusy` at the higher priority and the console, which alone
could end the transfer, never runs again.  `IsolatedUntilSendError`,
`WholeMessages`, `FramingKept` and `SkipStaysInBuffer` hold up to the failure
they name and are false after it: a send error leaves a handler with a descriptor
that may become another client's and is closed twice, and a receive error inside
the loop of `psc_recvskip` is followed by one more read of the whole length into
its buffer of 128 bytes.

### Fairness

* `PscServer`: the threads have one priority and time slicing, so a thread that
  can run does (weak fairness).  A thread that waits for `sendguard` gets it
  (strong fairness): the mutex queues its waiters and every holder delays or
  blocks between two uses.  Sends end, because SO_SNDTIMEO is set on every
  accepted socket.  Clients owe nothing.
* `DmaAcquisition`: clocks and threads make progress; the TbT event need not come.
* `CapturePaths`: the clocks run and the daemon is scheduled; triggers need not come.
* `TbtPath`: both clocks run; marks and resets need not come.  `ReturnsToIdle`
  assumes marks explicitly.
* `SaData`: the recovered clock runs and `sys_rst` is not held for ever.
* `FreqCounter`: both clocks run, and a measured clock that failed comes back.
* `Board`: `main`, the main thread and `brdstats` run (weak fairness); the console, whose
  priority is lower, gets a turn again and again (strong fairness), because
  `brdstats` sleeps a second in every round.  Nobody has to choose from the menu.
* `ClientCommands`: the handler is scheduled; failures need not come.

Three assumptions about time are in the models.  A delay of 100 ms is longer than
an acquisition (10000 turns, about 26 ms), the daemons' period of 10 ms is
longer than the crossing of `rdoutdone` into the ADC clock domain, and the console's
pause of 100 ms is longer than a write cycle of the EEPROM.

## Proofs

TLAPS proves, for every value of the constants allowed by the named assumptions:

* `PscServerProofs`: `TypeCorrect`, `TableCorrect` (`TableMatchesThreads`),
  `Isolated` (`IsolatedUntilSendError`), `MessagesWhole` (`WholeMessages`) and
  `ServerImplementsPool` (`ImplementsClientPool`), for any number of connections,
  daemons, entries and descriptors.
* `ClientCommandsProofs`: `FramingCorrect` (`FramingKept`), `SkipCorrect`
  (`SkipStaysInBuffer`), `RegistersCorrect` (`RegistersAsCommanded`), for any
  messages, lengths and sizes of the two buffers.
* `DmaAcquisitionProofs`: `InTimeCorrect` (`InTimeCaptureIsSent`), for any number of
  clients, triggers, chunks and places in the FIFO and any number of resets.
* `CapturePathsProofs`: of the FIFO path `ReadoutTypeCorrect` (`TypeOK`),
  `StartsWithAcquisition` (`MessageStartsWithAcquisition`), `EnginesWait`
  (`EnginesWaitForDaemon`), for any number of channels, groups and triggers and any
  depth that holds an acquisition, with resets at any time; of the DMA path `CaptureTypeCorrect`
  (`CaptureTypeOK`), `SamplesInSequence` (`InSequence`), `OnlyFinalMarked`
  (`OnlyFinalIsLast`), `LastWhenComplete` (`LastMeansComplete`), for any schedule and
  depth; of both, `FifoPathImplements` and `DmaPathImplements` (under the common
  trigger each path is a behaviour of its own module), `PathsKeepTheirPromises` (so
  the properties above hold of the two together) and `BothTake` (`TakenByBoth`).
* `TbtPathProofs`: of the synchroniser `TypeCorrect`, `OnTime` (`PulsesOnTime`),
  `ArmedExact` (`ArmedUntilBothFired`), for counters of any width;
  `PathImplementsSync` (every behaviour of the two clocked parts together is one of
  `TriggerSync`, so its theorems hold there), `EdgesCounted` (`OneEdgePerPulse`) and
  `LatencyBounded` (`TakenInTime`), for any two clocks of which the ADC's is at least
  twice as fast.
* `EventReceiverProofs`: `PulseOfEvent` (`PulseFollowsEvent`) and `SecondsLatched`
  (`SecondsAsSent`), for every width, number of bits and size of the counters;
  `ReadReceiver` (they hold while `sadata` reads) and `StampCorrect`
  (`StampOfOneSecond`).
* `FreqCounterProofs`: `EveryPulseOnce` (`OncePerPulse`), for edges of the two clocks
  of a link in any order; `CounterInvariant`, `FrequencyCorrect`
  (`FrequencyIsRecent`) and `LinksCorrect` (`LinksNotCrowded`), for any window and any
  set of frequencies that satisfy `WindowAssumption`.
* `BoardProofs`: `BoardInvariant`, `ConfiguredCorrect` (`ConfiguredAsFileSays`),
  `DatCorrect` (`DatWhole`), `StatsCorrect` (`StatsFromTheirDevices`) and
  `SettingsCorrect` (`SettingsStored`), for any file, fields and number of restarts.

The assumptions on the constants are those of the code: buffers and widths that are
not empty, an acquisition that fits its FIFO, one clock at least twice as fast as the
other.  `WindowAssumption` says that a second of the reference is longer than the two
handshakes, 4 or 5 edges of the reference and up to 10 of the measured clock, and
that what a clock does in a second fits the counter.  In the source a window is 10^8
edges (`g_ref_clk_freq`) and the counter has 32 bits (`g_count_width`), which leaves
room for every frequency from 25 MHz to 4 GHz; the clocks that are measured run at
some hundred MHz.

`TableMatchesThreads` is not inductive: which entry belongs to whom depends on
where the accept loop and the handlers are.  The invariant adds that the accept
loop holds a fresh connection and a descriptor exactly between its steps, that a
thread's entry is defined exactly while it runs, and that the thread in
`psc_send_one` is the holder of `sendguard` and in its welcome step.  Isolation
adds that, while nothing has failed, every descriptor a thread holds refers to
its own connection, and the one that is being sent on belongs to a client that
is served or to the listener.  `WholeMessages` adds that no connection is in the
middle of a message except between the header and the body of the thread that
holds `sendguard`.

`ServerImplementsPool` proves the refinement step by step.  A connection is a member
while its thread runs or it is between the two steps of the accept loop, refused when
it was dropped without a thread, departed when its thread ends.  Beyond the invariants
of the table the mapping needs `AcceptInv`: a descriptor refers only to a connection
that has come, and the accept loop forgets the one it is done with.

`FramingKept` looks at one moment, when a header is complete.  `FrameInv` says at
every moment where in the stream the handler is: `Stream` that what is left on the
wire is a run of the words that were sent, `Cursor` that it begins at word `Got + 1`
of the message in progress, where `Got` is computed from the counters of whichever of
the receive and skip loops it is in.  A call of `recv` that returns any number of words
advances both by the same.  `RegistersAsCommanded` rests on it: what `reg_settings`
looks at is the message in progress (`BufInv`), and handling it adds one element to
the set of settings for at most one register.

`InTimeCaptureIsSent` is about the moment of sending; `CaptureInv` follows the
capture from its first chunk.  An idle engine has an empty FIFO, and `fresh` says when
there is nothing behind it either and the DMA is at its start.  From then on what DDR
has, what the converter and the FIFO have and what the engine took are one sequence
(`OwnCapture`); once the transfer is over, a reset of the engine changes nothing of it
any more (`Stored`).  At the end of the daemon's delay nothing of it is unwritten unless
the FIFO was full once.

A channel's pulse has no state variable of its own: it follows from where two
counters and two start bits stand.  `ChanInv` lists what they can be for every
set of events in flight (none, one of each age, or a new one while the last
pulse ends), and for an ignored event on its way that it arrives before the end
of the pulse.  `FrameInv` says where the pointer is and which bits are in place
after each bit of a frame, and that none is taken while the clearing of the last
frame is still to come.

`MessageStartsWithAcquisition` needs to know what the FIFOs hold long before they
are read.  `ReadoutInv` says it for each state of the engine, as long as no reset has
cut in: nothing while it is idle (`EmptyWhenIdle`), as many groups as were counted while
it writes, the whole acquisition when it waits and the daemon has not begun; then, on
the channels that are still to be read, the whole, and on the one being read what the
message lacks (`Contents`).  With or without a reset, a FIFO never holds groups of more
than the acquisition in progress (`OneAcquisition`), and `rdoutdone` is up exactly while
the daemon waits for it to cross (`Handshake`), so that the daemon never takes an old
`wrdone` for a new one.

For the DMA path `CaptureInv` says that the words on their way are a chain of the
schedule that begins with the word the width converter wants and ends right before
the one that is sampled next.  A step appends to the chain, shortens it at its
head, or moves a word from the holding register into the FIFO, which changes
nothing of it.  That the final word is followed by none makes the rest of the
properties follow from it.  The composition needs three facts of its own: pulses are
never more than calls of `soft_trig` (`TriggersCounted`, the bound of `FifoReadout`), an idle
engine that is not reset stays idle until its pulse (`TriggerAwaited`), and while
`rfadc_reset` is up both paths are in reset and no pulse is out (`ResetTogether`).

For a pulse handshake the invariant says which values the six registers of a link
can have together: request and acknowledge run round them as a wave, one register
at a time, and a pulse is due exactly while its wave has not reached the receiver.

`FrequencyIsRecent` needs to know that the count is back before the next request.
`Elapsed` is the time since the last request, in units of which a period of the
reference has `rate` and one of the measured clock 4, and `Measured` the same time as
the edges of the measured clock tell it; they differ by `phase`.  `ReqOnTime` and
`LatOnTime` bound, for each register of a link, the time up to which it can still be
up or down after a pulse that came in any state of the link, by the next register and
one period of the clock it waits for.  So at the end of the first window after an
upset the request is at rest, after the second its pulse is seen at the third edge of
every window (`ShapeInv`) and the count from third edge to third edge is that of the
window (`CountInv`), after the third the link back is at rest as well (`CrowdInv`), and
in the fourth the register has this window's count or, while it is on its way, the
one before (`RegInv`).

For the configuration the invariant is that of the file read so far: its last valid
line for each setting decides (`ConfInv`), so one more line changes one of them or
none.  `StatsInv` and `ConInv` say where the expander points at each step of `brdstats`
and of the console: `brdstats` has it for itself because the console does not run
between its select and its transfers; the console has not, so a field it is about to
write is either going to the EEPROM or already counted as torn.  `Accounted` says that
every field is stored, in its write cycle, still to be written, or torn, so that a power
cut moves the middle two to the last; at the menu neither of them is left.  `StartInv` is needed
because a restart takes both back to where nothing was selected or measured.

Between the two reads of `sadata` the second can turn.  `ReadInv` says that if it has
not, and a frame was latched, the clock after the latch has passed, and `StampCurrent`
that then the register has the seconds of that frame, old and new bit alike.

`PulsesOnTime` relates a counter to a history variable.  The invariant says that
in `DELAY_TRIGGERS` a pending output has `count + age` equal to the delay that was
latched and is not zero, one that is not pending has fired (`age` at or past its
delay), and in `IDLE` after a firing every latched delay is at most `age`.
`TypeOK` contains that a pending count is never zero, which is what keeps the
subtraction from wrapping around; it rests on the same invariant.

`OneEdgePerPulse` needs an invariant that ties the two sides together.  `OwedInv`
says, for each ADC clock since a pulse rose, how many stages of the synchroniser
have it, so that its edge is seen within three ADC clocks and before the second
receiver clock ends; `LowInv` says that the stages are low again before the next
pulse can begin.
`TakenInTime` counts ADC clocks from the mark to the edge through the receiver's
three registers; `LagInv` bounds the count in each of them, and `RestInv` says that
what a pulse leaves in the registers after `rfadc_reset` is gone before the
synchroniser can be armed again.

Only model-checked: liveness (`EveryDaemonBroadcasts`, `TableDrains`,
`EveryMessageHandled`, `EveryTriggerServed`, `EngineFreed`, `ReadyAgain`,
`ReturnsToIdle`, `PulseEndsForGood`, `KeepsMeasuring`, `StatsGoOn`, `MenuComesBack`),
because fairness is beyond the prover.  Every safety property of a passing run is
proved.

## Plan

What remains, the most valuable first:

1. `DmaAcquisition` over the modules: its abstraction of the synchroniser and the
   capture engine replaced by `CapturePaths`, or shown to be implemented by it.
2. Proofs: the lemmas on sequences and on the largest element of a set that several
   proofs state for themselves, in one place; what `PscServer` and `ClientCommands`
   guarantee together.
3. `net_setup`'s wait for DHCP, with the timer that drives it.

Runs of related components are joined where one state space can answer for both.

## Not modelled

What the vendor driver does to the converter tiles (of `rfdc.c` the readers and the
steps `main` takes are modelled), the tables written to the clock chips and the
devices in `i2c_devices.c` nobody reads (Si569, Si571, SFP, LTC2977), the calls of
lwIP and the DHCP timer in `net_setup.c`, typing at the console, lines of `NET.CNF`
longer than the buffer of 64 bytes (which `f_gets` cuts in two), the counters of
lwIP and of the heap that `lstats.c` copies, its use of `inet_ntoa`'s static buffer,
which the network thread uses too (`lstats.c:108`, `net_setup.c:23`), the DAC player
`rf_dac_awg.vhd`, which nothing starts (`write_dacawg` is not called and `main`'s use
is commented out), `sync_reg_ack_cc.vhd`, which is not instantiated,
generated transceiver wrappers, the register file generated from `pl_regs.rdl`,
wiring (`top.vhd`, `ps_io.vhd`), `discover.c`, whose start is
commented out in `main.c:176`, numbers and units of the statistics, and the
failures at start-up after which the server never runs (no memory, no socket).
