------------------------------- MODULE SdCard -------------------------------
(***************************************************************************)
(* The start of the program's main thread: sdcard.c mounts a partition,    *)
(* reads NET.CNF line by line, and deals with EEPROM.NEW and EEPROM.DAT;   *)
(* net_setup.c brings up the network, and the server starts.               *)
(*                                                                         *)
(* A line is a command and its argument, "none" if there is none; lines    *)
(* that are empty or begin with # are skipped.  Any file operation may     *)
(* fail.  Of the two blocks that sdcard_sync_eeprom allocates, the one     *)
(* that should hold the EEPROM is never filled (ee_read is commented out), *)
(* so its contents are whatever malloc returns.                            *)
(***************************************************************************)
EXTENDS Naturals, Sequences, FiniteSetsExt

CONSTANTS
  Lines,       \* the lines NET.CNF is made of
  MaxLines     \* bound on their number

Inet == {"addr", "mask", "gw"}
Valid == {"a", "b"}          \* arguments that inet_aton or parse_hex accepts

VARIABLES
  new,         \* EEPROM.NEW: "absent" or "present"
  dat,         \* EEPROM.DAT: "absent", "whole" with EE_SIZE bytes, or "damaged"
  conf,        \* net_config
  boot,        \* where the main thread is
  cnf,         \* history: the lines of NET.CNF read so far
  failed       \* history: no partition was mounted or a file operation failed

sdVars == <<new, dat, conf, boot, cnf, failed>>

Zero == [use_static |-> FALSE, inet |-> [k \in Inet |-> "zero"], hwaddr |-> "zero"]

SdStart == conf = Zero /\ boot = "mount0" /\ cnf = <<>> /\ failed = FALSE

SdInit ==
  /\ SdStart
  /\ new \in {"absent", "present"}
  /\ dat \in {"absent", "whole", "damaged"}

-----------------------------------------------------------------------------
\* sdcard_trypart: partition 0, then 1, then without a card.
Mount ==
  /\ boot \in {"mount0", "mount1"}
  /\ \/ boot' = "cnf" /\ UNCHANGED failed
     \/ boot = "mount0" /\ boot' = "mount1" /\ UNCHANGED failed
     \/ boot = "mount1" /\ boot' = "net" /\ failed' = TRUE
  /\ UNCHANGED <<new, dat, conf, cnf>>

\* Mutant of ParseLine: an argument that inet_aton refuses leaves dhcp on.
ParseLineValidOnly(c, cmd, arg) ==
  [use_static |->
     CASE cmd = "addr" -> arg \in Valid \/ c.use_static
       [] cmd = "dhcp" /\ arg = "no" -> TRUE
       [] cmd = "dhcp" /\ arg \in {"none", "yes"} -> FALSE
       [] OTHER -> c.use_static,
   inet |-> [k \in Inet |-> IF k = cmd /\ arg \in Valid THEN arg ELSE c.inet[k]],
   hwaddr |->
     CASE cmd = "hwaddr" /\ arg \in {"none", "eeprom"} -> "eeprom"
       [] cmd = "hwaddr" /\ arg \in Valid -> arg
       [] OTHER -> c.hwaddr]

\* What one line does to the configuration.
ParseLine(c, cmd, arg) ==
  [use_static |->
     CASE cmd = "addr" \/ (cmd = "dhcp" /\ arg = "no") -> TRUE
       [] cmd = "dhcp" /\ arg \in {"none", "yes"} -> FALSE
       [] OTHER -> c.use_static,
   inet |-> [k \in Inet |-> IF k = cmd /\ arg \in Valid THEN arg ELSE c.inet[k]],
   hwaddr |->
     CASE cmd = "hwaddr" /\ arg \in {"none", "eeprom"} -> "eeprom"
       [] cmd = "hwaddr" /\ arg \in Valid -> arg
       [] OTHER -> c.hwaddr]

\* sdcard_netconf: one turn of its loop.
NetconfLine(cmd, arg) ==
  /\ boot = "cnf" /\ Len(cnf) < MaxLines
  /\ conf' = ParseLine(conf, cmd, arg)
  /\ cnf' = Append(cnf, <<cmd, arg>>)
  /\ UNCHANGED <<new, dat, boot, failed>>

\* A line that asks for the hardware address in the EEPROM.
ReadsMac(cmd, arg) == cmd = "hwaddr" /\ arg \in {"none", "eeprom"}

\* NET.CNF ends, or cannot be opened or read.
NetconfEnd ==
  /\ boot = "cnf"
  /\ boot' = "new"
  /\ failed' \in BOOLEAN
  /\ UNCHANGED <<new, dat, conf, cnf>>

\* EEPROM.NEW: whatever sdcard_sync_eeprom(fd, 1) finds, ee_write is commented
\* out; then the file goes, unless f_open or f_unlink fails.
EepromNew ==
  /\ boot = "new"
  /\ \/ new' = "absent" /\ UNCHANGED failed
     \/ failed' = TRUE /\ UNCHANGED new
  /\ boot' = "dat"
  /\ UNCHANGED <<dat, conf, cnf>>

\* FA_OPEN_ALWAYS creates the file.
OpenDat ==
  /\ boot = "dat"
  /\ \/ boot' = "sync" /\ dat' = (IF dat = "absent" THEN "damaged" ELSE dat) /\ UNCHANGED failed
     \/ boot' = "net" /\ failed' = TRUE /\ UNCHANGED dat
  /\ UNCHANGED <<new, conf, cnf>>

\* Mutant of Compare: a file of another length is not touched.
CompareWholeOnly ==
  /\ boot = "sync"
  /\ \/ boot' \in {"truncate", "net"} /\ dat = "whole" /\ UNCHANGED failed
     \/ boot' = "net" /\ dat = "damaged" /\ UNCHANGED failed
     \/ boot' = "net" /\ failed' = TRUE
  /\ UNCHANGED <<new, dat, conf, cnf>>

\* sdcard_sync_eeprom(fd, 0) reads the file and compares; a file of the right
\* length may match what malloc returned or not.
Compare ==
  /\ boot = "sync"
  /\ \/ boot' \in {"truncate", "net"} /\ dat = "whole" /\ UNCHANGED failed
     \/ boot' = "truncate" /\ dat = "damaged" /\ UNCHANGED failed
     \/ boot' = "net" /\ failed' = TRUE
  /\ UNCHANGED <<new, dat, conf, cnf>>

\* f_lseek, f_truncate and f_write; only after f_sync is it certain what is on
\* the card.
Update ==
  /\ \/ boot = "truncate" /\ boot' = "write"
     \/ boot = "write" /\ boot' = "flush"
  /\ dat' \in {"whole", "damaged"}
  /\ UNCHANGED <<new, conf, cnf, failed>>

SyncDat ==
  /\ boot = "flush"
  /\ boot' = "net" /\ dat' = "whole"
  /\ UNCHANGED <<new, conf, cnf, failed>>

\* One of these fails, which ends the update; f_close may still write the rest.
UpdateFails ==
  /\ boot \in {"truncate", "write", "flush"}
  /\ boot' = "net" /\ failed' = TRUE
  /\ dat' \in {"whole", "damaged"}
  /\ UNCHANGED <<new, conf, cnf>>

\* net_setup with a fixed address or with DHCP, or no interface at all: in any
\* case realmain's block ends, with conf in it, and psc_run starts the daemons.
NetSetup ==
  /\ boot = "net"
  /\ boot' = "up" /\ conf' = Zero /\ cnf' = <<>>
  /\ UNCHANGED <<new, dat, failed>>

FileStep ==
  \/ Mount \/ NetconfEnd \/ EepromNew \/ OpenDat \/ Compare
  \/ Update \/ SyncDat \/ UpdateFails \/ NetSetup

\* The program starts over; somebody may have put another card in.
SdCut ==
  /\ conf' = Zero /\ boot' = "mount0" /\ cnf' = <<>> /\ failed' = FALSE
  /\ new' \in {new, "present"} /\ UNCHANGED dat

-----------------------------------------------------------------------------
\* The argument of the last line that satisfies P.
LastArg(P(_, _), default) ==
  LET is == {i \in 1 .. Len(cnf) : P(cnf[i][1], cnf[i][2])}
  IN  IF is = {} THEN default ELSE cnf[Max(is)][2]

\* What the file means as a whole: of every setting the last line that gives
\* a valid value; the address is fixed if the last word on it is "dhcp no"
\* or any "addr" line.
Meaning ==
  [use_static |-> LET Decides(c, a) == c = "addr" \/ (c = "dhcp" /\ a \in {"none", "yes", "no"})
                      is == {i \in 1 .. Len(cnf) : Decides(cnf[i][1], cnf[i][2])}
                  IN  is # {} /\ cnf[Max(is)] \notin {<<"dhcp", "yes">>, <<"dhcp", "none">>},
   inet |-> [k \in Inet |-> LET P(c, a) == c = k /\ a \in Valid IN LastArg(P, "zero")],
   hwaddr |-> LET P(c, a) == c = "hwaddr" /\ a \in Valid \union {"none", "eeprom"}
                  last == LastArg(P, "zero")
              IN  IF last = "none" THEN "eeprom" ELSE last]

\* The configuration is what the lines read so far mean as a whole, in any
\* order and with any repetition and mistake.
ConfiguredAsFileSays == conf = Meaning

\* After a start without errors EEPROM.DAT has its full length, whatever an
\* update that was cut off left of it.
DatWhole == boot = "up" /\ ~failed => dat = "whole"
=============================================================================
