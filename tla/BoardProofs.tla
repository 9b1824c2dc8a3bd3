---------------------------- MODULE BoardProofs -----------------------------
(***************************************************************************)
(* Proofs about the board from power-on: what the files on the SD card     *)
(* make of the configuration and of EEPROM.DAT, and what the console and   *)
(* brdstats get from the I2C bus they share, for any lines in NET.CNF and  *)
(* any number of restarts.                                                 *)
(***************************************************************************)
EXTENDS Board, SequenceTheorems, TLAPS

-----------------------------------------------------------------------------
(***************************************************************************)
(* NET.CNF.                                                                *)
(***************************************************************************)
\* A set of line numbers is empty or has a last one.
HasLast(is) == is # {} => \E m \in is : \A i \in is : m >= i

\* The lines of s that decide between a fixed address and DHCP, that give the
\* setting k of the interface, and that give the hardware address.
Deciding(s) ==
  {i \in 1 .. Len(s) : s[i][1] = "addr" \/ (s[i][1] = "dhcp" /\ s[i][2] \in {"none", "yes", "no"})}
Giving(s, k) == {i \in 1 .. Len(s) : s[i][1] = k /\ s[i][2] \in Valid}
Naming(s) ==
  {i \in 1 .. Len(s) : s[i][1] = "hwaddr" /\ s[i][2] \in Valid \union {"none", "eeprom"}}

Last(s, is) == IF is = {} THEN "zero" ELSE s[Max(is)][2]

\* What the lines of s mean.
Fixed(s) ==
  Deciding(s) # {} /\ s[Max(Deciding(s))] \notin {<<"dhcp", "yes">>, <<"dhcp", "none">>}
Address(s) == [k \in Inet |-> Last(s, Giving(s, k))]
Mac(s) == IF Last(s, Naming(s)) = "none" THEN "eeprom" ELSE Last(s, Naming(s))

Orderly(s) ==
  /\ HasLast(Deciding(s)) /\ HasLast(Naming(s))
  /\ \A k \in Inet : HasLast(Giving(s, k))

Line == {<<l[1], l[2]>> : l \in Lines}

ConfInv ==
  /\ cnf \in Seq(Line)
  /\ Orderly(cnf)
  /\ conf = [use_static |-> Fixed(cnf), inet |-> Address(cnf), hwaddr |-> Mac(cnf)]

\* ConfInv says what ConfiguredAsFileSays says.
LEMMA ConfMeaning == ConfInv => ConfiguredAsFileSays
<1> SUFFICES ASSUME ConfInv PROVE conf = Meaning
  BY DEF ConfiguredAsFileSays
<1>1. Meaning.use_static = Fixed(cnf)
  BY DEF Meaning, Fixed, Deciding
<1>2. Meaning.inet = Address(cnf)
  BY DEF Meaning, LastArg, Address, Last, Giving
<1>3. Meaning.hwaddr = Mac(cnf)
  BY DEF Meaning, LastArg, Mac, Last, Naming
<1>4. Meaning = [use_static |-> Meaning.use_static, inet |-> Meaning.inet, hwaddr |-> Meaning.hwaddr]
  BY DEF Meaning
<1> QED BY <1>1, <1>2, <1>3, <1>4 DEF ConfInv

\* With one more line, the last of the lines that matter is the new one if it
\* matters, and else what it was.
LEMMA LineAdded ==
  ASSUME NEW s \in Seq(Line), NEW e \in Line
  PROVE  \A js \in SUBSET (1 .. Len(s) + 1) : HasLast(js \ {Len(s) + 1}) =>
           /\ HasLast(js)
           /\ Len(s) + 1 \in js => js # {} /\ Append(s, e)[Max(js)] = e
           /\ Len(s) + 1 \notin js => (js # {} => Append(s, e)[Max(js)] = s[Max(js)])
<1> DEFINE t == Append(s, e)
           n == Len(s) + 1
<1> SUFFICES ASSUME NEW js \in SUBSET (1 .. n), HasLast(js \ {n})
             PROVE  /\ HasLast(js)
                    /\ n \in js => js # {} /\ t[Max(js)] = e
                    /\ n \notin js => (js # {} => t[Max(js)] = s[Max(js)])
  OBVIOUS
<1>1. /\ Len(s) \in Nat /\ n \in Nat
      /\ t[n] = e
      /\ \A i \in 1 .. Len(s) : t[i] = s[i]
  BY AppendProperties, LenProperties
<1>2. ASSUME NEW m \in js, \A i \in js : m >= i PROVE Max(js) = m
  <2>1. Max(js) \in js /\ \A i \in js : Max(js) >= i
    BY <1>2 DEF Max
  <2>2. Max(js) >= m /\ m >= Max(js)
    BY <2>1, <1>2
  <2>3. \A i \in js : i \in Nat
    BY <1>1
  <2>4. Max(js) \in Nat /\ m \in Nat
    BY <2>1, <2>3
  <2> QED BY <2>2, <2>4
<1>3. CASE n \in js
  <2>1. \A i \in js : n >= i
    BY <1>1
  <2>2. Max(js) = n
    BY <1>2, <1>3, <2>1
  <2> QED BY <1>1, <1>3, <2>1, <2>2 DEF HasLast
<1>4. CASE n \notin js
  <2>1. js \ {n} = js
    BY <1>4
  <2>2. HasLast(js)
    BY <2>1
  <2>3. ASSUME js # {} PROVE t[Max(js)] = s[Max(js)]
    <3>1. PICK m \in js : \A i \in js : m >= i
      BY <2>2, <2>3 DEF HasLast
    <3>2. Max(js) = m
      BY <3>1, <1>2
    <3>3. m \in 1 .. n /\ m # n
      BY <1>4
    <3>4. m \in 1 .. Len(s)
      BY <3>3, <1>1
    <3> QED BY <3>2, <3>4, <1>1
  <2> QED BY <1>4, <2>2, <2>3
<1> QED BY <1>3, <1>4

\* A line of NET.CNF does to the configuration what it adds to the meaning.
LEMMA LineRead ==
  ASSUME NEW s \in Seq(Line), Orderly(s), NEW cmd, NEW arg, <<cmd, arg>> \in Line,
         NEW c, c = [use_static |-> Fixed(s), inet |-> Address(s), hwaddr |-> Mac(s)]
  PROVE  LET t == Append(s, <<cmd, arg>>)
         IN  /\ Orderly(t)
             /\ ParseLine(c, cmd, arg)
                  = [use_static |-> Fixed(t), inet |-> Address(t), hwaddr |-> Mac(t)]
<1> DEFINE e == <<cmd, arg>>
           t == Append(s, e)
           n == Len(s) + 1
<1>1. /\ Len(s) \in Nat
      /\ Len(t) = n
      /\ t[n] = e
      /\ \A i \in 1 .. Len(s) : t[i] = s[i]
      /\ e[1] = cmd /\ e[2] = arg
  BY AppendProperties, LenProperties
<1>2. 1 .. n = (1 .. Len(s)) \union {n} /\ n \notin 1 .. Len(s)
  BY <1>1
<1>0. e \in Line /\ t = Append(s, e) /\ n = Len(s) + 1
  OBVIOUS
<1>a. \A js \in SUBSET (1 .. n) : HasLast(js \ {n}) =>
        /\ HasLast(js)
        /\ n \in js => js # {} /\ t[Max(js)] = e
        /\ n \notin js => (js # {} => t[Max(js)] = s[Max(js)])
  BY <1>0, LineAdded
<1> HIDE DEF e, t, n
<1>3. /\ HasLast(Deciding(t))
      /\ Fixed(t) = IF cmd = "addr" \/ (cmd = "dhcp" /\ arg = "no") THEN TRUE
                    ELSE IF cmd = "dhcp" /\ arg \in {"none", "yes"} THEN FALSE ELSE Fixed(s)
  <2>1. Deciding(t) \ {n} = Deciding(s)
    BY <1>1, <1>2 DEF Deciding
  <2>2. n \in Deciding(t) <=> (cmd = "addr" \/ (cmd = "dhcp" /\ arg \in {"none", "yes", "no"}))
    BY <1>1, <1>2 DEF Deciding
  <2>3. Deciding(t) \in SUBSET (1 .. n)
    BY <1>1 DEF Deciding
  <2>s. Deciding(t) \ {n} = Deciding(t) \/ n \in Deciding(t)
    OBVIOUS
  <2>h. HasLast(Deciding(t) \ {n})
    BY <2>1 DEF Orderly
  <2>g. /\ HasLast(Deciding(t))
        /\ n \in Deciding(t) => Deciding(t) # {} /\ t[Max(Deciding(t))] = e
        /\ n \notin Deciding(t) => (Deciding(t) # {} => t[Max(Deciding(t))] = s[Max(Deciding(t))])
    BY <1>a, <2>3, <2>h
  <2>4. /\ HasLast(Deciding(t))
        /\ n \in Deciding(t) => Deciding(t) # {} /\ t[Max(Deciding(t))] = e
        /\ n \notin Deciding(t) =>
             /\ Deciding(t) = Deciding(s)
             /\ Deciding(t) # {} => t[Max(Deciding(t))] = s[Max(Deciding(s))]
    BY <2>1, <2>s, <2>g
  <2>5. CASE n \in Deciding(t)
    <3>1. Fixed(t) = (e \notin {<<"dhcp", "yes">>, <<"dhcp", "none">>})
      BY <2>4, <2>5 DEF Fixed
    <3> QED BY <2>4, <2>5, <2>2, <3>1 DEF e
  <2>6. CASE n \notin Deciding(t)
    BY <2>4, <2>6, <2>2 DEF Fixed
  <2> QED BY <2>5, <2>6
<1>4. ASSUME NEW k \in Inet
      PROVE  /\ HasLast(Giving(t, k))
             /\ Last(t, Giving(t, k)) = IF k = cmd /\ arg \in Valid THEN arg ELSE Last(s, Giving(s, k))
  <2>1. Giving(t, k) \ {n} = Giving(s, k)
    BY <1>1, <1>2 DEF Giving
  <2>2. n \in Giving(t, k) <=> (k = cmd /\ arg \in Valid)
    BY <1>1, <1>2 DEF Giving
  <2>3. Giving(t, k) \in SUBSET (1 .. n)
    BY <1>1 DEF Giving
  <2>s. Giving(t, k) \ {n} = Giving(t, k) \/ n \in Giving(t, k)
    OBVIOUS
  <2>h. HasLast(Giving(t, k) \ {n})
    BY <2>1 DEF Orderly
  <2>g. /\ HasLast(Giving(t, k))
        /\ n \in Giving(t, k) => Giving(t, k) # {} /\ t[Max(Giving(t, k))] = e
        /\ n \notin Giving(t, k) => (Giving(t, k) # {} => t[Max(Giving(t, k))] = s[Max(Giving(t, k))])
    BY <1>a, <2>3, <2>h
  <2>4. /\ HasLast(Giving(t, k))
        /\ n \in Giving(t, k) => Giving(t, k) # {} /\ t[Max(Giving(t, k))] = e
        /\ n \notin Giving(t, k) =>
             /\ Giving(t, k) = Giving(s, k)
             /\ Giving(t, k) # {} => t[Max(Giving(t, k))] = s[Max(Giving(s, k))]
    BY <2>1, <2>s, <2>g
  <2> QED BY <2>2, <2>4, <1>1 DEF Last
<1>5. /\ HasLast(Naming(t))
      /\ Mac(t) = IF cmd = "hwaddr" /\ arg \in {"none", "eeprom"} THEN "eeprom"
                  ELSE IF cmd = "hwaddr" /\ arg \in Valid THEN arg ELSE Mac(s)
  <2>1. Naming(t) \ {n} = Naming(s)
    BY <1>1, <1>2 DEF Naming
  <2>2. n \in Naming(t) <=> (cmd = "hwaddr" /\ arg \in Valid \union {"none", "eeprom"})
    BY <1>1, <1>2 DEF Naming
  <2>3. Naming(t) \in SUBSET (1 .. n)
    BY <1>1 DEF Naming
  <2>s. Naming(t) \ {n} = Naming(t) \/ n \in Naming(t)
    OBVIOUS
  <2>h. HasLast(Naming(t) \ {n})
    BY <2>1 DEF Orderly
  <2>g. /\ HasLast(Naming(t))
        /\ n \in Naming(t) => Naming(t) # {} /\ t[Max(Naming(t))] = e
        /\ n \notin Naming(t) => (Naming(t) # {} => t[Max(Naming(t))] = s[Max(Naming(t))])
    BY <1>a, <2>3, <2>h
  <2>4. /\ HasLast(Naming(t))
        /\ n \in Naming(t) => Naming(t) # {} /\ t[Max(Naming(t))] = e
        /\ n \notin Naming(t) =>
             /\ Naming(t) = Naming(s)
             /\ Naming(t) # {} => t[Max(Naming(t))] = s[Max(Naming(s))]
    BY <2>1, <2>s, <2>g
  <2>5. n \in Naming(t) => Last(t, Naming(t)) = arg
    BY <2>4, <1>1 DEF Last
  <2>6. n \notin Naming(t) => Last(t, Naming(t)) = Last(s, Naming(s))
    BY <2>4 DEF Last
  <2> QED BY <2>2, <2>4, <2>5, <2>6 DEF Mac, Valid
<1>6. Orderly(t)
  BY <1>3, <1>4, <1>5 DEF Orderly
<1>7. Address(t) = [k \in Inet |-> IF k = cmd /\ arg \in Valid THEN arg ELSE c.inet[k]]
  BY <1>4 DEF Address
<1>8. ParseLine(c, cmd, arg).use_static = Fixed(t)
  BY <1>3 DEF ParseLine
<1>9. ParseLine(c, cmd, arg).hwaddr = Mac(t)
  BY <1>5 DEF ParseLine, Valid
<1>10. ParseLine(c, cmd, arg).inet = Address(t)
  BY <1>7 DEF ParseLine
<1>11. ParseLine(c, cmd, arg) = [use_static |-> ParseLine(c, cmd, arg).use_static,
                                 inet |-> ParseLine(c, cmd, arg).inet,
                                 hwaddr |-> ParseLine(c, cmd, arg).hwaddr]
  BY DEF ParseLine
<1> QED BY <1>6, <1>8, <1>9, <1>10, <1>11 DEF t, e

\* Without lines the configuration is all zero.
LEMMA NoLines ==
  ASSUME NEW c, c = Zero, NEW s, s = << >>
  PROVE  /\ s \in Seq(Line) /\ Orderly(s)
         /\ c = [use_static |-> Fixed(s), inet |-> Address(s), hwaddr |-> Mac(s)]
<1>1. s \in Seq(Line) /\ Len(s) = 0 /\ 1 .. Len(s) = {}
  BY EmptySeq
<1>2. Deciding(s) = {} /\ Naming(s) = {} /\ \A k \in Inet : Giving(s, k) = {}
  BY <1>1 DEF Deciding, Naming, Giving
<1>3. Orderly(s)
  BY <1>2 DEF Orderly, HasLast
<1>4. Fixed(s) = FALSE /\ Address(s) = [k \in Inet |-> "zero"] /\ Mac(s) = "zero"
  BY <1>2 DEF Fixed, Address, Mac, Last
<1> QED BY <1>1, <1>3, <1>4 DEF Zero

-----------------------------------------------------------------------------
(***************************************************************************)
(* EEPROM.DAT.                                                             *)
(***************************************************************************)
\* Past the file the main thread has it whole, or has seen something fail.
DatInv == boot \in {"net", "up"} /\ ~failed => dat = "whole"

-----------------------------------------------------------------------------
(***************************************************************************)
(* The bus.  Until the daemons are started, the console and brdstats do    *)
(* nothing; main is over before the main thread looks for the SD card.     *)
(***************************************************************************)
StartInv ==
  /\ main # "run" => boot = "mount0"
  /\ boot # "up" => brd = "delay" /\ con = "menu" /\ ~sent

Branch == {"none", "afe", "osc", "temps", "ltc", "eeprom"}

BusType ==
  /\ port \in Branch
  /\ msg \in [temps : Branch \union {Blank}, rails : Branch \union {Blank}, measured : BOOLEAN]
  /\ ltc \in {"off", "on", "ready"}
  /\ sent \in BOOLEAN

\* Between its select and its transfers brdstats has the expander for itself,
\* and the monitors have had their second when a message was sent before.
StatsInv ==
  /\ brd = "readTemps" => port = "temps"
  /\ brd \in {"select", "configure", "readLtc"} => port = "ltc"
  /\ brd \in {"ltc", "select", "configure", "readLtc", "send"} => msg.temps = "temps"
  /\ brd = "send" => msg.rails = "ltc" /\ (sent => msg.measured)
  /\ brd \in {"readLtc", "send"} \/ sent => ltc # "off"
  /\ sent /\ brd \notin {"delay", "send"} => ltc = "ready"

Accounted == Field \subseteq stored \union burning \union torn \union Fields(todo)

\* The console has fields left only while it writes them; a field it is about
\* to write goes to the EEPROM, unless brdstats moved the expander.  What is not
\* stored is still to be written, in its write cycle, or lost.
ConInv ==
  /\ todo \in Seq(Field)
  /\ con \in {"menu", "dump", "point", "read", "reading"} => todo = << >>
  /\ con \in {"select", "write"} => todo # << >>
  /\ burning \subseteq Field /\ (burning # {} => con = "pause")
  /\ con = "write" /\ port # "eeprom" => Head(todo) \in torn
  /\ Accounted

BoardInv == ConfInv /\ DatInv /\ StartInv /\ BusType /\ StatsInv /\ ConInv

-----------------------------------------------------------------------------
(***************************************************************************)
(* The steps.                                                              *)
(***************************************************************************)
LEMMA BoardStart == BoardInit => BoardInv
<1> SUFFICES ASSUME BoardInit PROVE BoardInv
  OBVIOUS
<1> USE DEF BoardInit, SdInit, SdStart, BusInit
<1>1. ConfInv
  BY NoLines DEF ConfInv
<1>2. DatInv /\ StartInv
  BY DEF DatInv, StartInv
<1>3. BusType
  BY DEF BusType, Branch, NoMsg
<1>4. StatsInv
  BY DEF StatsInv
<1>5. ConInv
  <2>1. todo \in Seq(Field)
    BY EmptySeq
  <2> QED BY <2>1 DEF ConInv, Accounted
<1> QED BY <1>1, <1>2, <1>3, <1>4, <1>5 DEF BoardInv

LEMMA ConfStep == ConfInv /\ [BoardNext]_boardVars => ConfInv'
<1> SUFFICES ASSUME ConfInv, [BoardNext]_boardVars PROVE ConfInv'
  OBVIOUS
<1>1. ASSUME UNCHANGED <<conf, cnf>> PROVE ConfInv'
  BY <1>1 DEF ConfInv
<1>2. ASSUME conf' = Zero, cnf' = << >> PROVE ConfInv'
  BY <1>2, NoLines DEF ConfInv
<1>3. CASE BoardBoot
  <2>1. ASSUME NEW l \in Lines, NetconfLine(l[1], l[2]) PROVE ConfInv'
    <3>1. <<l[1], l[2]>> \in Line
      BY DEF Line
    <3>2. cnf' = Append(cnf, <<l[1], l[2]>>) /\ conf' = ParseLine(conf, l[1], l[2])
      BY <2>1 DEF NetconfLine
    <3>3. cnf' \in Seq(Line)
      BY <3>1, <3>2, AppendProperties DEF ConfInv
    <3> DEFINE cmd == l[1]
               arg == l[2]
    <3>4. /\ <<cmd, arg>> \in Line
          /\ cnf' = Append(cnf, <<cmd, arg>>) /\ conf' = ParseLine(conf, cmd, arg)
      BY <3>1, <3>2
    <3> HIDE DEF cmd, arg
    <3>5. /\ cnf \in Seq(Line) /\ Orderly(cnf)
          /\ conf = [use_static |-> Fixed(cnf), inet |-> Address(cnf), hwaddr |-> Mac(cnf)]
      BY DEF ConfInv
    <3>6. /\ Orderly(Append(cnf, <<cmd, arg>>))
          /\ ParseLine(conf, cmd, arg)
               = [use_static |-> Fixed(Append(cnf, <<cmd, arg>>)),
                  inet |-> Address(Append(cnf, <<cmd, arg>>)),
                  hwaddr |-> Mac(Append(cnf, <<cmd, arg>>))]
      BY <3>4, <3>5, LineRead
    <3> QED BY <3>3, <3>4, <3>6 DEF ConfInv
  <2>2. CASE FileStep
    <3>1. CASE NetSetup
      BY <3>1, <1>2 DEF NetSetup
    <3>2. CASE ~NetSetup
      BY <2>2, <3>2, <1>1 DEF FileStep, Mount, NetconfEnd, EepromNew, OpenDat, Compare, Update,
        SyncDat, UpdateFails
    <3> QED BY <3>1, <3>2
  <2> QED BY <1>3, <2>1, <2>2 DEF BoardBoot
<1>4. CASE PowerCut
  BY <1>4, <1>2 DEF PowerCut, SdCut
<1>5. CASE BoardMain \/ BoardConsole \/ BoardBrdWake \/ BoardBrdstats \/ UNCHANGED boardVars
  BY <1>5, <1>1 DEF BoardMain, BoardConsole, BoardBrdWake, BoardBrdstats, boardVars, sdVars
<1> QED BY <1>3, <1>4, <1>5 DEF BoardNext

LEMMA DatStep == DatInv /\ [BoardNext]_boardVars => DatInv'
<1> SUFFICES ASSUME DatInv, [BoardNext]_boardVars PROVE DatInv'
  OBVIOUS
<1>1. CASE BoardBoot
  BY <1>1 DEF BoardBoot, NetconfLine, FileStep, Mount, NetconfEnd, EepromNew, OpenDat, Compare,
    Update, SyncDat, UpdateFails, NetSetup, DatInv
<1>2. CASE PowerCut
  BY <1>2 DEF PowerCut, SdCut, DatInv
<1>3. CASE BoardMain \/ BoardConsole \/ BoardBrdWake \/ BoardBrdstats \/ UNCHANGED boardVars
  BY <1>3 DEF BoardMain, BoardConsole, BoardBrdWake, BoardBrdstats, boardVars, sdVars, DatInv
<1> QED BY <1>1, <1>2, <1>3 DEF BoardNext

LEMMA StartStep == StartInv /\ [BoardNext]_boardVars => StartInv'
<1> SUFFICES ASSUME StartInv, [BoardNext]_boardVars PROVE StartInv'
  OBVIOUS
<1>1. CASE BoardMain
  BY <1>1 DEF BoardMain, MainStep, StartBuses, WriteOscillator, WritePll, ReadMonitor,
    StartConverters, SyncConverters, StartScheduler, sdVars, brdVars, conVars, StartInv
<1>2. CASE BoardBoot
  BY <1>2 DEF BoardBoot, NetconfLine, FileStep, Mount, NetconfEnd, EepromNew, OpenDat, Compare,
    Update, SyncDat, UpdateFails, NetSetup, brdVars, conVars, StartInv
<1>3. CASE PowerCut
  BY <1>3 DEF PowerCut, SdCut, BusCut, StartInv
<1>4. CASE BoardConsole \/ BoardBrdWake \/ BoardBrdstats
  BY <1>4 DEF BoardConsole, BoardBrdWake, BoardBrdstats, Started, sdVars, StartInv
<1>5. CASE UNCHANGED boardVars
  BY <1>5 DEF boardVars, sdVars, busVars, StartInv
<1> QED BY <1>1, <1>2, <1>3, <1>4, <1>5 DEF BoardNext

\* What each step may do to the expander, the message and the monitors.
LEMMA BusTypeStep == BusType /\ [BoardNext]_boardVars => BusType'
<1> SUFFICES ASSUME BusType, [BoardNext]_boardVars PROVE BusType'
  OBVIOUS
<1> USE DEF BusType, Branch
<1>1. CASE BoardMain
  BY <1>1 DEF BoardMain, MainStep, StartBuses, WriteOscillator, WritePll, ReadMonitor,
    StartConverters, SyncConverters, StartScheduler, brdVars
<1>2. CASE BoardBoot
  BY <1>2 DEF BoardBoot, brdVars
<1>3. CASE BoardConsole
  BY <1>3 DEF BoardConsole, Console, Choose, ChooseDump, ConSelect, ConWrite, ConPause, ConPoint,
    ConRead, ConReadDone, brdVars
<1>4. CASE BoardBrdWake
  BY <1>4 DEF BoardBrdWake, BrdWake
<1>5. CASE BoardBrdstats
  <2> USE DEF BrdTransfer, BrdSelect
  <2>1. CASE BrdSelect("temps", "temps", "readTemps") \/ BrdSelect("ltc", "ltc", "select")
             \/ BrdSelect("select", "ltc", "configure")
    BY <2>1
  <2>2. CASE ReadTemps
    <3>1. [msg EXCEPT !.temps = port] \in
            [temps : Branch \union {Blank}, rails : Branch \union {Blank}, measured : BOOLEAN]
      OBVIOUS
    <3> QED BY <2>2, <3>1 DEF ReadTemps
  <2>3. CASE Configure
    BY <2>3 DEF Configure
  <2>4. CASE ReadRails
    <3> DEFINE ready == ltc = "ready"
    <3>1. ready \in BOOLEAN
      OBVIOUS
    <3> HIDE DEF ready
    <3>2. [msg EXCEPT !.rails = port, !.measured = ready] \in
            [temps : Branch \union {Blank}, rails : Branch \union {Blank}, measured : BOOLEAN]
      BY <3>1
    <3> QED BY <2>4, <3>2 DEF ReadRails, ready
  <2>5. CASE BrdSend
    BY <2>5 DEF BrdSend
  <2> QED BY <1>5, <2>1, <2>2, <2>3, <2>4, <2>5 DEF BoardBrdstats, Brdstats
<1>6. CASE PowerCut
  BY <1>6 DEF PowerCut, BusCut, PowerGoes, Restarts, NoMsg
<1>7. CASE UNCHANGED boardVars
  BY <1>7 DEF boardVars, busVars
<1> QED BY <1>1, <1>2, <1>3, <1>4, <1>5, <1>6, <1>7 DEF BoardNext

LEMMA StatsStep ==
  StartInv /\ BusType /\ StatsInv /\ [BoardNext]_boardVars => StatsInv'
<1> SUFFICES ASSUME StartInv, BusType, StatsInv, [BoardNext]_boardVars PROVE StatsInv'
  OBVIOUS
<1>1. CASE BoardMain \/ BoardBoot
  <2>1. brd = "delay" /\ ~sent /\ UNCHANGED brdVars
    BY <1>1 DEF BoardMain, MainStep, StartBuses, WriteOscillator, WritePll, ReadMonitor,
      StartConverters, SyncConverters, StartScheduler, BoardBoot, NetconfLine, FileStep, Mount,
      NetconfEnd, EepromNew, OpenDat, Compare, Update, SyncDat, UpdateFails, NetSetup, StartInv
  <2> QED BY <2>1 DEF brdVars, StatsInv
<1>2. CASE BoardConsole
  <2>1. brd \in {"delay", "send"} /\ UNCHANGED brdVars
    BY <1>2 DEF BoardConsole, Console, Choose, ChooseDump, ConSelect, ConWrite, ConPause, ConPoint,
      ConRead, ConReadDone, Runs
  <2> QED BY <2>1 DEF brdVars, StatsInv
<1>3. CASE BoardBrdWake
  BY <1>3 DEF BoardBrdWake, BrdWake, StatsInv, BusType
<1>4. CASE BoardBrdstats
  <2> USE DEF BrdTransfer, BrdSelect
  <2>1. CASE BrdSelect("temps", "temps", "readTemps") \/ BrdSelect("ltc", "ltc", "select")
             \/ BrdSelect("select", "ltc", "configure")
    BY <2>1 DEF StatsInv
  <2>2. CASE ReadTemps
    <3>1. msg'.temps = "temps"
      BY <2>2 DEF ReadTemps, StatsInv, BusType
    <3> QED BY <2>2, <3>1 DEF ReadTemps, StatsInv
  <2>3. CASE Configure
    BY <2>3 DEF Configure, StatsInv, BusType
  <2>4. CASE ReadRails
    <3>1. msg'.temps = "temps" /\ msg'.rails = "ltc"
      BY <2>4 DEF ReadRails, StatsInv, BusType
    <3>2. msg'.measured = (ltc = "ready")
      <4> DEFINE ready == ltc = "ready"
      <4> HIDE DEF ready
      <4>1. [msg EXCEPT !.rails = port, !.measured = ready].measured = ready
        BY DEF BusType
      <4> QED BY <2>4, <4>1 DEF ReadRails, ready
    <3> QED BY <2>4, <3>1, <3>2 DEF ReadRails, StatsInv
  <2>5. CASE BrdSend
    BY <2>5 DEF BrdSend, StatsInv
  <2> QED BY <1>4, <2>1, <2>2, <2>3, <2>4, <2>5 DEF BoardBrdstats, Brdstats
<1>5. CASE PowerCut
  BY <1>5 DEF PowerCut, BusCut, StatsInv
<1>6. CASE UNCHANGED boardVars
  BY <1>6 DEF boardVars, busVars, StatsInv
<1> QED BY <1>1, <1>2, <1>3, <1>4, <1>5, <1>6 DEF BoardNext

\* The fields of a list that is not empty: its head and those of its tail.
LEMMA HeadField ==
  ASSUME NEW s \in Seq(Field), s # << >>
  PROVE  /\ Head(s) \in Field /\ Tail(s) \in Seq(Field)
         /\ Fields(s) = {Head(s)} \union Fields(Tail(s))
<1>1. /\ Head(s) \in Field /\ Tail(s) \in Seq(Field) /\ Head(s) = s[1]
      /\ Len(s) \in Nat /\ Len(s) >= 1
      /\ Len(Tail(s)) = Len(s) - 1 /\ \A i \in 1 .. Len(Tail(s)) : Tail(s)[i] = s[i + 1]
  BY HeadTailProperties, EmptySeq, LenProperties
<1>2. \A i \in 1 .. Len(Tail(s)) : i + 1 \in 1 .. Len(s)
  BY <1>1
<1>3. Fields(Tail(s)) \subseteq Fields(s)
  BY <1>1, <1>2 DEF Fields
<1>4. Head(s) \in Fields(s)
  BY <1>1 DEF Fields
<1>5. ASSUME NEW i \in 1 .. Len(s) PROVE s[i] \in {Head(s)} \union Fields(Tail(s))
  <2>1. CASE i = 1
    BY <2>1, <1>1
  <2>2. CASE i # 1
    <3>1. i - 1 \in 1 .. Len(Tail(s)) /\ (i - 1) + 1 = i
      BY <2>2, <1>1
    <3>2. Tail(s)[i - 1] = s[i]
      BY <3>1, <1>1
    <3> QED BY <3>1, <3>2 DEF Fields
  <2> QED BY <2>1, <2>2
<1>6. Fields(s) \subseteq {Head(s)} \union Fields(Tail(s))
  BY <1>5 DEF Fields
<1> QED BY <1>1, <1>3, <1>4, <1>6

\* What the menu gives the console to write.
LEMMA Chosen ==
  ASSUME NEW s \in {Settings, <<"res">>}
  PROVE  s \in Seq(Field) /\ s # << >> /\ Fields(s) \subseteq Field
<1>1. s \in Seq(Field) /\ s # << >>
  <2>1. CASE s = Settings
    <3>1. <<"ip", "mask", "gw">> \in Seq(Field) /\ <<"ip", "mask", "gw">> # << >>
      BY DEF Field
    <3> QED BY <2>1, <3>1 DEF Settings
  <2>2. CASE s = <<"res">>
    <3>1. <<"res">> \in Seq(Field) /\ <<"res">> # << >>
      BY DEF Field
    <3> QED BY <2>2, <3>1
  <2> QED BY <2>1, <2>2
<1>2. \A i \in 1 .. Len(s) : s[i] \in Field
  BY <1>1, ElementOfSeq
<1> QED BY <1>1, <1>2 DEF Fields

LEMMA ConStep == StartInv /\ ConInv /\ [BoardNext]_boardVars => ConInv'
<1> SUFFICES ASSUME StartInv, ConInv, [BoardNext]_boardVars PROVE ConInv'
  OBVIOUS
<1>1. CASE BoardMain \/ BoardBoot
  <2>1. con = "menu" /\ UNCHANGED <<con, todo, stored, burning, torn>>
    BY <1>1 DEF BoardMain, MainStep, StartBuses, WriteOscillator, WritePll, ReadMonitor,
      StartConverters, SyncConverters, StartScheduler, BoardBoot, NetconfLine, FileStep, Mount,
      NetconfEnd, EepromNew, OpenDat, Compare, Update, SyncDat, UpdateFails, NetSetup, StartInv,
      conVars, eeVars
  <2>2. Accounted'
    BY <2>1 DEF ConInv, Accounted, Fields
  <2> QED BY <2>1, <2>2 DEF ConInv
<1>2. CASE BoardConsole
  <2>1. ASSUME NEW s \in {Settings, <<"res">>}, Choose(s) PROVE ConInv'
    <3>1. s \in Seq(Field) /\ s # << >> /\ Fields(s) \subseteq Field
      BY Chosen
    <3>2. Accounted'
      BY <2>1, <3>1, EmptySeq DEF Choose, ConInv, Accounted, Fields
    <3> QED BY <2>1, <3>1, <3>2 DEF Choose, ConInv
  <2>2. CASE ChooseDump \/ ConSelect \/ ConPoint \/ ConRead \/ ConReadDone
    <3>1. UNCHANGED <<stored, burning, torn, todo>>
      BY <2>2 DEF ChooseDump, ConSelect, ConPoint, ConRead, ConReadDone, eeVars
    <3>2. Accounted'
      BY <3>1 DEF ConInv, Accounted, Fields
    <3> QED BY <2>2, <3>1, <3>2 DEF ChooseDump, ConSelect, ConPoint, ConRead, ConReadDone,
      ConInv, eeVars
  <2>3. CASE ConWrite
    <3>1. todo \in Seq(Field) /\ todo # << >>
      BY <2>3 DEF ConWrite, ConInv
    <3>2. todo' = Tail(todo) /\ todo' \in Seq(Field) /\ Fields(todo) = {Head(todo)} \union Fields(todo')
      BY <2>3, <3>1, HeadField DEF ConWrite, Fields
    <3>3. burning = {} /\ con' = "pause" /\ UNCHANGED <<stored, torn>>
      BY <2>3 DEF ConWrite, ConInv
    <3>4. /\ Head(todo) \in burning' \union torn /\ Head(todo) \in Field
          /\ burning' \subseteq {Head(todo)}
      BY <2>3, <3>1, <3>3, HeadField DEF ConWrite, ConInv
    <3>5. Accounted'
      BY <3>2, <3>3, <3>4 DEF ConInv, Accounted, Fields
    <3> QED BY <3>2, <3>3, <3>4, <3>5 DEF ConInv
  <2>4. CASE ConPause
    <3>1. /\ stored' = stored \union burning /\ burning' = {}
          /\ UNCHANGED <<todo, torn>>
          /\ con' = IF todo = << >> THEN "menu" ELSE "select"
      BY <2>4 DEF ConPause
    <3>2. Accounted'
      BY <3>1 DEF ConInv, Accounted, Fields
    <3> QED BY <3>1, <3>2 DEF ConInv
  <2> QED BY <1>2, <2>1, <2>2, <2>3, <2>4 DEF BoardConsole, Console
<1>3. CASE BoardBrdWake
  <2>1. UNCHANGED <<con, todo, stored, burning, torn, port>>
    BY <1>3 DEF BoardBrdWake, BrdWake, conVars, eeVars
  <2>2. Accounted'
    BY <2>1 DEF ConInv, Accounted, Fields
  <2> QED BY <2>1, <2>2 DEF ConInv
<1>4. CASE BoardBrdstats
  <2> USE DEF BrdTransfer, BrdSelect
  <2>1. UNCHANGED <<con, todo, stored, burning>> /\ torn \subseteq torn'
    BY <1>4 DEF BoardBrdstats, Brdstats, ReadTemps, Configure, ReadRails, BrdSend, conVars, eeVars
  <2>2. con = "write" /\ port' # "eeprom" => Head(todo) \in torn'
    BY <1>4 DEF BoardBrdstats, Brdstats, ReadTemps, Configure, ReadRails, BrdSend, ConInv
  <2>3. Accounted'
    BY <2>1 DEF ConInv, Accounted, Fields
  <2> QED BY <2>1, <2>2, <2>3 DEF ConInv
<1>5. CASE PowerCut
  <2>1. /\ con' = "menu" /\ todo' = << >> /\ burning' = {}
        /\ stored \union burning \union torn \union Fields(todo) \subseteq stored' \union torn'
    BY <1>5 DEF PowerCut, BusCut, PowerGoes, Restarts
  <2>2. Accounted'
    BY <2>1 DEF ConInv, Accounted, Fields
  <2> QED BY <2>1, <2>2, EmptySeq DEF ConInv
<1>6. CASE UNCHANGED boardVars
  <2>1. UNCHANGED <<con, todo, stored, burning, torn, port>>
    BY <1>6 DEF boardVars, busVars
  <2>2. Accounted'
    BY <2>1 DEF ConInv, Accounted, Fields
  <2> QED BY <2>1, <2>2 DEF ConInv
<1> QED BY <1>1, <1>2, <1>3, <1>4, <1>5, <1>6 DEF BoardNext

\* Every rail but v0_85 is read where it is drawn, and v0_85's voltage is.
LEMMA RailsAsDrawn ==
  \A r \in DOMAIN Drawn : VoltageAsDrawn(r) /\ (r # "v0_85" => CurrentAsDrawn(r))
<1>1. DOMAIN Drawn = {"vin", "v2_5mgt", "v2_5", "v1_2mgt", "v0_9mgt", "v1_2ddr", "v1_8", "v3_3", "v0_85"}
  BY DEF Drawn
<1> USE DEF VoltageAsDrawn, CurrentAsDrawn, Figure, Holds, Paired, Chip, Drawn, VoltageAt, CurrentAt, Rail
<1>2. VoltageAsDrawn("vin") /\ CurrentAsDrawn("vin")
  OBVIOUS
<1>3. VoltageAsDrawn("v2_5mgt") /\ CurrentAsDrawn("v2_5mgt")
  OBVIOUS
<1>4. VoltageAsDrawn("v2_5") /\ CurrentAsDrawn("v2_5")
  OBVIOUS
<1>5. VoltageAsDrawn("v1_2mgt") /\ CurrentAsDrawn("v1_2mgt")
  OBVIOUS
<1>6. VoltageAsDrawn("v0_9mgt") /\ CurrentAsDrawn("v0_9mgt")
  OBVIOUS
<1>7. VoltageAsDrawn("v1_2ddr") /\ CurrentAsDrawn("v1_2ddr")
  OBVIOUS
<1>8. VoltageAsDrawn("v1_8") /\ CurrentAsDrawn("v1_8")
  OBVIOUS
<1>9. VoltageAsDrawn("v3_3") /\ CurrentAsDrawn("v3_3")
  OBVIOUS
<1>10. VoltageAsDrawn("v0_85")
  OBVIOUS
<1> HIDE DEF VoltageAsDrawn, CurrentAsDrawn, Drawn
<1> QED BY <1>1, <1>2, <1>3, <1>4, <1>5, <1>6, <1>7, <1>8, <1>9, <1>10

-----------------------------------------------------------------------------
(***************************************************************************)
(* The theorems.                                                           *)
(***************************************************************************)
\* The board keeps BoardInv from power-on, through any number of restarts.
THEOREM BoardInvariant == BoardSpec => []BoardInv
<1>1. BoardInit => BoardInv
  BY BoardStart
<1>2. BoardInv /\ [BoardNext]_boardVars => BoardInv'
  BY ConfStep, DatStep, StartStep, BusTypeStep, StatsStep, ConStep DEF BoardInv
<1> QED BY <1>1, <1>2, PTL DEF BoardSpec

\* sdcard_netconf: whatever lines NET.CNF has, in any order and number, with
\* repetitions, missing and refused arguments, net_config is what the lines read
\* so far mean as a whole.
THEOREM ConfiguredCorrect == BoardSpec => []ConfiguredAsFileSays
<1>1. BoardInv => ConfiguredAsFileSays
  BY ConfMeaning DEF BoardInv
<1> QED BY <1>1, BoardInvariant, PTL

\* sdcard_handle_eeprom: a start in which no file operation failed ends with
\* EEPROM.DAT at its full length, also after an update that was cut off.
THEOREM DatCorrect == BoardSpec => []DatWhole
<1>1. BoardInv => DatWhole
  BY DEF BoardInv, DatInv, DatWhole
<1> QED BY <1>1, BoardInvariant, PTL

\* brdstats: what is sent was read from the temperature sensors and the LTC2991s
\* of its rails, though the console moves the same expander, and was measured
\* but for the first message.
THEOREM StatsCorrect == BoardSpec => []StatsFromTheirDevices
<1>1. BoardInv => StatsFromTheirDevices
  BY RailsAsDrawn DEF BoardInv, StatsInv, StatsFromTheirDevices
<1> QED BY <1>1, BoardInvariant, PTL

\* program_ip and set_resolution: back at the menu, a setting is stored, or its
\* write was preempted by brdstats, or cut off before the end of its write cycle.
THEOREM SettingsCorrect == BoardSpec => []SettingsStored
<1>1. BoardInv => SettingsStored
  <2>1. ASSUME ConInv, con = "menu" PROVE Field \subseteq stored \union torn
    <3>1. todo = << >> /\ Fields(todo) = {} /\ burning = {}
      BY <2>1, EmptySeq DEF ConInv, Fields
    <3> QED BY <2>1, <3>1 DEF ConInv, Accounted
  <2> QED BY <2>1 DEF BoardInv, SettingsStored
<1> QED BY <1>1, BoardInvariant, PTL
=============================================================================
