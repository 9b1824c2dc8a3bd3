------------------------------ MODULE Ltc2991 -------------------------------
(***************************************************************************)
(* The LTC2991 monitors, as i2c_devices.c sets them up and reads them.     *)
(* Each has eight pins, and a register for each: the voltage of the pin    *)
(* or, where the pins are measured in pairs, every other register the      *)
(* difference over the pair, which stands for the rail's current.          *)
(***************************************************************************)
EXTENDS Naturals

Chip == {"U42", "U14", "U37", "adc", "dac"}     \* 0x48, 4A, 49, 4B, 4C

\* i2c_configure_ltc2991, registers 6 and 7: the pins measured in pairs.
Paired == [c \in Chip |-> IF c = "U42" THEN 5 .. 8 ELSE 1 .. 8]

\* External: what register 0x0A + 2 * index of a configured chip holds; pin is
\* the first of its pair.
Holds(chip, index) ==
  IF index + 1 \in Paired[chip] /\ index % 2 = 1
  THEN [chip |-> chip, pin |-> index, what |-> "difference"]
  ELSE [chip |-> chip, pin |-> index + 1, what |-> "voltage"]

\* The argument of i2c_ltc2991_voltage in the function named for the rail ...
VoltageAt ==
  [vin     |-> <<"U42", 6>>,
   v2_5mgt |-> <<"U14", 0>>, v2_5 |-> <<"U14", 2>>,
   v1_2mgt |-> <<"U14", 4>>, v0_9mgt |-> <<"U14", 6>>,
   v1_2ddr |-> <<"U37", 0>>, v1_8 |-> <<"U37", 2>>,
   v3_3    |-> <<"U37", 4>>, v0_85 |-> <<"U37", 6>>,
   vadc_avcc |-> <<"adc", 0>>, vadc_avcc_aux |-> <<"adc", 2>>,
   vdac_avcc |-> <<"dac", 0>>, vdac_avcc_aux |-> <<"dac", 2>>, vdac_avtt |-> <<"dac", 4>>]

Rail == DOMAIN VoltageAt

\* ... and for its current: the next one, but for v0_85.
CurrentAt ==
  [r \in Rail |-> <<VoltageAt[r][1], VoltageAt[r][2] + (IF r = "v0_85" THEN 0 ELSE 1)>>]

Figure(at) == Holds(at[1], at[2])
-----------------------------------------------------------------------------
\* The schematic, as the comment above i2c_configure_ltc2991 has it.
Drawn ==
  [vin     |-> <<"U42", 7>>,
   v2_5mgt |-> <<"U14", 1>>, v2_5 |-> <<"U14", 3>>,
   v1_2mgt |-> <<"U14", 5>>, v0_9mgt |-> <<"U14", 7>>,
   v1_2ddr |-> <<"U37", 1>>, v1_8 |-> <<"U37", 3>>,
   v3_3    |-> <<"U37", 5>>, v0_85 |-> <<"U37", 7>>]

\* The message says of rail r, of what is drawn, what is measured at its pins.
VoltageAsDrawn(r) ==
  Figure(VoltageAt[r]) = [chip |-> Drawn[r][1], pin |-> Drawn[r][2], what |-> "voltage"]

CurrentAsDrawn(r) ==
  Figure(CurrentAt[r]) = [chip |-> Drawn[r][1], pin |-> Drawn[r][2], what |-> "difference"]
=============================================================================
