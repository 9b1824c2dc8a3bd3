--------------------------- MODULE TbtPathProofs ----------------------------
(***************************************************************************)
(* Proofs about the trigger synchroniser, for every width of its counters, *)
(* and about the way of the TbT event to it, for every ratio of the two    *)
(* clocks from two upwards.                                                *)
(***************************************************************************)
EXTENDS TbtPath, TLAPS

-----------------------------------------------------------------------------
(***************************************************************************)
(* TriggerSync.  PulsesOnTime is not inductive: it needs to know that a    *)
(* pending count is what is left of the latched delay, and that an output  *)
(* that is not pending any more has had its time.  CountInv says so, state *)
(* by state.                                                               *)
(***************************************************************************)
\* What the counters mean in each state.
WaitInv ==
  state = "WAIT_TBT" => /\ age = NoEdge
                        /\ \A o \in Out : count[o] = set[o]

CountInv ==
  state = "DELAY_TRIGGERS" =>
    /\ age # NoEdge
    /\ \E o \in Out : pending[o] = 1
    /\ \A o \in Out : pending[o] = 1 => count[o] = set[o] - age
    /\ \A o \in Out : pending[o] = 0 => set[o] <= age

IdleInv ==
  (state = "IDLE" /\ age # NoEdge) => \A o \in Out : set[o] <= age

ArmedInv == armed = 1 <=> state # "IDLE"

IInv == TypeOK /\ WaitInv /\ CountInv /\ IdleInv /\ ArmedInv /\ PulsesOnTime

-----------------------------------------------------------------------------
\* The declared values satisfy the invariant.
LEMMA InitInv == Init => IInv
  BY DelayAssumption DEF Init, IInv, TypeOK, WaitInv, CountInv, IdleInv, ArmedInv,
     PulsesOnTime, Both, Bit, Delay, NoEdge, Out

\* The synchronisers keep their type.
LEMMA ShiftType ==
  ASSUME TypeOK, Shift
  PROVE  tbt' \in Bit \X Bit \X Bit /\ soft' \in Bit \X Bit \X Bit
  BY DEF TypeOK, Shift, Bit

\* Arming latches the delays and starts no countdown.
LEMMA ArmStep ==
  ASSUME IInv, Shift, Arm
  PROVE  IInv'
<1>1. TypeOK'
  BY ShiftType, DelayAssumption DEF IInv, TypeOK, Arm, Both, Bit, Delay, NoEdge, Out
<1>2. (WaitInv /\ CountInv /\ IdleInv /\ ArmedInv)'
  BY DEF Arm, WaitInv, CountInv, IdleInv, ArmedInv
<1>3. PulsesOnTime'
  BY <1>1 DEF Arm, PulsesOnTime, TypeOK, Both, Delay, NoEdge
<1> QED
  BY <1>1, <1>2, <1>3 DEF IInv

\* A clock without an edge ends the pulses and forgets the age.
LEMMA StayStep ==
  ASSUME IInv, Shift, Stay
  PROVE  IInv'
<1>1. TypeOK'
  BY ShiftType DEF IInv, TypeOK, Stay, Both, Bit, Delay, NoEdge, Out
<1>2. (WaitInv /\ CountInv /\ IdleInv /\ ArmedInv)'
  BY DEF IInv, Stay, WaitInv, CountInv, IdleInv, ArmedInv
<1>3. PulsesOnTime'
  BY <1>1 DEF IInv, Stay, PulsesOnTime, TypeOK, Both, Delay, NoEdge
<1> QED
  BY <1>1, <1>2, <1>3 DEF IInv

\* The TbT edge: zero delays fire, the others become pending at age 0.
LEMMA TakeTbtStep ==
  ASSUME IInv, Shift, TakeTbt
  PROVE  IInv'
<1>0. /\ state = "WAIT_TBT" /\ armed = 1
      /\ count \in [Out -> Delay] /\ set \in [Out -> Delay]
      /\ \A o \in Out : count[o] = set[o]
      /\ \A o \in Out : set'[o] = set[o] /\ count'[o] = count[o]
      /\ age' = 0
  BY DEF IInv, TakeTbt, TypeOK, WaitInv, ArmedInv
<1>1. \A o \in Out : /\ pulse'[o] = IF set[o] = 0 THEN 1 ELSE 0
                     /\ pending'[o] = IF set[o] = 0 THEN 0 ELSE 1
  BY <1>0 DEF TakeTbt
<1>2. TypeOK'
  BY <1>0, <1>1, ShiftType, DelayAssumption
     DEF IInv, TypeOK, TakeTbt, Bit, Delay, NoEdge
<1>3. CASE count = Both(0)
  <2>1. /\ state' = "IDLE" /\ armed' = 0
        /\ \A o \in Out : set[o] = 0
    BY <1>0, <1>3 DEF TakeTbt, Both
  <2>2. (WaitInv /\ CountInv /\ IdleInv /\ ArmedInv)'
    BY <1>0, <2>1 DEF WaitInv, CountInv, IdleInv, ArmedInv
  <2>3. PulsesOnTime'
    BY <1>0, <1>1 DEF PulsesOnTime
  <2> QED
    BY <1>2, <2>2, <2>3 DEF IInv
<1>4. CASE count # Both(0)
  <2>1. /\ state' = "DELAY_TRIGGERS" /\ armed' = 1
        /\ \E o \in Out : set[o] # 0
    BY <1>0, <1>4 DEF TakeTbt, Both
  <2>2. CountInv'
    BY <1>0, <1>1, <2>1 DEF CountInv, NoEdge, Delay
  <2>3. (WaitInv /\ IdleInv /\ ArmedInv)'
    BY <2>1 DEF WaitInv, IdleInv, ArmedInv
  <2>4. PulsesOnTime'
    BY <1>0, <1>1 DEF PulsesOnTime, Delay
  <2> QED
    BY <1>2, <2>2, <2>3, <2>4 DEF IInv
<1> QED
  BY <1>3, <1>4

\* One clock of the countdowns.
LEMMA CountStep ==
  ASSUME IInv, Shift, CountClock
  PROVE  IInv'
<1>0. /\ state = "DELAY_TRIGGERS" /\ armed = 1
      /\ count \in [Out -> Delay] /\ set \in [Out -> Delay]
      /\ pending \in [Out -> Bit]
      /\ age \in Delay
      /\ set' = set /\ age' = age + 1
  BY DEF IInv, TypeOK, CountClock, Countdown, CountInv, ArmedInv, Bit
<1>1. \A o \in Out :
        pending[o] = 1 => count[o] = set[o] - age /\ count[o] >= 1
  BY <1>0 DEF IInv, TypeOK, CountInv, Delay
<1>2. \A o \in Out : pending[o] = 0 => set[o] <= age
  BY <1>0 DEF IInv, CountInv
<1>3. \A o \in Out :
        /\ pulse'[o] = IF Due(o) THEN 1 ELSE 0
        /\ pending'[o] = IF Due(o) THEN 0 ELSE pending[o]
        /\ count'[o] = IF pending[o] = 1 THEN count[o] - 1 ELSE count[o]
  BY <1>0, <1>1 DEF CountClock, Countdown, Dec, Delay
<1>4. PICK q \in Out : pending[q] = 1 /\ set[q] >= age + 1
  BY <1>0, <1>1 DEF IInv, CountInv, Delay
<1>5. TypeOK'
  <2>1. age' \in Delay \union {NoEdge}
    BY <1>0, <1>4, DelayAssumption DEF Delay
  <2>2. /\ pulse' \in [Out -> Bit] /\ pending' \in [Out -> Bit]
        /\ armed' \in Bit
        /\ state' \in {"IDLE", "WAIT_TBT", "DELAY_TRIGGERS"}
    BY <1>0 DEF CountClock, Countdown, Bit
  <2>3. count' \in [Out -> Delay]
    BY <1>0, <1>1, <1>3, DelayAssumption DEF CountClock, Countdown, Delay
  <2>4. \A o \in Out : pending'[o] = 1 => count'[o] # 0
    BY <1>0, <1>1, <1>3 DEF Due, Delay, Bit
  <2> QED
    BY <1>0, <2>1, <2>2, <2>3, <2>4, ShiftType DEF TypeOK, IInv
<1>6. PulsesOnTime'
  BY <1>0, <1>1, <1>2, <1>3 DEF PulsesOnTime, Due, Delay, Bit
<1>7. CASE Finished
  <2>1. state' = "IDLE" /\ armed' = 0
    BY <1>7 DEF CountClock
  <2>2. \A o \in Out : set[o] <= age + 1
    BY <1>0, <1>1, <1>2, <1>7 DEF Finished, Delay, Bit
  <2> QED
    BY <1>0, <1>5, <1>6, <2>1, <2>2
       DEF IInv, WaitInv, CountInv, IdleInv, ArmedInv
<1>8. CASE ~Finished
  <2>1. state' = "DELAY_TRIGGERS" /\ armed' = 1
    BY <1>0, <1>8 DEF CountClock
  <2>2. age' # NoEdge
    BY <1>0 DEF NoEdge, Delay
  <2>3. PICK o \in Out : pending[o] # 0 /\ count[o] # 1
    BY <1>8 DEF Finished
  <2>4. pending'[o] = 1
    BY <1>0, <1>3, <2>3 DEF Due, Bit
  <2>5. \A p \in Out : pending'[p] = 1 => count'[p] = set'[p] - age'
    BY <1>0, <1>1, <1>3 DEF Due, Delay, Bit
  <2>6. \A p \in Out : pending'[p] = 0 => set'[p] <= age'
    BY <1>0, <1>1, <1>2, <1>3 DEF Due, Delay, Bit
  <2> QED
    BY <1>5, <1>6, <2>1, <2>2, <2>4, <2>5, <2>6
       DEF IInv, WaitInv, CountInv, IdleInv, ArmedInv
<1> QED
  BY <1>7, <1>8

\* adc_rst restores the declared values.
LEMMA ResetStep ==
  ASSUME Reset
  PROVE  IInv'
  BY DelayAssumption DEF Reset, IInv, TypeOK, WaitInv, CountInv, IdleInv, ArmedInv,
     PulsesOnTime, Both, Bit, Delay, NoEdge, Out

\* armed in terms of the history follows from the invariant.
LEMMA InvImpliesArmed == IInv => ArmedUntilBothFired
<1> SUFFICES ASSUME IInv, age # NoEdge
             PROVE  armed = 1 <=> \E o \in Out : age < set[o]
  BY DEF ArmedUntilBothFired
<1>0. age \in Delay /\ set \in [Out -> Delay]
  BY DEF IInv, TypeOK
<1>1. CASE state = "IDLE"
  BY <1>0, <1>1 DEF IInv, IdleInv, ArmedInv, Delay
<1>2. CASE state = "DELAY_TRIGGERS"
  <2>1. PICK o \in Out : pending[o] = 1
    BY <1>2 DEF IInv, CountInv
  <2>2. count[o] = set[o] - age /\ count[o] # 0 /\ count[o] \in Delay
    BY <1>2, <2>1 DEF IInv, CountInv, TypeOK
  <2> QED
    BY <1>0, <1>2, <2>2 DEF IInv, ArmedInv, Delay
<1>3. state # "WAIT_TBT"
  BY DEF IInv, WaitInv
<1> QED
  BY <1>1, <1>2, <1>3 DEF IInv, TypeOK

\* IInv is inductive.
LEMMA Inductive == Spec => []IInv
<1>1. IInv /\ [Next]_vars => IInv'
  <2> SUFFICES ASSUME IInv, [Next]_vars
               PROVE  IInv'
    OBVIOUS
  <2>1. CASE Clock
    BY <2>1, ArmStep, StayStep, TakeTbtStep, CountStep DEF Clock
  <2>2. CASE Reset
    BY <2>2, ResetStep
  <2>3. CASE UNCHANGED vars
    BY <2>3 DEF vars, IInv, TypeOK, WaitInv, CountInv, IdleInv, ArmedInv,
       PulsesOnTime
  <2> QED
    BY <2>1, <2>2, <2>3 DEF Next
<1> QED
  BY InitInv, <1>1, PTL DEF Spec
-----------------------------------------------------------------------------
\* Types, and no countdown that wraps around.
THEOREM TypeCorrect == Spec => []TypeOK
<1>1. IInv => TypeOK
  BY DEF IInv
<1> QED
  BY Inductive, <1>1, PTL

\* Every pulse is on its clock and there is no other.
THEOREM OnTime == Spec => []PulsesOnTime
<1>1. IInv => PulsesOnTime
  BY DEF IInv
<1> QED
  BY Inductive, <1>1, PTL

\* armed covers exactly the time up to the later pulse.
THEOREM ArmedExact == Spec => []ArmedUntilBothFired
  BY Inductive, InvImpliesArmed, PTL

-----------------------------------------------------------------------------
(***************************************************************************)
(* The way of the TbT event.                                               *)
(***************************************************************************)
-----------------------------------------------------------------------------
\* Seen from trigger_sync the receiver is one of the inputs it allows, so what
\* holds of it holds in the path.
THEOREM PathImplementsSync == PathSpec => Spec
<1>1. PathInit => Init
  BY DEF PathInit
<1>2. [PathNext]_pathVars => [Next]_vars
  BY DEF PathNext, EvrEdge, AdcEdge, AdcReset, PlReset, Next, pathVars, vars
<1> QED
  BY <1>1, <1>2, PTL DEF PathSpec, Spec

-----------------------------------------------------------------------------
\* The receiver by itself.
RecvInv ==
  /\ prev \in Bit \X Bit \X Bit \X Bit
  /\ tbt_trig_i \in Bit /\ tbt_trig \in Bit
  /\ trigactive = tbt_trig
  /\ cnt \in 0 .. 3 /\ (tbt_trig = 0 => cnt = 0)
  /\ edges \in 0 .. MaxEdges

\* Where the edge of a pulse is: on its way through the synchroniser, in step
\* with the clock edges since the pulse rose.
OwedInv ==
  /\ owed \in {"none", "one", "unknown"}
  /\ owed = "one" =>
       /\ tbt_trig = 1
       /\ \/ cnt = 0 /\ edges = 0 /\ tbt[1] = 0 /\ tbt[2] = 0
          \/ cnt = 0 /\ edges = 1 /\ tbt[1] = 1 /\ tbt[2] = 0 /\ tbt[3] = 0
          \/ cnt = 0 /\ edges = 2 /\ tbt[1] = 1 /\ tbt[2] = 1 /\ tbt[3] = 0
          \/ cnt = 1 /\ edges = 0 /\ tbt[1] = 1 /\ tbt[2] = 1 /\ tbt[3] = 0
  /\ owed = "none" => /\ ~(tbt_trig = 1 /\ tbt[1] = 0)
                      /\ ~(tbt[1] = 1 /\ tbt[2] = 0)
                      /\ ~Rising(tbt)
  /\ owed = "unknown" /\ tbt_trig = 1 /\ tbt[1] = 0 => tbt[2] = 0

\* While the pulse is low the synchroniser fills with zeros.
LowInv ==
  tbt_trig = 0 => /\ edges >= 1 => tbt[1] = 0
                  /\ edges >= 2 => tbt[2] = 0

EdgeInv == TypeOK /\ RecvInv /\ OwedInv /\ LowInv

LEMMA EdgeInit == PathInit => EdgeInv
<1> SUFFICES ASSUME PathInit PROVE EdgeInv
  OBVIOUS
<1>1. TypeOK
  BY InitInv DEF PathInit, IInv
<1> QED
  BY <1>1, RatioAssumption
     DEF PathInit, Init, RecvInit, EdgeInv, RecvInv, OwedInv, LowInv, Rising, Bit

\* An edge of the receiver's clock: a pulse begins only when the one before
\* it has been seen and the synchroniser is low.
LEMMA EvrStep ==
  ASSUME EdgeInv, EvrEdge
  PROVE  EdgeInv'
<1> USE RatioAssumption
<1>0. PICK d \in Bit : RecvClock(d)
  BY DEF EvrEdge
<1>1. TypeOK' /\ UNCHANGED tbt
  BY DEF EvrEdge, vars, EdgeInv, TypeOK
<1>2. RecvInv'
  BY <1>0 DEF EdgeInv, RecvInv, EvrEdge, RecvClock, PulseEnds, PulseGoesOn, Bit
<1>3. edges >= 2 /\ edges' = 0
  BY DEF EvrEdge, EdgeInv, RecvInv
<1>4. CASE PulseEnds
  BY <1>0, <1>1, <1>2, <1>3, <1>4
     DEF EdgeInv, RecvInv, OwedInv, LowInv, EvrEdge, PulseEnds, Rising, Bit
<1>5. CASE PulseGoesOn
  BY <1>0, <1>1, <1>2, <1>3, <1>5
     DEF EdgeInv, RecvInv, OwedInv, LowInv, EvrEdge, PulseGoesOn, Rising, Bit, TypeOK
<1> QED
  BY <1>0, <1>4, <1>5 DEF RecvClock

\* An edge of the ADC clock moves the edge of the pulse one stage on.
LEMMA AdcStep ==
  ASSUME EdgeInv, AdcEdge, TypeOK'
  PROVE  EdgeInv'
<1> USE RatioAssumption
<1>1. tbt' = <<tbt_trig, tbt[1], tbt[2]>>
  BY DEF AdcEdge, Clock, Shift
<1>2. RecvInv'
  BY DEF EdgeInv, RecvInv, AdcEdge, recvVars
<1>3. /\ tbt'[1] = tbt_trig /\ tbt'[2] = tbt[1] /\ tbt'[3] = tbt[2]
      /\ tbt[1] \in Bit /\ tbt[2] \in Bit /\ tbt[3] \in Bit
      /\ tbt_trig \in Bit /\ cnt \in 0 .. 3 /\ edges \in Nat
  BY <1>1 DEF EdgeInv, TypeOK, RecvInv
<1>4. edges' = edges + 1 /\ UNCHANGED <<tbt_trig, cnt>>
  BY DEF AdcEdge, recvVars
<1>5. LowInv'
  BY <1>3, <1>4 DEF EdgeInv, LowInv
<1>6. OwedInv'
  <2>1. CASE Rising(tbt)
    <3>1. owed' = IF owed = "none" THEN "extra" ELSE "none"
      BY <2>1 DEF AdcEdge
    <3>2. owed # "none" /\ owed' = "none"
      BY <2>1, <3>1 DEF EdgeInv, OwedInv
    <3>3. CASE owed = "one"
      BY <1>3, <1>4, <2>1, <3>2, <3>3 DEF EdgeInv, OwedInv, Rising, Bit
    <3>4. CASE owed = "unknown"
      BY <1>3, <1>4, <2>1, <3>2, <3>4 DEF EdgeInv, OwedInv, Rising, Bit
    <3> QED
      BY <3>2, <3>3, <3>4 DEF EdgeInv, OwedInv
  <2>2. CASE ~Rising(tbt)
    <3>1. owed' = owed
      BY <2>2 DEF AdcEdge
    <3> QED
      BY <1>3, <1>4, <2>2, <3>1 DEF EdgeInv, OwedInv, Rising, Bit
  <2> QED
    BY <2>1, <2>2
<1> QED
  BY <1>2, <1>5, <1>6 DEF EdgeInv

LEMMA EdgeInvariant == PathSpec => []EdgeInv
<1>1. EdgeInv /\ TypeOK' /\ [PathNext]_pathVars => EdgeInv'
  <2> SUFFICES ASSUME EdgeInv, TypeOK', [PathNext]_pathVars
               PROVE  EdgeInv'
    OBVIOUS
  <2>1. CASE EvrEdge
    BY <2>1, EvrStep
  <2>2. CASE AdcEdge
    BY <2>2, AdcStep
  <2>3. CASE AdcReset
    BY <2>3 DEF AdcReset, Reset, recvVars, EdgeInv, RecvInv, OwedInv, LowInv, Rising, Bit
  <2>4. CASE PlReset
    BY <2>4 DEF PlReset, Reset, RecvReset, EdgeInv, RecvInv, OwedInv, LowInv, Rising, Bit
  <2>5. CASE UNCHANGED pathVars
    BY <2>5 DEF pathVars, vars, recvVars, EdgeInv, RecvInv, OwedInv, LowInv
  <2> QED
    BY <2>1, <2>2, <2>3, <2>4, <2>5 DEF PathNext
<1>2. PathSpec => []TypeOK
  BY PathImplementsSync, TypeCorrect, PTL
<1> QED
  BY EdgeInit, <1>1, <1>2, PTL DEF PathSpec

\* No pulse of the receiver is missed, seen twice or still unseen when the
\* next one begins, as long as the ADC clock is at least twice as fast.
THEOREM EdgesCounted == PathSpec => []OneEdgePerPulse
<1>1. EdgeInv => OneEdgePerPulse
  BY DEF EdgeInv, OwedInv, OneEdgePerPulse
<1> QED
  BY EdgeInvariant, <1>1, PTL
-----------------------------------------------------------------------------
(***************************************************************************)
(* The delay from the mark to the trigger.                                 *)
(***************************************************************************)
\* How old the mark is at each stage of the receiver and of the synchroniser.
\* A mark leaves a 1 in prev_datastream, so that no other mark comes in
\* between.
LagInv ==
  /\ lag \in 0 .. LagBound
  /\ Mark(prev) => lag = edges
  /\ tbt_trig_i = 1 => /\ prev[2] = 1
                       /\ lag >= MinEdges + edges /\ lag <= MaxEdges + edges
  /\ owed = "one" =>
       /\ cnt = 0 => prev[3] = 1
       /\ lag >= 2 * MinEdges + edges + 2 * cnt
       /\ lag <= 2 * MaxEdges + edges + 2 * cnt

\* What is left of a pulse after rfadc_reset is gone before trigger_sync can
\* be armed again.
RestInv ==
  owed = "unknown" =>
    \/ state = "IDLE" /\ tbt = <<0, 0, 0>> /\ soft = <<0, 0, 0>>
    \/ state = "IDLE" /\ tbt = <<1, 0, 0>> /\ soft[2] = 0 /\ soft[3] = 0
    \/ state = "IDLE" /\ Rising(tbt)
    \/ tbt_trig = 0 /\ tbt[1] = 0 /\ tbt[2] = 0

LEMMA LagEvrStep ==
  ASSUME EdgeInv, LagInv, EvrEdge
  PROVE  LagInv'
<1> USE RatioAssumption
<1>0. PICK d \in Bit : RecvClock(d)
  BY DEF EvrEdge
<1>1. /\ prev \in Bit \X Bit \X Bit \X Bit
      /\ prev'[2] = prev[1] /\ prev'[3] = prev[2] /\ prev'[4] = prev[3]
      /\ prev' \in Bit \X Bit \X Bit \X Bit
  BY <1>0 DEF RecvClock, EdgeInv, RecvInv
<1>2. /\ edges \in MinEdges .. MaxEdges /\ edges' = 0
      /\ lag' = IF Mark(prev') THEN 0 ELSE lag
      /\ lag \in 0 .. LagBound /\ LagBound \in Nat
  BY DEF EvrEdge, EdgeInv, RecvInv, LagInv, LagBound
<1>3. Mark(prev') => prev'[2] = 0 /\ prev'[3] = 0 /\ prev'[4] = 0
  BY DEF Mark
<1>4. tbt_trig_i' = 1 => /\ prev'[2] = 1
                        /\ lag' >= MinEdges /\ lag' <= MaxEdges
  <2> SUFFICES ASSUME tbt_trig_i' = 1
               PROVE  prev'[2] = 1 /\ lag' >= MinEdges /\ lag' <= MaxEdges
    OBVIOUS
  <2>1. Mark(prev)
    BY <1>0 DEF RecvClock
  <2>2. prev'[2] = 1 /\ lag' = lag
    BY <1>1, <1>2, <1>3, <2>1 DEF Mark
  <2> QED
    BY <1>2, <2>1, <2>2 DEF LagInv
<1>5. CASE owed' = "one" /\ owed # "one"
  <2>1. /\ tbt_trig = 0 /\ tbt_trig' = 1
        /\ tbt_trig_i = 1 /\ cnt' = 0
    BY <1>0, <1>5 DEF EvrEdge, RecvClock, PulseEnds, PulseGoesOn, EdgeInv, RecvInv, Bit
  <2>2. prev'[3] = 1 /\ lag' = lag
    BY <1>1, <1>2, <1>3, <2>1 DEF LagInv
  <2> QED
    BY <1>2, <1>3, <1>4, <2>1, <2>2 DEF LagInv
<1>6. CASE owed' = "one" /\ owed = "one"
  <2>1. tbt_trig' = tbt_trig \/ tbt_trig' = 0
    BY <1>6 DEF EvrEdge
  <2>2. cnt = 0 /\ edges = 2 /\ prev[3] = 1
    BY <1>2, <1>6 DEF EdgeInv, OwedInv, LagInv
  <2>3. cnt' = 1
    BY <1>0, <1>6, <2>2 DEF RecvClock, PulseEnds, PulseGoesOn, EdgeInv, RecvInv, OwedInv
  <2>4. lag' = lag
    BY <1>1, <1>2, <1>3, <2>2
  <2> QED
    BY <1>2, <1>3, <1>4, <1>6, <2>2, <2>3, <2>4 DEF LagInv
<1>7. CASE owed' # "one"
  BY <1>2, <1>3, <1>4, <1>7 DEF LagInv
<1> QED
  BY <1>5, <1>6, <1>7

LEMMA LagAdcStep ==
  ASSUME EdgeInv, LagInv, AdcEdge
  PROVE  LagInv'
<1> USE RatioAssumption
<1>1. /\ edges' = edges + 1 /\ edges \in Nat /\ edges < MaxEdges
      /\ lag \in 0 .. LagBound /\ LagBound = 4 * MaxEdges /\ LagBound \in Nat
      /\ lag' = IF lag < LagBound THEN lag + 1 ELSE lag
      /\ UNCHANGED <<prev, tbt_trig_i, cnt>>
      /\ cnt \in 0 .. 3
  BY DEF AdcEdge, recvVars, EdgeInv, RecvInv, LagInv, LagBound
<1>2. owed' = "one" => owed = "one"
  BY DEF AdcEdge
<1>3. owed = "one" => 2 * cnt + edges <= 2
  BY DEF EdgeInv, OwedInv
<1>4. lag' \in 0 .. LagBound
  BY <1>1
<1>5. Mark(prev') => lag' = edges'
  BY <1>1 DEF LagInv
<1>6. tbt_trig_i' = 1 => /\ prev'[2] = 1
                        /\ lag' >= MinEdges + edges' /\ lag' <= MaxEdges + edges'
  BY <1>1 DEF LagInv
<1>7. owed' = "one" => /\ cnt' = 0 => prev'[3] = 1
                      /\ lag' >= 2 * MinEdges + edges' + 2 * cnt'
                      /\ lag' <= 2 * MaxEdges + edges' + 2 * cnt'
  BY <1>1, <1>2, <1>3 DEF LagInv
<1> QED
  BY <1>4, <1>5, <1>6, <1>7 DEF LagInv

LEMMA RestStep ==
  ASSUME EdgeInv, RestInv, [PathNext]_pathVars
  PROVE  RestInv'
<1>1. CASE EvrEdge
  <2>1. /\ owed' = "unknown" => /\ owed = "unknown"
                                /\ tbt_trig' = tbt_trig \/ tbt_trig' = 0
        /\ UNCHANGED <<state, tbt, soft>>
    BY <1>1 DEF EvrEdge, vars
  <2> QED
    BY <2>1 DEF RestInv
<1>2. CASE AdcEdge
  <2>1. owed' = "unknown" => owed = "unknown" /\ ~Rising(tbt)
    BY <1>2 DEF AdcEdge
  <2>2. PICK s \in Bit : /\ tbt' = <<tbt_trig, tbt[1], tbt[2]>>
                         /\ soft' = <<s, soft[1], soft[2]>>
    BY <1>2 DEF AdcEdge, Clock, Shift
  <2>3. state = "IDLE" /\ soft[2] = 0 => state' = "IDLE"
    BY <1>2 DEF AdcEdge, Clock, Arm, Stay, TakeTbt, CountClock, Countdown, Rising
  <2>4. tbt_trig' = tbt_trig /\ tbt_trig \in Bit
    BY <1>2 DEF AdcEdge, recvVars, EdgeInv, RecvInv
  <2> QED
    BY <2>1, <2>2, <2>3, <2>4 DEF RestInv, Rising, Bit
<1>3. CASE AdcReset
  BY <1>3 DEF AdcReset, Reset, RestInv
<1>4. CASE PlReset
  BY <1>4 DEF PlReset, RestInv
<1>5. CASE UNCHANGED pathVars
  BY <1>5 DEF pathVars, vars, recvVars, RestInv
<1> QED
  BY <1>1, <1>2, <1>3, <1>4, <1>5 DEF PathNext

LEMMA LagInvariant == PathSpec => [](EdgeInv /\ LagInv /\ RestInv)
<1>1. PathInit => LagInv /\ RestInv
  BY RatioAssumption
     DEF PathInit, RecvInit, LagInv, RestInv, LagBound
<1>2. EdgeInv /\ LagInv /\ [PathNext]_pathVars => LagInv'
  <2> SUFFICES ASSUME EdgeInv, LagInv, [PathNext]_pathVars
               PROVE  LagInv'
    OBVIOUS
  <2>1. CASE EvrEdge
    BY <2>1, LagEvrStep
  <2>2. CASE AdcEdge
    BY <2>2, LagAdcStep
  <2>3. CASE AdcReset
    BY <2>3 DEF AdcReset, recvVars, LagInv
  <2>4. CASE PlReset
    BY <2>4 DEF PlReset, RecvReset, LagInv
  <2>5. CASE UNCHANGED pathVars
    BY <2>5 DEF pathVars, recvVars, LagInv
  <2> QED
    BY <2>1, <2>2, <2>3, <2>4, <2>5 DEF PathNext
<1> QED
  BY EdgeInvariant, <1>1, <1>2, RestStep, PTL DEF PathSpec

\* The trigger is taken within a window after its mark that only the phase of
\* the two clocks decides, for every ratio of the clocks.
THEOREM LatencyBounded == PathSpec => []TakenInTime
<1>1. EdgeInv /\ LagInv /\ RestInv => TakenInTime
  <2> SUFFICES ASSUME EdgeInv, LagInv, RestInv, state = "WAIT_TBT", Rising(tbt)
               PROVE  lag \in (2 * MinEdges + 2) .. (2 * MaxEdges + 2)
    BY DEF TakenInTime
  <2>1. tbt[2] = 1 /\ tbt[3] = 0
    BY DEF Rising
  <2>2. owed = "one"
    BY <2>1 DEF EdgeInv, OwedInv, RestInv
  <2>3. edges + 2 * cnt = 2 /\ cnt \in Nat /\ edges \in Nat
    BY <2>1, <2>2, RatioAssumption DEF EdgeInv, OwedInv, RecvInv
  <2> QED
    BY <2>2, <2>3, RatioAssumption DEF LagInv, LagBound
<1> QED
  BY LagInvariant, <1>1, PTL
=============================================================================
