-------------------------- MODULE FreqCounterProofs --------------------------
(***************************************************************************)
(* Proofs about the frequency counters, for any window and any frequencies *)
(* that the window leaves time for: the links deliver every pulse once,    *)
(* both handshakes are over when the next request comes, and the count     *)
(* that comes back is that of a whole window.                              *)
(***************************************************************************)
EXTENDS FreqCounter, TLAPS

-----------------------------------------------------------------------------
(***************************************************************************)
(* A link, between any two clocks.                                         *)
(***************************************************************************)
\* The request goes up and down like a wave through the registers, and the
\* next half of the handshake begins when the wave has come back.
Rising(l) ==
  /\ (l.r_req => l.req_p) /\ (l.ack_p => l.r_req) /\ (l.s_ack => l.ack_p)
  /\ l.due <=> ~(l.r_req /\ l.r_req_d)

Falling(l) ==
  /\ (l.req_p => l.r_req) /\ (l.r_req => l.ack_p) /\ (l.ack_p => l.s_ack)
  /\ l.due <=> (l.r_req /\ ~l.r_req_d)
  /\ l.due => l.req_p

Wave(l) == ~l.crowded => IF l.s_req THEN Rising(l) ELSE Falling(l)

LinkInv == req \in Link /\ Wave(req)

LEMMA RestIsFine == Rest \in Link /\ Wave(Rest)
BY DEF Rest, Link, Wave, Falling

\* An edge of src_clk, with or without a pulse and a reset.
LEMMA SrcEdgeKeeps ==
  ASSUME NEW l \in Link, Wave(l), NEW p \in BOOLEAN, NEW r \in BOOLEAN
  PROVE  SrcEdge(l, p, r) \in Link /\ Wave(SrcEdge(l, p, r))
<1> DEFINE n == SrcEdge(l, p, r)
<1>a. /\ l.s_req \in BOOLEAN /\ l.req_p \in BOOLEAN /\ l.r_req \in BOOLEAN
      /\ l.r_req_d \in BOOLEAN /\ l.ack_p \in BOOLEAN /\ l.s_ack \in BOOLEAN
      /\ l.due \in BOOLEAN /\ l.crowded \in BOOLEAN
  BY DEF Link
<1>b. src_busy(l) \in BOOLEAN /\ AtRest(l) \in BOOLEAN
  BY DEF src_busy, AtRest
<1>1. n \in Link
  BY <1>a, <1>b DEF SrcEdge, Link
<1>2. ASSUME ~n.crowded PROVE ~l.crowded \/ AtRest(l)
  BY <1>2 DEF SrcEdge, Link
<1>3. ASSUME ~n.crowded, AtRest(l) PROVE IF n.s_req THEN Rising(n) ELSE Falling(n)
  BY <1>3 DEF SrcEdge, Link, src_busy, AtRest, Rising, Falling, Wave
<1>4. ASSUME ~n.crowded, ~AtRest(l), ~l.crowded
      PROVE  IF n.s_req THEN Rising(n) ELSE Falling(n)
  BY <1>4 DEF SrcEdge, Link, src_busy, AtRest, Rising, Falling, Wave
<1> QED BY <1>1, <1>2, <1>3, <1>4 DEF Wave

\* An edge of rcv_clk.
LEMMA RcvEdgeKeeps ==
  ASSUME NEW l \in Link, Wave(l)
  PROVE  RcvEdge(l) \in Link /\ Wave(RcvEdge(l))
<1>1. RcvEdge(l) \in Link
  BY DEF RcvEdge, Link, rcv_pulse
<1>2. Wave(RcvEdge(l))
  BY DEF RcvEdge, Link, rcv_pulse, Wave, Rising, Falling
<1> QED BY <1>1, <1>2

\* OncePerPulse: while nobody sends into a handshake the receiver sees every
\* pulse exactly once (sync_pulse_ack_cc.vhd:46-87).
THEOREM EveryPulseOnce == LinkSpec => []OncePerPulse
<1>1. LinkInit => LinkInv
  BY RestIsFine DEF LinkInit, LinkInv
<1>2. LinkInv /\ [LinkNext]_req => LinkInv'
  <2> SUFFICES ASSUME LinkInv, [LinkNext]_req PROVE LinkInv'
    OBVIOUS
  <2>1. CASE \E pulse, reset \in BOOLEAN : req' = SrcEdge(req, pulse, reset)
    BY <2>1, SrcEdgeKeeps DEF LinkInv
  <2>2. CASE req' = RcvEdge(req)
    BY <2>2, RcvEdgeKeeps DEF LinkInv
  <2>3. CASE UNCHANGED req
    BY <2>3 DEF LinkInv
  <2> QED BY <2>1, <2>2, <2>3 DEF LinkNext
<1>3. LinkInv => OncePerPulse
  BY DEF LinkInv, OncePerPulse, Once, Link, Wave, Rising, Falling, rcv_pulse, src_busy
<1> QED BY <1>1, <1>2, <1>3, PTL DEF LinkSpec

-----------------------------------------------------------------------------
(***************************************************************************)
(* The two links of a counter, and the counts they carry.                  *)
(***************************************************************************)
LinksInv == req \in Link /\ Wave(req) /\ lat \in Link /\ Wave(lat)

\* The time since the last request, of which a period of ref_clk is rate and one
\* of meas_clk is 4, and the same time as the edges of meas_clk tell it.
Elapsed == rate * (IF count = 0 THEN Window ELSE count)
Measured == Elapsed - phase

\* What runs: outside the first window the prescaler is at 0 with its pulse only.
RunInv ==
  /\ count \in 0 .. Window - 1 /\ tc \in BOOLEAN /\ (tc => count = 0)
  /\ rate \in Rates \union {0} /\ phase \in Int /\ calm \in 0 .. 4
  /\ phase >= -4 /\ phase <= rate + 3 /\ (rate = 0 => phase = 0)
  /\ calm >= 1 => rate # 0 /\ (count = 0 => tc)

\* How late in the window a link may be in which part of its handshake, if it was
\* sent a pulse at the beginning, in whatever state it was then: the link to
\* meas_clk, from e, the time elapsed, and v, the time measured.
ReqOnTime(l, e, v, r) ==
  /\ l.s_req => e <= 3 * r + 11
  /\ l.s_req /\ ~l.req_p => v <= 4
  /\ l.s_req /\ ~(l.req_p /\ l.r_req) => v <= 8
  /\ l.s_req /\ ~(l.req_p /\ l.r_req /\ l.ack_p) => e <= r + 11
  /\ l.s_req /\ ~(l.req_p /\ l.r_req /\ l.ack_p /\ l.s_ack) => e <= 2 * r + 11
  /\ l.req_p => v <= 3 * r + 15
  /\ l.r_req => v <= 3 * r + 19
  /\ l.r_req_d => v <= 3 * r + 23
  /\ l.ack_p => e <= 4 * r + 22
  /\ l.s_ack => e <= 5 * r + 22

\* The link back, whose pulse is at the third edge of meas_clk.
LatOnTime(l, e, v, r) ==
  /\ l.s_req => v <= 2 * r + 27
  /\ l.s_req /\ ~l.req_p => e <= r + 15
  /\ l.s_req /\ ~(l.req_p /\ l.r_req) => e <= 2 * r + 15
  /\ l.s_req /\ ~(l.req_p /\ l.r_req /\ l.ack_p) => v <= 2 * r + 19
  /\ l.s_req /\ ~(l.req_p /\ l.r_req /\ l.ack_p /\ l.s_ack) => v <= 2 * r + 23
  /\ l.req_p => e <= 3 * r + 30
  /\ l.r_req => e <= 4 * r + 30
  /\ l.r_req_d => e <= 5 * r + 30
  /\ l.ack_p => v <= 4 * r + 34
  /\ l.s_ack => v <= 4 * r + 38

\* The edges of meas_clk follow the time, and take the request with them.
EdgeInv ==
  calm >= 2 => Measured - 4 * edges \in -3 .. 4

ShapeInv ==
  calm >= 2 =>
    /\ edges = 0 => req.s_req /\ ~req.req_p
    /\ edges = 1 => req.s_req /\ req.req_p
    /\ edges <= 1 => ~(req.r_req \/ req.r_req_d \/ req.ack_p \/ req.s_ack)
    /\ edges = 2 => req.req_p /\ req.r_req /\ ~req.r_req_d
    /\ edges >= 3 => /\ req.s_req => req.req_p
                     /\ req.req_p => req.r_req
                     /\ req.r_req => req.r_req_d

TimeInv ==
  /\ calm >= 1 => ReqOnTime(req, Elapsed, Measured, rate)
  /\ calm >= 2 /\ edges >= 3 => LatOnTime(lat, Elapsed, Measured, rate)
  /\ calm >= 3 /\ edges < 3 => AtRest(lat)

CrowdInv ==
  /\ calm >= 2 => ~req.crowded
  /\ calm = 4 \/ (calm = 3 /\ edges >= 3) => ~lat.crowded

\* The counter starts again at the third edge of every window.
CountInv ==
  /\ calm >= 3 => truth[1] >= 3 /\ truth[1] < CountWord
  /\ calm >= 2 /\ edges >= 3 => counter = edges - 3
  /\ calm >= 3 /\ edges < 3 => counter = truth[1] + edges - 3
  /\ calm >= 3 /\ edges >= 3 => latch_count = truth[1]

\* The register has the last window's edges when they have come back, and those
\* of the one before until then.
RegInv ==
  /\ calm >= 3 /\ edges >= 3 /\ ~lat.due => freq_reg = truth[1]
  /\ calm = 4 /\ (edges < 3 \/ lat.due) => freq_reg = truth[2]

CountType ==
  /\ edges \in Nat /\ truth \in Nat \X Nat
  /\ counter \in Nat /\ latch_count \in Nat /\ freq_reg \in Nat

CounterInv ==
  CountType /\ LinksInv /\ RunInv /\ EdgeInv /\ ShapeInv /\ TimeInv /\ CrowdInv /\ CountInv /\ RegInv

-----------------------------------------------------------------------------
(***************************************************************************)
(* The edges of a link, register by register.                              *)
(***************************************************************************)
LEMMA SrcFields ==
  ASSUME NEW l \in Link, NEW p \in BOOLEAN, NEW r \in BOOLEAN, NEW n, n = SrcEdge(l, p, r)
  PROVE  /\ n.s_req <=> (~r /\ (p \/ (l.s_req /\ ~l.s_ack)))
         /\ (n.req_p <=> l.req_p) /\ (n.r_req <=> l.r_req) /\ (n.r_req_d <=> l.r_req_d)
         /\ (n.ack_p <=> l.r_req) /\ (n.s_ack <=> l.ack_p)
         /\ n.due <=> \/ l.due /\ ~(l.crowded /\ AtRest(l))
                      \/ p /\ ~r /\ ~src_busy(l)
         /\ n.crowded <=> \/ ~AtRest(l) /\ (l.crowded \/ r)
                          \/ p /\ src_busy(l)
BY DEF SrcEdge

LEMMA RcvFields ==
  ASSUME NEW l \in Link, NEW n, n = RcvEdge(l)
  PROVE  /\ (n.s_req <=> l.s_req) /\ (n.req_p <=> l.s_req) /\ (n.r_req <=> l.req_p)
         /\ (n.r_req_d <=> l.r_req) /\ (n.ack_p <=> l.ack_p) /\ (n.s_ack <=> l.s_ack)
         /\ (n.due <=> (l.due /\ ~rcv_pulse(l))) /\ (n.crowded <=> l.crowded)
BY DEF RcvEdge

-----------------------------------------------------------------------------
(***************************************************************************)
(* The time of a handshake.                                                *)
(***************************************************************************)
\* An edge of ref_clk brings the request on and the time, one of meas_clk what
\* was measured of it.
LEMMA ReqRefEdge ==
  ASSUME NEW l \in Link, NEW e \in Int, NEW v \in Int, NEW r \in Nat,
         ReqOnTime(l, e, v, r), e - v < 4
  PROVE  ReqOnTime(SrcEdge(l, FALSE, FALSE), e + r, v, r)
<1> DEFINE n == SrcEdge(l, FALSE, FALSE)
<1>1. /\ n.s_req <=> (l.s_req /\ ~l.s_ack)
      /\ (n.req_p <=> l.req_p) /\ (n.r_req <=> l.r_req) /\ (n.r_req_d <=> l.r_req_d)
      /\ (n.ack_p <=> l.r_req) /\ (n.s_ack <=> l.ack_p)
  BY SrcFields
<1> HIDE DEF n
<1>2. ReqOnTime(n, e + r, v, r)
  BY <1>1 DEF ReqOnTime
<1> QED BY <1>2 DEF n

LEMMA ReqMeasEdge ==
  ASSUME NEW l \in Link, NEW e \in Int, NEW v \in Int, NEW r \in Nat,
         ReqOnTime(l, e, v, r), e - v >= 0
  PROVE  ReqOnTime(RcvEdge(l), e, v + 4, r)
<1> DEFINE n == RcvEdge(l)
<1>1. /\ (n.s_req <=> l.s_req) /\ (n.req_p <=> l.s_req) /\ (n.r_req <=> l.req_p)
      /\ (n.r_req_d <=> l.r_req) /\ (n.ack_p <=> l.ack_p) /\ (n.s_ack <=> l.s_ack)
  BY RcvFields
<1> HIDE DEF n
<1>2. ReqOnTime(n, e, v + 4, r)
  BY <1>1 DEF ReqOnTime
<1> QED BY <1>2 DEF n

LEMMA LatRefEdge ==
  ASSUME NEW l \in Link, NEW e \in Int, NEW v \in Int, NEW r \in Nat,
         LatOnTime(l, e, v, r), e - v < 4
  PROVE  LatOnTime(RcvEdge(l), e + r, v, r)
<1> DEFINE n == RcvEdge(l)
<1>1. /\ (n.s_req <=> l.s_req) /\ (n.req_p <=> l.s_req) /\ (n.r_req <=> l.req_p)
      /\ (n.r_req_d <=> l.r_req) /\ (n.ack_p <=> l.ack_p) /\ (n.s_ack <=> l.s_ack)
  BY RcvFields
<1> HIDE DEF n
<1>2. LatOnTime(n, e + r, v, r)
  BY <1>1 DEF LatOnTime
<1> QED BY <1>2 DEF n

LEMMA LatMeasEdge ==
  ASSUME NEW l \in Link, NEW e \in Int, NEW v \in Int, NEW r \in Nat,
         LatOnTime(l, e, v, r), e - v >= 0
  PROVE  LatOnTime(SrcEdge(l, FALSE, FALSE), e, v + 4, r)
<1> DEFINE n == SrcEdge(l, FALSE, FALSE)
<1>1. /\ n.s_req <=> (l.s_req /\ ~l.s_ack)
      /\ (n.req_p <=> l.req_p) /\ (n.r_req <=> l.r_req) /\ (n.r_req_d <=> l.r_req_d)
      /\ (n.ack_p <=> l.r_req) /\ (n.s_ack <=> l.ack_p)
  BY SrcFields
<1> HIDE DEF n
<1>2. LatOnTime(n, e, v + 4, r)
  BY <1>1 DEF LatOnTime
<1> QED BY <1>2 DEF n

\* At its pulse a link is in time, whatever is under way.
LEMMA ReqBegins ==
  ASSUME NEW l, NEW e \in Int, NEW v \in Int, NEW r \in Nat, e <= r, v <= 4
  PROVE  ReqOnTime(l, e, v, r)
BY DEF ReqOnTime

LEMMA LatBegins ==
  ASSUME NEW l, NEW e \in Int, NEW v \in Int, NEW r \in Nat, e <= r + 15, v <= 16
  PROVE  LatOnTime(l, e, v, r)
BY DEF LatOnTime

\* At the end of the window both handshakes are over.
LEMMA ReqEnds ==
  ASSUME NEW l \in Link, NEW e \in Int, NEW v \in Int, NEW r \in Nat,
         ReqOnTime(l, e, v, r), e > 4 * r + 41, e > 5 * r + 30, e - v < 4
  PROVE  AtRest(l)
BY DEF ReqOnTime, AtRest, src_busy

LEMMA LatEnds ==
  ASSUME NEW l \in Link, NEW e \in Int, NEW v \in Int, NEW r \in Nat,
         LatOnTime(l, e, v, r), e > 4 * r + 41, e > 5 * r + 30, e - v < 4
  PROVE  AtRest(l)
BY DEF LatOnTime, AtRest, src_busy

-----------------------------------------------------------------------------
(***************************************************************************)
(* The steps.                                                              *)
(***************************************************************************)
LEMMA CounterStart == Init => CounterInv
<1> SUFFICES ASSUME Init PROVE CounterInv
  OBVIOUS
<1>1. /\ req = Rest /\ lat = Rest /\ count = 0 /\ tc = FALSE /\ calm = 0 /\ edges = 0
      /\ counter = 0 /\ latch_count = 0 /\ freq_reg = 0 /\ truth = <<0, 0>>
      /\ rate \in Rates \union {0} /\ phase = 0
  BY DEF Init
<1>2. CountType
  BY <1>1 DEF CountType
<1>3. LinksInv
  BY <1>1, RestIsFine DEF LinksInv
<1>4. RunInv
  <2>1. tc \in BOOLEAN /\ (tc => count = 0)
    BY <1>1
  <2>2. count \in 0 .. Window - 1 /\ phase >= -4 /\ phase <= rate + 3 /\ calm \in 0 .. 4
    BY <1>1, CounterAssumption
  <2> QED BY <1>1, <2>1, <2>2 DEF RunInv
<1>5. EdgeInv /\ ShapeInv /\ TimeInv /\ CrowdInv /\ CountInv /\ RegInv
  BY <1>1 DEF EdgeInv, ShapeInv, TimeInv, CrowdInv, CountInv, RegInv
<1> QED BY <1>2, <1>3, <1>4, <1>5 DEF CounterInv

LEMMA TypeStep == ASSUME CountType, RunInv, [Next]_vars PROVE CountType'
<1> USE CounterAssumption DEF CountType, RunInv
<1>1. ASSUME NEW reset \in BOOLEAN, RefEdge(reset) PROVE CountType'
  BY <1>1 DEF RefEdge, measVars, ObserveRef, Forget
<1>2. CASE MeasEdge
  <2>1. (counter + 1) % CountWord \in Nat
    OBVIOUS
  <2> QED BY <1>2, <2>1 DEF MeasEdge, Count, refVars
<1>3. CASE Stop \/ Start
  BY <1>3 DEF Stop, Start, Forget, refVars, measVars
<1>4. CASE UNCHANGED vars
  BY <1>4 DEF vars, refVars, measVars
<1> QED BY <1>1, <1>2, <1>3, <1>4 DEF Next, RunEdge, ResetEdge

LEMMA LinksStep == ASSUME LinksInv, RunInv, [Next]_vars PROVE LinksInv'
<1>1. tc \in BOOLEAN /\ rcv_pulse(req) \in BOOLEAN
  BY DEF RunInv, rcv_pulse
<1>2. ASSUME NEW reset \in BOOLEAN, RefEdge(reset) PROVE LinksInv'
  BY <1>1, <1>2, SrcEdgeKeeps, RcvEdgeKeeps DEF LinksInv, RefEdge
<1>3. CASE MeasEdge
  BY <1>1, <1>3, SrcEdgeKeeps, RcvEdgeKeeps DEF LinksInv, MeasEdge
<1>4. CASE Stop \/ Start \/ UNCHANGED vars
  BY <1>4 DEF LinksInv, Stop, Start, vars
<1> QED BY <1>2, <1>3, <1>4 DEF Next, RunEdge, ResetEdge

LEMMA RefRuns ==
  ASSUME RunInv, NEW reset \in BOOLEAN, RefEdge(reset) PROVE RunInv'
<1> USE CounterAssumption
<1>1. /\ count' \in 0 .. Window - 1 /\ tc' \in BOOLEAN /\ (tc' => count' = 0)
      /\ count' = 0 => tc' \/ reset
  <2>1. count' \in 0 .. Window - 1
    BY DEF RunInv, RefEdge, Prescale
  <2>2. tc' = (~reset /\ count = Window - 1)
    BY DEF RefEdge, Prescale
  <2>3. tc' => count' = 0
    BY <2>2 DEF RefEdge, Prescale
  <2>4. CASE reset
    BY <2>1, <2>2, <2>3, <2>4
  <2>5. CASE ~reset /\ count = Window - 1
    BY <2>1, <2>2, <2>3, <2>5
  <2>6. CASE ~reset /\ count # Window - 1
    <3>1. count' = count + 1 /\ count \in Nat
      BY <2>6 DEF RunInv, RefEdge, Prescale
    <3> QED BY <2>1, <2>2, <2>3, <3>1
  <2> QED BY <2>4, <2>5, <2>6
<1>2. rate' = rate /\ phase' = phase + rate /\ phase < 4
  BY DEF RefEdge
<1>3. phase' \in Int /\ phase' >= -4 /\ phase' <= rate' + 3 /\ (rate' = 0 => phase' = 0)
  BY <1>2 DEF RunInv
<1>4. calm' \in 0 .. 4 /\ (calm' >= 1 => rate' # 0 /\ ~reset)
  BY <1>2 DEF RunInv, RefEdge, ObserveRef, Forget
<1> QED BY <1>1, <1>2, <1>3, <1>4 DEF RunInv

LEMMA StartRuns == ASSUME RunInv, Start PROVE RunInv'
<1>1. PICK r \in Rates : rate' = r
  BY DEF Start
<1>2. r \in Nat /\ r # 0
  BY CounterAssumption
<1>3. rate = 0 /\ phase' = phase /\ calm' = calm /\ count' = count /\ tc' = tc
  BY DEF Start, refVars
<1>4. phase = 0 /\ calm = 0 /\ count \in 0 .. Window - 1 /\ tc \in BOOLEAN /\ (tc => count = 0)
  BY <1>3, CounterAssumption DEF RunInv
<1>5. phase' = 0 /\ calm' = 0 /\ count' \in 0 .. Window - 1
  BY <1>3, <1>4
<1>6. tc' \in BOOLEAN /\ (tc' => count' = 0)
  BY <1>3, <1>4
<1>7. phase' >= -4 /\ phase' \in Int /\ phase' <= rate' + 3
  BY <1>1, <1>2, <1>5
<1>8. ~(calm' >= 1) /\ calm' \in 0 .. 4
  BY <1>5
<1> QED BY <1>1, <1>2, <1>5, <1>6, <1>7, <1>8 DEF RunInv

LEMMA RunStep == ASSUME RunInv, [Next]_vars PROVE RunInv'
<1> USE CounterAssumption
<1>1. CASE MeasEdge
  BY <1>1 DEF MeasEdge, refVars, RunInv
<1>2. CASE Stop
  <2>1. rate' = 0 /\ phase' = 0 /\ calm' = 0 /\ UNCHANGED <<count, tc>>
    BY <1>2 DEF Stop, Forget, refVars
  <2> QED BY <2>1 DEF RunInv
<1>3. CASE Start
  BY <1>3, StartRuns
<1>4. CASE UNCHANGED vars
  BY <1>4 DEF vars, refVars, RunInv
<1> QED BY <1>1, <1>2, <1>3, <1>4, RefRuns DEF Next, RunEdge, ResetEdge

\* How the time goes on.
LEMMA TimeTypes ==
  ASSUME RunInv PROVE rate \in Nat /\ Elapsed \in Int /\ Measured \in Int /\ Elapsed - Measured = phase
<1>1. rate \in Nat /\ (IF count = 0 THEN Window ELSE count) \in Nat /\ phase \in Int
  BY CounterAssumption DEF RunInv
<1> QED BY <1>1 DEF Elapsed, Measured

LEMMA WindowFits ==
  ASSUME RunInv, calm >= 1
  PROVE  /\ rate \in Rates /\ rate \in Nat \ {0}
         /\ rate * Window > 4 * rate + 41 /\ rate * Window > 5 * rate + 30
         /\ rate * Window + 7 < 4 * CountWord
         /\ Elapsed <= rate * Window
<1>1. rate \in Rates /\ rate \in Nat \ {0}
  BY CounterAssumption DEF RunInv
<1>2. Window * rate = rate * Window
  BY <1>1, CounterAssumption
<1>3. \A n \in Nat : n <= Window => rate * n <= rate * Window
  BY <1>1, CounterAssumption
<1>4. Elapsed <= rate * Window
  BY <1>1, <1>3, CounterAssumption DEF Elapsed, RunInv
<1> QED BY <1>1, <1>2, <1>4, WindowAssumption

LEMMA RefTime ==
  ASSUME RunInv, RefEdge(FALSE), calm' >= 1
  PROVE  /\ rate' = rate /\ rate # 0 /\ phase < 4
         /\ tc => Elapsed' = rate /\ (calm >= 1 => Elapsed = rate * Window)
         /\ ~tc => calm' = calm /\ Elapsed' = Elapsed + rate /\ Measured' = Measured
         /\ Measured' = Elapsed' - phase - rate
<1> USE CounterAssumption
<1>1. rate' = rate /\ rate # 0 /\ phase < 4 /\ phase' = phase + rate
  BY DEF RefEdge, ObserveRef, Forget
<1>2. rate \in Rates /\ rate \in Nat \ {0} /\ phase \in Int /\ count \in 0 .. Window - 1
  BY <1>1 DEF RunInv
<1>3. Window # 1
  <2>1. Window * rate > 5 * rate + 30
    BY <1>2, WindowAssumption
  <2> QED BY <1>2, <2>1
<1>4. count' = IF count = Window - 1 THEN 0 ELSE count + 1
  BY DEF RefEdge, Prescale
<1>5. CASE tc
  <2>1. count = 0 /\ count' = 1
    BY <1>3, <1>4, <1>5 DEF RunInv
  <2>2. Elapsed' = rate /\ Elapsed = rate * Window
    BY <1>1, <1>2, <2>1 DEF Elapsed
  <2> QED BY <1>1, <1>2, <1>5, <2>2 DEF Measured
<1>6. CASE ~tc
  <2>1. calm' = calm
    BY <1>1, <1>6 DEF RefEdge, ObserveRef
  <2>2. count # 0
    BY <1>6, <2>1 DEF RunInv
  <2>3. (IF count' = 0 THEN Window ELSE count') = count + 1
    BY <1>2, <1>4
  <2>4. Elapsed' = rate * (count + 1) /\ Elapsed = rate * count
    BY <1>1, <2>2, <2>3 DEF Elapsed
  <2>5. Elapsed' = Elapsed + rate /\ Elapsed \in Int
    BY <1>2, <2>4
  <2> QED BY <1>1, <1>2, <1>6, <2>1, <2>5 DEF Measured
<1> QED BY <1>5, <1>6

LEMMA MeasTime ==
  ASSUME RunInv, MeasEdge
  PROVE  /\ Elapsed' = Elapsed /\ Measured' = Measured + 4 /\ rate' = rate /\ calm' = calm
         /\ phase >= 0 /\ phase' = phase - 4
<1>1. UNCHANGED <<count, rate, calm>> /\ phase >= 0 /\ phase' = phase - 4
  BY DEF MeasEdge, refVars
<1>2. Elapsed' = Elapsed
  BY <1>1 DEF Elapsed
<1>3. Elapsed \in Int /\ phase \in Int
  BY TimeTypes DEF RunInv
<1> QED BY <1>1, <1>2, <1>3 DEF Measured

-----------------------------------------------------------------------------
(***************************************************************************)
(* What a window keeps, step by step.                                      *)
(***************************************************************************)
WindowInv == EdgeInv /\ ShapeInv /\ TimeInv /\ CrowdInv /\ CountInv /\ RegInv

\* After an upset nothing is said until the next request.
LEMMA Upset == ASSUME calm' = 0 PROVE WindowInv'
BY DEF WindowInv, EdgeInv, ShapeInv, TimeInv, CrowdInv, CountInv, RegInv

\* An edge of ref_clk within a window.
LEMMA QuietRef ==
  ASSUME CountType, LinksInv, RunInv, WindowInv, RefEdge(FALSE), ~tc, calm' >= 1
  PROVE  WindowInv'
<1>1. /\ calm' = calm /\ edges' = edges /\ truth' = truth
      /\ counter' = counter /\ latch_count' = latch_count /\ rate' = rate
  BY RefTime DEF RefEdge, ObserveRef, measVars
<1>2. /\ Elapsed' = Elapsed + rate /\ Measured' = Measured
      /\ rate \in Nat /\ Elapsed \in Int /\ Measured \in Int /\ Elapsed - Measured < 4
  BY RefTime, TimeTypes
<1>3. /\ req \in Link /\ req' = SrcEdge(req, FALSE, FALSE)
      /\ lat \in Link /\ lat' = RcvEdge(lat)
  <2>1. tc = FALSE
    BY DEF RunInv
  <2> QED BY <2>1 DEF LinksInv, RefEdge
<1>4. /\ req'.s_req <=> (req.s_req /\ ~req.s_ack)
      /\ (req'.req_p <=> req.req_p) /\ (req'.r_req <=> req.r_req)
      /\ (req'.r_req_d <=> req.r_req_d)
      /\ (req'.ack_p <=> req.r_req) /\ (req'.s_ack <=> req.ack_p)
      /\ req'.crowded => req.crowded
  BY <1>3, SrcFields
<1>5. /\ (lat'.due <=> (lat.due /\ ~rcv_pulse(lat))) /\ (lat'.crowded <=> lat.crowded)
      /\ AtRest(lat) => AtRest(lat') /\ ~rcv_pulse(lat)
  BY <1>3, RcvFields DEF AtRest, src_busy, rcv_pulse
<1>6. EdgeInv'
  BY <1>1, <1>2 DEF WindowInv, EdgeInv
<1>7. ShapeInv'
  BY <1>1, <1>4 DEF WindowInv, ShapeInv
<1>8. TimeInv'
  <2>1. calm' >= 1 => ReqOnTime(req', Elapsed', Measured', rate')
    BY <1>1, <1>2, <1>3, ReqRefEdge DEF WindowInv, TimeInv
  <2>2. calm' >= 2 /\ edges' >= 3 => LatOnTime(lat', Elapsed', Measured', rate')
    BY <1>1, <1>2, <1>3, LatRefEdge DEF WindowInv, TimeInv
  <2>3. calm' >= 3 /\ edges' < 3 => AtRest(lat')
    BY <1>1, <1>5 DEF WindowInv, TimeInv
  <2> QED BY <2>1, <2>2, <2>3 DEF TimeInv
<1>9. CrowdInv'
  BY <1>1, <1>4, <1>5 DEF WindowInv, CrowdInv
<1>10. CountInv'
  BY <1>1 DEF WindowInv, CountInv
<1>11. RegInv'
  <2>1. freq_reg' = IF rcv_pulse(lat) THEN latch_count ELSE freq_reg
    BY DEF RefEdge
  <2>2. ASSUME calm >= 3, edges >= 3, ~lat'.due PROVE freq_reg' = truth[1]
    BY <1>5, <2>1, <2>2 DEF WindowInv, RegInv, CountInv
  <2>3. ASSUME calm = 4, edges < 3 \/ lat'.due PROVE freq_reg' = truth[2]
    BY <1>5, <2>1, <2>3 DEF WindowInv, RegInv, TimeInv, CountType
  <2> QED BY <1>1, <2>2, <2>3 DEF RegInv
<1> QED BY <1>6, <1>7, <1>8, <1>9, <1>10, <1>11 DEF WindowInv

\* At the end of a window both handshakes are over.
LEMMA WindowEnds ==
  ASSUME CountType, LinksInv, RunInv, WindowInv, RefEdge(FALSE), tc, calm' >= 1
  PROVE  /\ calm >= 1 => AtRest(req)
         /\ calm >= 2 => edges >= 3 /\ edges < CountWord /\ AtRest(lat)
<1>1. /\ rate \in Nat /\ Elapsed \in Int /\ Measured \in Int /\ phase \in Int
      /\ Elapsed - Measured = phase /\ phase < 4 /\ phase >= -4
  BY RefTime, TimeTypes DEF RunInv
<1>2. req \in Link /\ lat \in Link /\ edges \in Nat /\ CountWord \in Nat
  BY CounterAssumption DEF LinksInv, CountType
<1>3. ASSUME calm >= 1
      PROVE  /\ Elapsed > 4 * rate + 41 /\ Elapsed > 5 * rate + 30
             /\ Elapsed + 7 < 4 * CountWord /\ Elapsed > 41
  <2>1. Elapsed = rate * Window
    BY <1>3, RefTime
  <2> QED BY <1>1, <1>3, <2>1, WindowFits
<1>4. calm >= 1 => AtRest(req)
  BY <1>1, <1>2, <1>3, ReqEnds DEF WindowInv, TimeInv
<1>5. ASSUME calm >= 2 PROVE edges >= 3 /\ edges < CountWord /\ AtRest(lat)
  <2>1. calm >= 1
    BY <1>5 DEF RunInv
  <2>2. Measured - 4 * edges \in -3 .. 4
    BY <1>5 DEF WindowInv, EdgeInv
  <2>3. edges >= 3 /\ edges < CountWord
    BY <1>1, <1>2, <1>3, <2>1, <2>2
  <2>4. LatOnTime(lat, Elapsed, Measured, rate)
    BY <1>5, <2>3 DEF WindowInv, TimeInv
  <2> QED BY <1>1, <1>2, <1>3, <2>1, <2>3, <2>4, LatEnds
<1> QED BY <1>4, <1>5

\* The edge of ref_clk that sends the next request.
LEMMA NextRequest ==
  ASSUME CountType, LinksInv, RunInv, WindowInv, RefEdge(FALSE), tc, calm' >= 1
  PROVE  WindowInv'
<1>1. /\ calm' = (IF calm < 4 THEN calm + 1 ELSE calm) /\ calm \in 0 .. 4
      /\ edges' = 0 /\ truth' = <<edges, truth[1]>> /\ edges \in Nat
      /\ counter' = counter /\ latch_count' = latch_count /\ rate' = rate
  BY RefTime DEF RefEdge, ObserveRef, measVars, RunInv, CountType
<1>2. /\ Elapsed' = rate /\ Measured' = -phase /\ rate \in Nat
      /\ phase \in Int /\ phase < 4 /\ phase >= -4
  BY RefTime, TimeTypes DEF RunInv
<1>3. /\ req \in Link /\ req' = SrcEdge(req, TRUE, FALSE)
      /\ lat \in Link /\ lat' = RcvEdge(lat)
  <2>1. tc = TRUE
    BY DEF RunInv
  <2> QED BY <2>1 DEF LinksInv, RefEdge
<1>4. /\ req'.s_req
      /\ (req'.req_p <=> req.req_p) /\ (req'.r_req <=> req.r_req)
      /\ (req'.r_req_d <=> req.r_req_d)
      /\ (req'.ack_p <=> req.r_req) /\ (req'.s_ack <=> req.ack_p)
      /\ AtRest(req) => ~req'.crowded
  <2>1. AtRest(req) => ~src_busy(req)
    BY DEF AtRest
  <2> QED BY <1>3, <2>1, SrcFields
<1>5. /\ (lat'.crowded <=> lat.crowded)
      /\ AtRest(lat) => AtRest(lat') /\ ~rcv_pulse(lat)
  BY <1>3, RcvFields DEF AtRest, src_busy, rcv_pulse
<1>6. EdgeInv'
  BY <1>1, <1>2 DEF EdgeInv
<1>7. ShapeInv'
  BY <1>1, <1>4, WindowEnds DEF ShapeInv, AtRest, src_busy
<1>8. TimeInv'
  <2>1. ReqOnTime(req', Elapsed', Measured', rate')
    BY <1>1, <1>2, ReqBegins
  <2>2. calm' >= 3 => AtRest(lat')
    BY <1>1, <1>5, WindowEnds
  <2> QED BY <1>1, <2>1, <2>2 DEF TimeInv
<1>9. CrowdInv'
  BY <1>1, <1>4, <1>5, WindowEnds DEF WindowInv, CrowdInv
<1>10. CountInv'
  <2>1. truth'[1] = edges
    BY <1>1
  <2> QED BY <1>1, <2>1, WindowEnds DEF WindowInv, CountInv
<1>11. RegInv'
  <2>1. ASSUME calm' = 4 PROVE freq_reg' = truth[1]
    <3>1. calm >= 3 /\ edges >= 3 /\ AtRest(lat)
      BY <1>1, <2>1, WindowEnds
    <3>2. ~lat.crowded
      BY <1>1, <3>1 DEF WindowInv, CrowdInv
    <3>3. ~lat.due
      BY <3>1, <3>2 DEF LinksInv, Wave, Falling, AtRest, src_busy
    <3>4. freq_reg' = freq_reg
      BY <1>5, <3>1 DEF RefEdge
    <3> QED BY <3>1, <3>3, <3>4 DEF WindowInv, RegInv
  <2>2. truth'[2] = truth[1]
    BY <1>1
  <2> QED BY <1>1, <2>1, <2>2 DEF RegInv
<1> QED BY <1>6, <1>7, <1>8, <1>9, <1>10, <1>11 DEF WindowInv

\* An edge of meas_clk, whichever it is: the time, and the link to it.
LEMMA MeasFacts ==
  ASSUME CountType, LinksInv, RunInv, WindowInv, MeasEdge, calm >= 1
  PROVE  /\ calm' = calm /\ rate' = rate /\ truth' = truth /\ freq_reg' = freq_reg
         /\ Elapsed' = Elapsed /\ Measured' = Measured + 4
         /\ rate \in Nat /\ Elapsed \in Int /\ Measured \in Int
         /\ Elapsed - Measured >= 0 /\ Elapsed - Measured <= rate + 3
         /\ req' = RcvEdge(req) /\ lat' = SrcEdge(lat, rcv_pulse(req), FALSE)
         /\ req \in Link /\ lat \in Link /\ rcv_pulse(req) \in BOOLEAN
         /\ ReqOnTime(req', Elapsed', Measured', rate')
         /\ Measured - 4 * edges \in -3 .. 4 => edges < CountWord - 1
<1>1. /\ calm' = calm /\ rate' = rate /\ truth' = truth /\ freq_reg' = freq_reg
      /\ Elapsed' = Elapsed /\ Measured' = Measured + 4
      /\ req' = RcvEdge(req) /\ lat' = SrcEdge(lat, rcv_pulse(req), FALSE)
  BY MeasTime DEF MeasEdge, refVars
<1>2. /\ rate \in Nat /\ Elapsed \in Int /\ Measured \in Int
      /\ Elapsed - Measured >= 0 /\ Elapsed - Measured <= rate + 3
  BY MeasTime, TimeTypes DEF RunInv
<1>3. req \in Link /\ lat \in Link /\ rcv_pulse(req) \in BOOLEAN
  BY DEF LinksInv, rcv_pulse
<1>4. ReqOnTime(req, Elapsed, Measured, rate)
  BY DEF WindowInv, TimeInv
<1>5. ReqOnTime(req', Elapsed', Measured', rate')
  BY <1>1, <1>2, <1>3, <1>4, ReqMeasEdge
<1>6. ASSUME Measured - 4 * edges \in -3 .. 4 PROVE edges < CountWord - 1
  <2>1. Elapsed + 7 < 4 * CountWord
    <3>1. Elapsed <= rate * Window /\ rate * Window + 7 < 4 * CountWord
      BY WindowFits
    <3>2. rate * Window \in Int
      BY <1>2, CounterAssumption
    <3> QED BY <1>2, <3>1, <3>2, CounterAssumption
  <2> QED BY <1>2, <1>6, <2>1, CounterAssumption DEF CountType
<1> QED BY <1>1, <1>2, <1>3, <1>5, <1>6

\* An edge that finds no request, or sees it for the second time.
LEMMA MeasKeeps ==
  ASSUME CountType, LinksInv, RunInv, WindowInv, MeasEdge, calm >= 2, edges # 2
  PROVE  WindowInv'
<1>1. calm \in 0 .. 4 /\ calm >= 1 /\ edges \in Nat /\ edges' = edges + 1
  BY DEF RunInv, CountType, MeasEdge
<1>2. /\ calm' = calm /\ truth' = truth /\ freq_reg' = freq_reg /\ rate' = rate
      /\ Elapsed' = Elapsed /\ Measured' = Measured + 4 /\ rate \in Nat
      /\ Elapsed \in Int /\ Measured \in Int /\ Elapsed - Measured >= 0
      /\ ReqOnTime(req', Elapsed', Measured', rate')
  BY <1>1, MeasFacts
<1>3. rcv_pulse(req) = FALSE
  BY <1>1 DEF WindowInv, ShapeInv, rcv_pulse
<1>4. /\ req \in Link /\ req' = RcvEdge(req)
      /\ lat \in Link /\ lat' = SrcEdge(lat, FALSE, FALSE)
  BY <1>1, <1>3, MeasFacts
<1>5. /\ (req'.s_req <=> req.s_req) /\ (req'.req_p <=> req.s_req)
      /\ (req'.r_req <=> req.req_p) /\ (req'.r_req_d <=> req.r_req)
      /\ (req'.ack_p <=> req.ack_p) /\ (req'.s_ack <=> req.s_ack)
      /\ (req'.crowded <=> req.crowded)
  BY <1>4, RcvFields
<1>6. /\ lat'.due <=> (lat.due /\ ~(lat.crowded /\ AtRest(lat)))
      /\ lat'.crowded => lat.crowded
      /\ AtRest(lat) => AtRest(lat')
  BY <1>4, SrcFields DEF AtRest, src_busy
<1>7. EdgeInv'
  BY <1>1, <1>2 DEF WindowInv, EdgeInv
<1>8. ShapeInv'
  BY <1>1, <1>2, <1>5 DEF WindowInv, ShapeInv
<1>9. TimeInv'
  <2>1. calm' >= 2 /\ edges' >= 3 => LatOnTime(lat', Elapsed', Measured', rate')
    <3> SUFFICES ASSUME calm' >= 2, edges' >= 3
                 PROVE  LatOnTime(lat', Elapsed', Measured', rate')
      OBVIOUS
    <3>1. edges >= 3
      BY <1>1
    <3>2. LatOnTime(lat, Elapsed, Measured, rate)
      BY <3>1 DEF WindowInv, TimeInv
    <3>3. LatOnTime(SrcEdge(lat, FALSE, FALSE), Elapsed, Measured + 4, rate)
      BY <1>2, <1>4, <3>2, LatMeasEdge
    <3> QED BY <1>2, <1>4, <3>3
  <2>2. calm' >= 3 /\ edges' < 3 => AtRest(lat')
    BY <1>1, <1>2, <1>6 DEF WindowInv, TimeInv
  <2> QED BY <1>2, <2>1, <2>2 DEF TimeInv
<1>10. CrowdInv'
  BY <1>1, <1>2, <1>5, <1>6 DEF WindowInv, CrowdInv
<1>11. CountInv'
  <2>1. counter' = (counter + 1) % CountWord /\ latch_count' = latch_count
    BY <1>3 DEF MeasEdge, Count
  <2>2. edges < CountWord - 1
    BY <1>1, MeasFacts DEF WindowInv, EdgeInv
  <2>3. \A n \in Nat : n < CountWord => n % CountWord = n
    BY CounterAssumption
  <2>4. ASSUME edges >= 3 PROVE counter' = edges' - 3
    <3>1. counter + 1 = edges - 2 /\ edges - 2 \in Nat /\ edges - 2 < CountWord
      BY <1>1, <2>2, <2>4, CounterAssumption DEF WindowInv, CountInv
    <3> QED BY <1>1, <2>1, <2>3, <3>1
  <2>5. ASSUME calm >= 3, edges < 3 PROVE counter' = truth[1] + edges' - 3
    <3>1. /\ counter + 1 = truth[1] + edges - 2
          /\ truth[1] >= 3 /\ truth[1] < CountWord /\ truth[1] \in Nat
      BY <1>1, <2>5 DEF WindowInv, CountInv, CountType
    <3>2. counter + 1 \in Nat /\ counter + 1 < CountWord
      BY <1>1, <2>5, <3>1, CounterAssumption
    <3>3. counter' = counter + 1
      BY <2>1, <2>3, <3>2
    <3> QED BY <1>1, <3>1, <3>3
  <2> QED BY <1>1, <1>2, <2>1, <2>4, <2>5 DEF WindowInv, CountInv
<1>12. RegInv'
  BY <1>1, <1>2, <1>6 DEF WindowInv, RegInv, CrowdInv
<1> QED BY <1>7, <1>8, <1>9, <1>10, <1>11, <1>12 DEF WindowInv

\* The third edge of a window finds the request: the count is latched, sent
\* back, and starts again.
LEMMA Capture ==
  ASSUME CountType, LinksInv, RunInv, WindowInv, MeasEdge, calm >= 2, edges = 2
  PROVE  WindowInv'
<1>1. calm \in 0 .. 4 /\ calm >= 1 /\ edges' = 3
  BY DEF RunInv, MeasEdge
<1>2. /\ calm' = calm /\ truth' = truth /\ freq_reg' = freq_reg /\ rate' = rate
      /\ Elapsed' = Elapsed /\ Measured' = Measured + 4 /\ rate \in Nat
      /\ Elapsed \in Int /\ Measured \in Int /\ Elapsed - Measured <= rate + 3
      /\ ReqOnTime(req', Elapsed', Measured', rate')
  BY <1>1, MeasFacts
<1>3. rcv_pulse(req) = TRUE
  BY DEF WindowInv, ShapeInv, rcv_pulse
<1>4. /\ req \in Link /\ req' = RcvEdge(req)
      /\ lat \in Link /\ lat' = SrcEdge(lat, TRUE, FALSE)
  BY <1>1, <1>3, MeasFacts
<1>5. /\ (req'.s_req <=> req.s_req) /\ (req'.req_p <=> req.s_req)
      /\ (req'.r_req <=> req.req_p) /\ (req'.r_req_d <=> req.r_req)
      /\ (req'.crowded <=> req.crowded)
  BY <1>4, RcvFields
<1>6. AtRest(lat) => lat'.due /\ ~lat'.crowded
  <2>1. AtRest(lat) => ~src_busy(lat)
    BY DEF AtRest
  <2> QED BY <1>4, <2>1, SrcFields
<1>7. calm >= 3 => AtRest(lat)
  BY DEF WindowInv, TimeInv
<1>8. Measured - 8 \in -3 .. 4
  BY DEF WindowInv, EdgeInv
<1>9. EdgeInv'
  BY <1>1, <1>2, <1>8 DEF EdgeInv
<1>10. ShapeInv'
  BY <1>1, <1>5 DEF WindowInv, ShapeInv
<1>11. TimeInv'
  <2>1. LatOnTime(lat', Elapsed', Measured', rate')
    BY <1>2, <1>8, LatBegins
  <2> QED BY <1>1, <1>2, <2>1 DEF TimeInv
<1>12. CrowdInv'
  BY <1>1, <1>2, <1>5, <1>6, <1>7 DEF WindowInv, CrowdInv
<1>13. CountInv'
  <2>1. counter' = 0 /\ latch_count' = (counter + 1) % CountWord
    BY <1>3 DEF MeasEdge, Count
  <2>2. ASSUME calm >= 3
        PROVE  latch_count' = truth[1] /\ truth[1] >= 3 /\ truth[1] < CountWord
    <3>1. truth[1] >= 3 /\ truth[1] < CountWord /\ truth[1] \in Nat
      BY <2>2 DEF WindowInv, CountInv, CountType
    <3>2. counter + 1 = truth[1]
      BY <2>2, <3>1 DEF WindowInv, CountInv
    <3> QED BY <2>1, <3>1, <3>2, CounterAssumption
  <2> QED BY <1>1, <1>2, <2>1, <2>2 DEF CountInv
<1>14. RegInv'
  BY <1>1, <1>2, <1>6, <1>7 DEF WindowInv, RegInv
<1> QED BY <1>9, <1>10, <1>11, <1>12, <1>13, <1>14 DEF WindowInv

\* In the first window after an upset only the request is in time.
LEMMA FirstWindow ==
  ASSUME CountType, LinksInv, RunInv, WindowInv, MeasEdge, calm = 1
  PROVE  WindowInv'
<1>1. calm' = 1 /\ ReqOnTime(req', Elapsed', Measured', rate')
  BY MeasFacts
<1> QED BY <1>1 DEF WindowInv, EdgeInv, ShapeInv, TimeInv, CrowdInv, CountInv, RegInv

LEMMA WindowStep ==
  ASSUME CountType, LinksInv, RunInv, WindowInv, [Next]_vars PROVE WindowInv'
<1>1. CASE RefEdge(FALSE)
  <2>1. calm' = 0 \/ calm' >= 1
    <3>1. RunInv'
      BY <1>1, RefRuns
    <3> QED BY <3>1 DEF RunInv
  <2> QED BY <1>1, <2>1, Upset, QuietRef, NextRequest
<1>2. CASE RefEdge(TRUE) \/ Stop
  BY <1>2, Upset DEF RefEdge, ObserveRef, Stop, Forget
<1>3. CASE Start
  BY <1>3, Upset DEF Start, RunInv
<1>4. CASE MeasEdge
  <2>1. calm = 0 \/ calm = 1 \/ calm >= 2
    BY DEF RunInv
  <2>2. calm = 0 => calm' = 0
    BY <1>4 DEF MeasEdge
  <2> QED BY <1>4, <2>1, <2>2, Upset, FirstWindow, Capture, MeasKeeps
<1>5. CASE UNCHANGED vars
  BY <1>5 DEF vars, refVars, measVars, WindowInv, EdgeInv, ShapeInv, TimeInv,
    CrowdInv, CountInv, RegInv, Elapsed, Measured
<1> QED BY <1>1, <1>2, <1>3, <1>4, <1>5 DEF Next, RunEdge, ResetEdge

-----------------------------------------------------------------------------
(***************************************************************************)
(* The results.                                                            *)
(***************************************************************************)
\* The invariant of the two links, the time and the counts
\* (clk_freq_counter.vhd, sync_pulse_ack_cc.vhd, counter_prescale.vhd).
THEOREM CounterInvariant == Spec => []CounterInv
<1>1. CounterInv <=> (CountType /\ LinksInv /\ RunInv /\ WindowInv)
  BY DEF CounterInv, WindowInv
<1>2. CounterInv /\ [Next]_vars => CounterInv'
  <2> SUFFICES ASSUME CounterInv, [Next]_vars PROVE CounterInv'
    OBVIOUS
  <2>1. CountType' /\ LinksInv' /\ RunInv' /\ WindowInv'
    BY <1>1, TypeStep, LinksStep, RunStep, WindowStep
  <2> QED BY <2>1 DEF CounterInv, WindowInv
<1> QED BY <1>2, CounterStart, PTL DEF Spec

\* FrequencyIsRecent: after four seconds without an upset freq_reg, which
\* rfstats.c reads at any time, is the number of edges of meas_clk in the last
\* second or the one before it (clk_freq_counter.vhd:64-103).
THEOREM FrequencyCorrect == Spec => []FrequencyIsRecent
<1>1. CounterInv => FrequencyIsRecent
  <2> SUFFICES ASSUME CounterInv, calm = 4 PROVE freq_reg \in {truth[1], truth[2]}
    BY DEF FrequencyIsRecent, Reported
  <2>1. edges \in Nat /\ (edges >= 3 \/ edges < 3)
    BY DEF CounterInv, CountType
  <2> QED BY <2>1 DEF CounterInv, RegInv
<1> QED BY <1>1, CounterInvariant, PTL

\* LinksNotCrowded: nobody looks at src_busy, and nothing is lost for it: both
\* handshakes are over when the next pulse comes (sync_pulse_ack_cc.vhd:46-87).
THEOREM LinksCorrect == Spec => []LinksNotCrowded
<1>1. \A l \in Link : Wave(l) => Once(l)
  BY DEF Once, Link, Wave, Rising, Falling, rcv_pulse, src_busy
<1>2. CounterInv => LinksNotCrowded
  BY <1>1 DEF CounterInv, LinksInv, CrowdInv, LinksNotCrowded
<1> QED BY <1>2, CounterInvariant, PTL
=============================================================================
