---------------------------- MODULE DmaSlotsProofs ----------------------------
(***************************************************************************)
(* Proofs about DrvOneWireDma in real time: on a quiet bus, with handlers  *)
(* that are in time and DMA to itself, the driver sends what it was asked  *)
(* for, not one slot more, and fails only for a reason.                    *)
(*                                                                         *)
(* The hardware steps first (within a slot, and into the next one), then   *)
(* the handlers, then the start of an exchange and what is not one.        *)
(***************************************************************************)
EXTENDS DrvOneWireDmaProofs

-----------------------------------------------------------------------------
\* The time slots of an exchange.  What follows holds when the bus is quiet,
\* the handlers are in time and nobody else uses DMA.
Top == IO_BIT_PROCEDURE_DURATION(overdrive)
Level(b) == BIT_DURATION(overdrive, b)
Levels == {Level(0), Level(1)}
Running == call = "io" /\ status = Op!PROGRESS
Low == Driving(tim) \/ hold
InPulse == tim.cnt < tim.pwm
Slots == Len(wire.pulses)
Edges == Len(wire.rises)

\* The transfers left to the PWM channel, and the level it fetched before
\* them: it is preloaded, a slot ahead.
Queued == IF dma.en1 THEN dma.n1 ELSE 0
Fetched(left) == Level(request.bits[request.n - 1 - left])

\* The slot of the exchange the timer is in; past the last it stays there.
Slot == IF tim.uie /\ (tim.uif \/ tim.ccr1 = 0) THEN request.n
        ELSE IF InPulse THEN request.n - Queued
        ELSE request.n - 1 - Queued

\* An exchange goes through five stages.  The PWM channel feeds the timer;
\* when it has fetched the last level its interrupt waits, not longer than
\* since the pulse ended.
Fed ==
  /\ ~tim.uie /\ tim.ccr1 = Fetched(Queued) /\ dma.en1 /\ dma.cc1de
  /\ tim.pwm \in Levels
  /\ InPulse => Queued > 0
  /\ Queued > 0 => ~dma.tc1
  /\ Queued = 0 => dma.tc1 /\ tim.cnt - tim.pwm <= lag

\* The overflow that begins the last slot is watched for ...
LastAhead ==
  /\ tim.uie /\ ~tim.uif /\ Queued = 0 /\ ~PwmDmaPending
  /\ tim.ccr1 = Fetched(0) /\ ~InPulse

\* ... and waits to be served, not longer than the slot has lasted.
LastBegun ==
  /\ tim.uie /\ tim.uif /\ Queued = 0 /\ ~PwmDmaPending
  /\ tim.ccr1 = Fetched(0) /\ tim.pwm \in Levels
  /\ tim.cnt <= lag

\* The level of the periods after it is 0 ...
Last ==
  /\ tim.uie /\ ~tim.uif /\ Queued = 0 /\ ~PwmDmaPending
  /\ tim.ccr1 = 0 /\ tim.pwm \in Levels

\* ... so that none of them has a pulse.
Beyond ==
  /\ tim.uie /\ tim.uif /\ Queued = 0 /\ ~PwmDmaPending
  /\ tim.ccr1 = 0 /\ tim.pwm = 0
  /\ hold => wire.stuck

\* The timer and the DMA in a slot.
Clocked ==
  /\ presence = 1 /\ tim.cen /\ tim.aoe /\ ~tim.cc1ie /\ ~tim.cc2ie
  /\ tim.cc2p = Rising /\ tim.arr = Top
  /\ dma.clk /\ dma.gen /\ dma.cc2de /\ dma.en2 /\ (dma.n2 = 0 => dma.tc2)
  /\ Queued < request.n /\ lag <= MaxLag[Top]
  /\ Fed \/ LastAhead \/ LastBegun \/ Last \/ Beyond

\* The levels not fetched yet are in the buffer, captures have not overwritten
\* them.
Buffered ==
  \A i \in Index :
    i < Queued => durations[i] = Level(request.bits[request.n - 1 - i])

\* No more pulses and edges than slots, one still to come while the line is
\* low; without the pull-up each slot has its pulse, and its edge unless the
\* line was held.
Due == IF Low THEN 1 ELSE 0
Counted ==
  /\ Slots <= Slot /\ Edges + Due <= Slot
  /\ NoConflict => tim.moe /\ ~pullup /\ ~tim.bif /\ Slots = Slot
  /\ NoConflict /\ ~wire.stuck => Edges + Due = Slot

Paced ==
  /\ ~other
  /\ Running => Clocked /\ Buffered /\ Counted
  /\ NoExtraPulse /\ SentInOrder /\ NoSpuriousError

\* The constants of a slot.
LEMMA LevelValues ==
  ASSUME NEW od \in Flag, NEW b \in Flag
  PROVE  LET l == BIT_DURATION(od, b)
         IN  /\ l \in Int /\ 0 < l /\ l < IO_BIT_PROCEDURE_DURATION(od)
             /\ l % DmaModulus = l /\ l \div DmaModulus = 0
<1> DEFINE l == BIT_DURATION(od, b)
<1>1. l \in Nat /\ 0 < l /\ l < IO_BIT_PROCEDURE_DURATION(od)
  BY BitValues
<1> HIDE DEF l
<1>2. l < DmaModulus
  BY <1>1, SlotValue, DmaModulusValue
<1>3. l % DmaModulus = l /\ l \div DmaModulus = 0
  BY <1>1, <1>2, DmaModulusValue
<1> QED BY <1>1, <1>3 DEF l

\* A slot as the state has it.
LEMMA SlotFacts ==
  ASSUME TypeOK, InTime, Running, Clocked
  PROVE  /\ overdrive \in Flag /\ request \in Request /\ request.n \in 1 .. 8
         /\ tim \in Tim /\ dma \in Dma /\ wire \in Trace /\ hold \in BOOLEAN
         /\ pullup \in BOOLEAN /\ lag \in Nat /\ lag \in Int /\ lag >= 0
         /\ durations \in [Index -> 0 .. DmaModulus - 1]
         /\ dma.n1 \in Int /\ dma.n2 \in Int /\ dma.n2 >= 0
         /\ Queued \in Int /\ Queued >= 0 /\ Queued < request.n
         /\ request.n \in Int /\ request.n <= 8
         /\ tim.cnt \in Int /\ tim.pwm \in Int /\ tim.ccr1 \in Int
         /\ 0 <= tim.cnt /\ tim.cnt <= Top
         /\ Top \in Word /\ Top \in Int /\ 0 < Top
         /\ MaxLag[Top] \in Int /\ MaxLag[Top] >= 0
         /\ \A l \in Levels : /\ l \in Int /\ 0 < l /\ l + MaxLag[Top] <= Top
                              /\ l % DmaModulus = l /\ l \div DmaModulus = 0
         /\ \A k \in Index : Level(request.bits[k]) \in Levels
         /\ \A q \in 0 .. request.n - 1 : Fetched(q) \in Levels
         /\ Slots \in Nat /\ Edges \in Nat
         /\ wire.pulses \in Seq(Word) /\ wire.rises \in Seq(Word)
         /\ wire.stuck \in BOOLEAN
<1>1. /\ overdrive \in Flag /\ request \in Request /\ wire \in Trace
      /\ tim \in Tim /\ dma \in Dma
      /\ hold \in BOOLEAN /\ pullup \in BOOLEAN /\ lag \in Nat
      /\ durations \in [Index -> 0 .. DmaModulus - 1]
      /\ tim.cnt <= tim.arr
  BY DEF TypeOK, DrvTypeOK, BusTypeOK, Clocked
<1>2. /\ tim.cnt \in Word /\ tim.pwm \in Word /\ tim.ccr1 \in Word
      /\ wire.pulses \in Seq(Word) /\ wire.rises \in Seq(Word)
      /\ wire.stuck \in BOOLEAN
      /\ request.n \in 1 .. 8 /\ dma.n1 \in 0 .. 8 /\ dma.n2 \in 0 .. 8
  BY <1>1 DEF Tim, Trace, Request, Dma
<1>3. Top \in Word /\ MaxLag[Top] \in Nat
  BY <1>1, BitTypes, BusAssumption DEF Top, Flag
<1>4. \A b \in Flag :
        /\ Level(b) \in Int /\ 0 < Level(b) /\ Level(b) < Top
        /\ Level(b) + MaxLag[Top] <= Top
        /\ Level(b) % DmaModulus = Level(b)
        /\ Level(b) \div DmaModulus = 0
  BY <1>1, LevelValues DEF Level, Top, InTime
<1>5. Levels = {Level(b) : b \in Flag}
  BY DEF Levels, Flag
<1>6. \A k \in Index : Level(request.bits[k]) \in Levels
  <2>1. \A k \in Index : request.bits[k] \in Flag
    BY <1>1 DEF Request
  <2> QED BY <1>5, <2>1
<1>7. \A q \in 0 .. request.n - 1 : Fetched(q) \in Levels
  <2>1. \A q \in 0 .. request.n - 1 : request.n - 1 - q \in Index
    BY <1>2 DEF Index
  <2> QED BY <1>6, <2>1 DEF Fetched
<1>8. /\ dma.n1 \in Int /\ dma.n2 \in Int /\ dma.n2 >= 0
      /\ Queued \in Int /\ Queued >= 0 /\ Queued < request.n
      /\ request.n \in Int /\ request.n <= 8
  BY <1>2 DEF Clocked, Queued
<1>9. /\ tim.cnt \in Int /\ tim.pwm \in Int /\ tim.ccr1 \in Int /\ Top \in Int
      /\ 0 <= tim.cnt /\ tim.cnt <= Top
  BY <1>1, <1>2, <1>3, WordIsInt DEF Clocked
<1>10. 0 < Top
  BY <1>4, <1>9 DEF Flag
<1>11. \A l \in Levels : /\ l \in Int /\ 0 < l /\ l + MaxLag[Top] <= Top
                         /\ l % DmaModulus = l /\ l \div DmaModulus = 0
  BY <1>4, <1>5
<1>12. Slots \in Nat /\ Edges \in Nat
  BY <1>2 DEF Slots, Edges
<1> HIDE DEF Top, Levels, Queued, Fetched, Level, Slots, Edges, Index
<1> QED BY <1>1, <1>2, <1>3, <1>6, <1>7, <1>8, <1>9, <1>10, <1>11, <1>12

\* Its numbers alone.
LEMMA SlotNumbers ==
  ASSUME TypeOK, InTime, Running, Clocked
  PROVE  /\ dma.n1 \in Int /\ dma.n2 \in Int /\ dma.n2 >= 0
         /\ Queued \in Int /\ Queued >= 0 /\ Queued < request.n
         /\ request.n \in Int /\ request.n >= 1 /\ request.n <= 8
         /\ tim.cnt \in Int /\ tim.pwm \in Int /\ tim.ccr1 \in Int
         /\ 0 <= tim.cnt /\ tim.cnt <= Top /\ Top \in Int
         /\ lag \in Int /\ lag >= 0
         /\ MaxLag[Top] \in Int /\ MaxLag[Top] >= 0
         /\ Slots \in Int /\ Edges \in Int /\ Slots >= 0 /\ Edges >= 0
<1>1. Slots \in Nat /\ Edges \in Nat /\ request.n \in 1 .. 8
  BY SlotFacts
<1> QED BY <1>1, SlotFacts

\* What the capture channel has left, as CapturesTracked has it.
LEMMA CaptureFacts ==
  ASSUME TypeOK, InTime, Running, Clocked, RxTrack
  PROVE  /\ dma.n2 <= request.n
         /\ dma.n2 > 0 => Edges = request.n - dma.n2
         /\ dma.n2 = 0 => Edges >= request.n
<1>1. InPlace /\ Armed
  BY RxTrackParts, OpStatus DEF Running, Exchange
<1>2. dma.n2 > 0 => CaptureRequestServed(dma)
  BY DEF Clocked, CaptureRequestServed
<1> QED BY <1>1, <1>2, SlotNumbers DEF InPlace, Armed, Stored, Edges

\* The slot the timer is in, by the stage.
LEMMA SlotByStage ==
  ASSUME TypeOK, InTime, Running, Clocked
  PROVE  /\ Slot \in Int /\ Slot <= request.n - Queued
         /\ Fed => Slot = IF InPulse THEN request.n - Queued
                          ELSE request.n - 1 - Queued
         /\ LastAhead => Slot = request.n - 1
         /\ LastBegun \/ Last \/ Beyond => Slot = request.n
         /\ tim.pwm <= Top \/ ~InPulse
<1>1. 0 \in 0 .. request.n - 1
  BY SlotNumbers
<1>2. Fetched(0) # 0
  BY <1>1, SlotFacts
<1>3. \A l \in Levels : l \in Int /\ l <= Top
  <2>1. \A l \in Levels : l \in Int /\ l + MaxLag[Top] <= Top
    BY SlotFacts
  <2> QED BY <2>1, SlotNumbers
<1>4. Fed \/ LastAhead \/ LastBegun \/ Last \/ Beyond
  BY DEF Clocked
<1>5. CASE Fed
  <2>1. ~tim.uie /\ tim.pwm \in Levels
    BY <1>5 DEF Fed
  <2>2. Slot = IF InPulse THEN request.n - Queued ELSE request.n - 1 - Queued
    BY <2>1 DEF Slot
  <2> QED BY <1>3, <2>1, <2>2, SlotNumbers
          DEF LastAhead, LastBegun, Last, Beyond
<1>6. CASE LastAhead
  <2>1. /\ tim.uie /\ ~tim.uif /\ Queued = 0 /\ tim.ccr1 = Fetched(0)
        /\ ~InPulse
    BY <1>6 DEF LastAhead
  <2>2. Slot = request.n - 1 - Queued
    BY <1>2, <2>1 DEF Slot
  <2> QED BY <1>2, <2>1, <2>2, SlotNumbers DEF Fed, LastBegun, Last, Beyond
<1>7. CASE LastBegun \/ Last \/ Beyond
  <2>1. /\ tim.uie /\ Queued = 0 /\ (tim.uif \/ tim.ccr1 = 0)
        /\ tim.pwm \in Levels \/ tim.pwm = 0
    BY <1>7 DEF LastBegun, Last, Beyond
  <2>2. Slot = request.n
    BY <2>1 DEF Slot
  <2>3. ~LastAhead /\ ~Fed
    BY <1>2, <1>7, <2>1 DEF LastAhead, LastBegun, Last, Beyond, Fed
  <2> QED BY <1>3, <2>1, <2>2, <2>3, SlotNumbers
<1> QED BY <1>4, <1>5, <1>6, <1>7

-----------------------------------------------------------------------------
\* What an event does to the line of an exchange, and to the capture channel
\* if the line rises.
Rise == Low /\ ~Low'
Moves(t, d, h, w) ==
  /\ tim'.cen = t.cen /\ tim'.aoe = t.aoe /\ tim'.moe = t.moe
  /\ tim'.uie = t.uie /\ tim'.uif = t.uif /\ tim'.bif = t.bif
  /\ tim'.cc1ie = t.cc1ie /\ tim'.cc2ie = t.cc2ie
  /\ tim'.cc2p = t.cc2p /\ tim'.arr = t.arr /\ tim'.cnt = t.cnt
  /\ tim'.pwm = t.pwm /\ tim'.ccr1 = t.ccr1
  /\ dma'.clk = d.clk /\ dma'.gen = d.gen
  /\ dma'.cc1de = d.cc1de /\ dma'.cc2de = d.cc2de
  /\ dma'.en1 = d.en1 /\ dma'.n1 = d.n1 /\ dma'.tc1 = d.tc1
  /\ dma'.en2 = d.en2
  /\ IF Rise /\ d.n2 > 0
     THEN /\ dma'.n2 = d.n2 - 1
          /\ dma'.tc2 <=> d.tc2 \/ d.n2 = 1
          /\ durations' = [durations EXCEPT ![d.n2 - 1] = t.cnt % DmaModulus]
     ELSE dma'.n2 = d.n2 /\ dma'.tc2 = d.tc2 /\ durations' = durations
  /\ hold' = h
  /\ Low' <=> Driving(t) \/ h
  /\ wire'.pulses = IF Driving(t) /\ ~Driving(tim)
                    THEN Append(w.pulses, t.pwm) ELSE w.pulses
  /\ wire'.rises = IF Rise THEN Append(w.rises, t.cnt) ELSE w.rises
  /\ wire'.stuck = w.stuck

LEMMA LineEffect ==
  ASSUME NEW t \in Tim, NEW d \in Dma, d.clk, d.gen, d.cc2de, d.en2,
         NEW h \in BOOLEAN, NEW w \in Trace,
         t.cen, t.cc2p = Rising, Settle(t, d, h, w)
  PROVE  Moves(t, d, h, w)
<1> DEFINE rise == Low /\ ~(Driving(t) \/ h)
<1>1. CaptureRequestServed(d) <=> d.n2 > 0
  BY DEF CaptureRequestServed
<1>2. t.cc2p # Falling
  BY DEF Rising, Falling
<1>3. ~High(tim, hold) /\ High(t, h) <=> rise
  BY DEF High, Low
<1>4. tim' = IF rise THEN [t EXCEPT !.cc2if = TRUE, !.ccr2 = t.cnt] ELSE t
  BY <1>2, <1>3 DEF Settle
<1>5. /\ dma' = IF rise /\ d.n2 > 0 THEN CaptureTransfer(d) ELSE d
      /\ durations' = IF rise /\ d.n2 > 0
                      THEN [durations EXCEPT ![d.n2 - 1] = t.cnt % DmaModulus]
                      ELSE durations
      /\ hold' = h
  BY <1>1, <1>2, <1>3 DEF Settle
<1>6. /\ wire'.pulses = IF Driving(t) /\ ~Driving(tim)
                        THEN Append(w.pulses, t.pwm) ELSE w.pulses
      /\ wire'.rises = IF rise THEN Append(w.rises, t.cnt) ELSE w.rises
      /\ wire'.stuck = w.stuck
  BY <1>3 DEF Settle
<1> HIDE DEF rise
<1>7. /\ tim'.cen = t.cen /\ tim'.aoe = t.aoe /\ tim'.moe = t.moe
      /\ tim'.uie = t.uie /\ tim'.uif = t.uif /\ tim'.bif = t.bif
      /\ tim'.cc1ie = t.cc1ie /\ tim'.cc2ie = t.cc2ie
      /\ tim'.cc2p = t.cc2p /\ tim'.arr = t.arr /\ tim'.cnt = t.cnt
      /\ tim'.pwm = t.pwm /\ tim'.ccr1 = t.ccr1
  BY <1>4 DEF Tim
<1>8. Low' <=> Driving(t) \/ h
  BY <1>5, <1>7 DEF Low, Driving
<1>9. Rise <=> rise
  BY <1>8 DEF Rise, rise
<1>10. /\ dma'.clk = d.clk /\ dma'.gen = d.gen
       /\ dma'.cc1de = d.cc1de /\ dma'.cc2de = d.cc2de
       /\ dma'.en1 = d.en1 /\ dma'.n1 = d.n1 /\ dma'.tc1 = d.tc1
       /\ dma'.en2 = d.en2
       /\ IF rise /\ d.n2 > 0
          THEN /\ dma'.n2 = d.n2 - 1
               /\ dma'.tc2 <=> d.tc2 \/ d.n2 = 1
          ELSE dma'.n2 = d.n2 /\ dma'.tc2 = d.tc2
  BY <1>5 DEF CaptureTransfer, Dma
<1> QED BY <1>5, <1>6, <1>7, <1>8, <1>9, <1>10 DEF Moves

\* Time that passes in a slot, while an interrupt waits or not.
Waits ==
  /\ lag' \in Int /\ 0 <= lag' /\ lag' <= MaxLag[Top]
  /\ IrqPending => lag' = lag + (tim'.cnt - tim.cnt)

LEMMA ElapseWaits ==
  ASSUME TypeOK, InTime, Running, Clocked,
         NEW dt \in Int, dt >= 0, Elapse(dt), tim'.cnt = tim.cnt + dt
  PROVE  Waits
<1>1. /\ IrqPending => lag + dt <= MaxLag[Top]
      /\ lag' = IF IrqPending THEN lag + dt ELSE 0
  BY DEF Clocked, Elapse
<1> QED BY <1>1, SlotNumbers DEF Waits

\* What happens within a slot.
SameTimer ==
  /\ tim'.cen = tim.cen /\ tim'.aoe = tim.aoe
  /\ tim'.uie = tim.uie /\ tim'.uif = tim.uif
  /\ tim'.cc1ie = tim.cc1ie /\ tim'.cc2ie = tim.cc2ie
  /\ tim'.cc2p = tim.cc2p /\ tim'.arr = tim.arr /\ tim'.pwm = tim.pwm
  /\ tim'.cnt \in Int /\ tim.cnt <= tim'.cnt /\ tim'.cnt <= Top

SameDma ==
  /\ dma'.clk = dma.clk /\ dma'.gen = dma.gen
  /\ dma'.cc1de = dma.cc1de /\ dma'.cc2de = dma.cc2de
  /\ dma'.en1 = dma.en1 /\ dma'.en2 = dma.en2
  /\ dma'.n2 = 0 => dma'.tc2

\* The next level is fetched when the pulse ends, if one is left.
NoFetch ==
  /\ tim'.ccr1 = tim.ccr1 /\ dma'.n1 = dma.n1 /\ dma'.tc1 = dma.tc1
  /\ InPulse' => InPulse
  /\ InPulse /\ ~InPulse' => Queued = 0
Fetch ==
  /\ InPulse /\ tim'.cnt = tim.pwm /\ Queued > 0 /\ dma.en1
  /\ tim'.ccr1 = durations[Queued - 1]
  /\ dma'.n1 = dma.n1 - 1
  /\ dma'.tc1 <=> dma.tc1 \/ dma.n1 = 1

Hears ==
  /\ Low' => Low
  /\ hold' => hold \/ InPulse'
  /\ wire'.rises = IF Rise THEN Append(wire.rises, tim'.cnt) ELSE wire.rises
  /\ wire'.pulses = wire.pulses /\ wire'.stuck = wire.stuck
  /\ \A i \in Index : i < Queued' => durations'[i] = durations[i]

Keeps ==
  /\ \/ /\ tim'.moe = tim.moe /\ tim'.bif = tim.bif
        /\ pullup' = pullup /\ conflict' = conflict
     \/ ~NoConflict'
  /\ UNCHANGED <<status, presence, overdrive, call, request, other>>

Within == SameTimer /\ SameDma /\ Waits /\ (NoFetch \/ Fetch) /\ Hears /\ Keeps

\* A capture never overwrites a level that is still to be sent: the edges come
\* after their slots' levels were fetched.
LEMMA CaptureBehind ==
  ASSUME TypeOK, InTime, Running, Clocked, Counted, RxTrack,
         Low, dma.n2 > 0
  PROVE  dma.n2 - 1 >= Queued
<1>1. Edges + 1 <= Slot
  BY DEF Counted, Due
<1>2. /\ dma.n2 \in Int /\ Queued \in Int /\ request.n \in Int
      /\ Edges \in Int
  BY SlotFacts
<1>3. Slot \in Int /\ Slot <= request.n - Queued
  BY SlotByStage
<1>4. Edges = request.n - dma.n2
  BY CaptureFacts
<1> QED BY <1>1, <1>2, <1>3, <1>4

\* So the rest of the buffer stays, whatever the line does.
LEMMA RestStays ==
  ASSUME TypeOK, InTime, Running, Clocked, Counted, RxTrack,
         NEW t, NEW d, NEW h, NEW w, Moves(t, d, h, w),
         d.n2 = dma.n2, Queued' \in Int, Queued' <= Queued
  PROVE  \A i \in Index : i < Queued' => durations'[i] = durations[i]
<1>1. CASE Rise /\ d.n2 > 0
  <2>1. dma.n2 - 1 >= Queued
    BY <1>1, CaptureBehind DEF Rise
  <2>2. durations' = [durations EXCEPT ![dma.n2 - 1] = t.cnt % DmaModulus]
    BY <1>1 DEF Moves
  <2>3. \A i \in Index : i < Queued' => i # dma.n2 - 1
    <3>1. dma.n2 \in Int /\ Queued \in Int
      BY SlotFacts
    <3> QED BY <2>1, <3>1 DEF Index
  <2> QED BY <2>2, <2>3, SlotFacts
<1>2. CASE ~(Rise /\ d.n2 > 0)
  BY <1>2 DEF Moves
<1> QED BY <1>1, <1>2

\* The capture channel stays armed, and ends with its flag set.
LEMMA SameDmaMoves ==
  ASSUME TypeOK, InTime, Running, Clocked,
         NEW t, NEW d, NEW h, NEW w, Moves(t, d, h, w),
         d.clk = dma.clk, d.gen = dma.gen, d.cc1de = dma.cc1de,
         d.cc2de = dma.cc2de, d.en1 = dma.en1, d.en2 = dma.en2,
         d.n2 = dma.n2, d.tc2 = dma.tc2
  PROVE  SameDma
<1>1. dma.n2 \in Int /\ (dma.n2 = 0 => dma.tc2)
  BY SlotNumbers DEF Clocked
<1>2. dma'.n2 = 0 => dma'.tc2
  <2>1. CASE Rise /\ d.n2 > 0
    <3>1. dma'.n2 = dma.n2 - 1 /\ (dma'.tc2 <=> dma.tc2 \/ dma.n2 = 1)
      BY <2>1 DEF Moves
    <3> QED BY <1>1, <3>1
  <2>2. CASE ~(Rise /\ d.n2 > 0)
    <3>1. dma'.n2 = dma.n2 /\ dma'.tc2 = dma.tc2
      BY <2>2 DEF Moves
    <3> QED BY <1>1, <3>1
  <2> QED BY <2>1, <2>2
<1> QED BY <1>2 DEF SameDma, Moves

\* When something happens in a slot.
LEMMA MomentInSlot ==
  ASSUME TypeOK, InTime, Running, Clocked, NEW m \in Moments
  PROVE  /\ m \in Int /\ tim.cnt <= m /\ m <= Top /\ m \in Word
         /\ m - tim.cnt \in Int /\ m - tim.cnt >= 0
         /\ InPulse <=> m < tim.pwm
<1>1. m \in Int /\ m - tim.cnt >= 0 /\ m \in Word
  BY MomentType DEF TypeOK, DrvTypeOK
<1>2. (InPulse => m < tim.pwm) /\ m <= Top
  BY DEF Moments, InPulse, Clocked
<1> QED BY <1>1, <1>2, SlotFacts DEF InPulse

\* The end of a pulse is such a step.  A level is left to be fetched only while
\* the channel feeds the timer.
LEMMA CompareWithin ==
  ASSUME TypeOK, InTime, Running, Clocked, Buffered, Counted, RxTrack,
         HardwareStep, Compare, UNCHANGED other
  PROVE  Within
<1> DEFINE t == [tim EXCEPT !.cnt = tim.pwm, !.cc1if = TRUE]
           u == IF PwmRequestServed(dma) THEN LoadPwm(t, durations[dma.n1 - 1])
                ELSE t
           d == IF PwmRequestServed(dma) THEN PwmTransfer(dma) ELSE dma
<1>1. /\ Settle(u, d, hold, wire) /\ Elapse(tim.pwm - tim.cnt)
      /\ InPulse /\ tim.pwm <= Top
  BY DEF Compare, InPulse, Clocked
<1>2. /\ t \in Tim /\ t.cnt = tim.pwm
      /\ t.cen = tim.cen /\ t.aoe = tim.aoe /\ t.moe = tim.moe
      /\ t.uie = tim.uie /\ t.uif = tim.uif /\ t.bif = tim.bif
      /\ t.cc1ie = tim.cc1ie /\ t.cc2ie = tim.cc2ie
      /\ t.cc2p = tim.cc2p /\ t.arr = tim.arr /\ t.pwm = tim.pwm
      /\ t.ccr1 = tim.ccr1
  BY SlotFacts DEF Tim
<1> HIDE DEF t
<1>3. PwmRequestServed(dma) <=> Queued > 0
  <2>1. ASSUME Queued > 0 PROVE dma.cc1de /\ dma.en1
    BY <2>1 DEF Clocked, Fed, LastAhead, LastBegun, Last, Beyond
  <2> QED BY <2>1, SlotFacts DEF PwmRequestServed, Queued, Clocked
<1>4. ASSUME Queued > 0
      PROVE  /\ dma.en1 /\ dma.n1 = Queued /\ tim.ccr1 \in Levels
             /\ dma.n1 - 1 \in Index
  <2>1. Fed /\ dma.en1 /\ dma.n1 = Queued
    BY <1>4, SlotFacts
       DEF Clocked, Fed, LastAhead, LastBegun, Last, Beyond, Queued
  <2>2. Queued \in 0 .. request.n - 1
    <3>1. /\ Queued \in Int /\ Queued >= 0 /\ Queued < request.n
          /\ request.n \in Int
      BY SlotFacts
    <3> QED BY <3>1
  <2>3. tim.ccr1 \in Levels
    BY <2>1, <2>2, SlotFacts DEF Fed
  <2>4. dma.n1 - 1 \in Index
    BY <1>4, <2>1, SlotNumbers DEF Index
  <2> QED BY <2>1, <2>3, <2>4
<1>5. /\ u \in Tim /\ u.cnt = tim.pwm
      /\ u.cen = tim.cen /\ u.aoe = tim.aoe /\ u.moe = tim.moe
      /\ u.uie = tim.uie /\ u.uif = tim.uif /\ u.bif = tim.bif
      /\ u.cc1ie = tim.cc1ie /\ u.cc2ie = tim.cc2ie
      /\ u.cc2p = tim.cc2p /\ u.arr = tim.arr /\ u.pwm = tim.pwm
      /\ u.ccr1 = IF Queued > 0 THEN durations[Queued - 1] ELSE tim.ccr1
  <2>1. CASE Queued > 0
    <3>1. u = LoadPwm(t, durations[Queued - 1])
      BY <1>3, <1>4, <2>1
    <3>2. durations[Queued - 1] \in 0 .. DmaModulus - 1
      BY <1>4, <2>1, SlotFacts
    <3>3. u \in Tim
      BY <1>2, <3>1, <3>2, LoadPwmType
    <3>4. (tim.ccr1 \div DmaModulus) * DmaModulus = 0
      BY <1>4, <2>1, SlotFacts, DmaModulusValue
    <3>5. u.ccr1 = durations[Queued - 1]
      <4>1. u.ccr1 = (t.ccr1 \div DmaModulus) * DmaModulus
                       + durations[Queued - 1]
        BY <1>2, <3>1 DEF LoadPwm, Tim
      <4> QED BY <1>2, <3>2, <3>4, <4>1, DmaModulusValue
    <3> QED BY <1>2, <2>1, <3>1, <3>3, <3>5 DEF LoadPwm, Tim
  <2>2. CASE ~(Queued > 0)
    BY <1>2, <1>3, <2>2
  <2> QED BY <2>1, <2>2
<1>6. /\ d \in Dma /\ d.clk = dma.clk /\ d.gen = dma.gen
      /\ d.cc1de = dma.cc1de /\ d.cc2de = dma.cc2de
      /\ d.en1 = dma.en1 /\ d.en2 = dma.en2
      /\ d.n2 = dma.n2 /\ d.tc2 = dma.tc2
      /\ d.n1 = IF Queued > 0 THEN dma.n1 - 1 ELSE dma.n1
      /\ d.tc1 = IF Queued > 0 THEN dma.tc1 \/ dma.n1 = 1 ELSE dma.tc1
  <2>1. CASE Queued > 0
    <3>1. d = PwmTransfer(dma) /\ d \in Dma /\ dma \in Dma
      BY <1>3, <2>1, SlotFacts, PwmTransferType
    <3> HIDE DEF d
    <3> QED BY <2>1, <3>1 DEF PwmTransfer, Dma
  <2>2. CASE ~(Queued > 0)
    BY <1>3, <2>2, SlotFacts
  <2> QED BY <2>1, <2>2
<1> HIDE DEF u, d
<1>7. d.clk /\ d.gen /\ d.cc2de /\ d.en2 /\ u.cen /\ u.cc2p = Rising
  BY <1>5, <1>6 DEF Clocked
<1>8. Moves(u, d, hold, wire)
  <2>1. hold \in BOOLEAN /\ wire \in Trace
    BY SlotFacts
  <2>2. u \in Tim /\ d \in Dma
    BY <1>5, <1>6
  <2> QED BY <1>1, <1>7, <2>1, <2>2, LineEffect
<1>9. ~Driving(u) /\ tim'.cnt = tim.pwm /\ tim'.pwm = tim.pwm
  BY <1>5, <1>8, SlotFacts DEF Driving, Moves
<1>10. ~InPulse'
  BY <1>9, SlotFacts DEF InPulse
<1>11. SameTimer
  <2>1. tim.pwm \in Int /\ tim.cnt <= tim.pwm /\ tim.pwm <= Top
    BY <1>1, SlotFacts DEF InPulse
  <2> QED BY <1>5, <1>8, <1>9, <2>1 DEF SameTimer, Moves
<1>12. SameDma
  BY <1>6, <1>8, SameDmaMoves
<1>13. Waits
  <2>1. tim.pwm - tim.cnt >= 0 /\ tim.pwm - tim.cnt \in Int
        /\ tim'.cnt = tim.cnt + (tim.pwm - tim.cnt)
    BY <1>1, <1>9, SlotNumbers DEF InPulse
  <2> QED BY <1>1, <2>1, ElapseWaits
<1>14. NoFetch \/ Fetch
  <2>1. CASE Queued > 0
    BY <1>1, <1>4, <1>5, <1>6, <1>8, <1>9, <2>1 DEF Fetch, Moves
  <2>2. CASE ~(Queued > 0)
    BY <1>1, <1>5, <1>6, <1>8, <1>10, <2>2, SlotFacts DEF NoFetch, Moves
  <2> QED BY <2>1, <2>2
<1>15. Queued' \in Int /\ Queued' <= Queued
  <2>1. dma'.en1 = dma.en1
        /\ dma'.n1 = IF Queued > 0 THEN dma.n1 - 1 ELSE dma.n1
    BY <1>6, <1>8 DEF Moves
  <2> QED BY <2>1, SlotFacts DEF Queued
<1>16. \A i \in Index : i < Queued' => durations'[i] = durations[i]
  BY <1>6, <1>8, <1>15, RestStays
<1>17. Hears
  BY <1>8, <1>9, <1>16 DEF Hears, Moves, Low
<1>18. Keeps
  BY <1>5, <1>8 DEF Keeps, Moves, HardwareStep, drvVars, Compare
<1> QED BY <1>11, <1>12, <1>13, <1>14, <1>17, <1>18 DEF Within

\* So are those that only move the counter and change the line.
LEMMA MomentWithin ==
  ASSUME TypeOK, InTime, Running, Clocked, Counted, RxTrack, NEW m \in Moments,
         NEW t \in Tim, NEW h \in BOOLEAN, Settle(t, dma, h, wire),
         Elapse(m - tim.cnt), t.cnt = m,
         t.cen = tim.cen, t.aoe = tim.aoe, t.uie = tim.uie, t.uif = tim.uif,
         t.cc1ie = tim.cc1ie, t.cc2ie = tim.cc2ie, t.cc2p = tim.cc2p,
         t.arr = tim.arr, t.pwm = tim.pwm, t.ccr1 = tim.ccr1,
         t.moe => tim.moe, h => hold \/ Driving(t),
         tim'.moe = t.moe /\ tim'.bif = t.bif => Keeps
  PROVE  Within
<1>1. t.cen /\ t.cc2p = Rising /\ dma.clk /\ dma.gen /\ dma.cc2de /\ dma.en2
  BY DEF Clocked
<1>2. Moves(t, dma, h, wire)
  BY <1>1, LineEffect, SlotFacts
<1>3. tim'.cnt = m /\ tim'.pwm = tim.pwm /\ (InPulse' <=> InPulse)
  BY <1>2, MomentInSlot DEF Moves, InPulse
<1>4. Driving(t) => Driving(tim) /\ InPulse'
  BY <1>1, <1>2, <1>3, MomentInSlot DEF Driving, InPulse, Moves
<1>5. SameTimer
  BY <1>2, <1>3, MomentInSlot DEF SameTimer, Moves
<1>6. SameDma
  BY <1>2, SameDmaMoves
<1>7. Waits
  <2>1. tim'.cnt = tim.cnt + (m - tim.cnt)
    BY <1>3, MomentInSlot, SlotFacts
  <2> QED BY <2>1, ElapseWaits, MomentInSlot
<1>8. NoFetch
  BY <1>2, <1>3 DEF NoFetch, Moves
<1>9. Queued' = Queued /\ Queued' \in Int
  BY <1>2, SlotFacts DEF Queued, Moves
<1>10. \A i \in Index : i < Queued' => durations'[i] = durations[i]
  BY <1>2, <1>9, RestStays, SlotFacts
<1>11. Hears
  <2>1. Low' => Low
    BY <1>2, <1>4 DEF Moves, Low
  <2>2. wire'.pulses = wire.pulses
    BY <1>2, <1>4 DEF Moves
  <2>3. hold' => hold \/ InPulse'
    BY <1>2, <1>4 DEF Moves
  <2> QED BY <1>2, <1>10, <2>1, <2>2, <2>3 DEF Hears, Moves
<1>12. Keeps
  BY <1>2 DEF Moves
<1> QED BY <1>5, <1>6, <1>7, <1>8, <1>11, <1>12 DEF Within

LEMMA DeviceWithin ==
  ASSUME TypeOK, InTime, ~NoisyBus, Running, Clocked, Counted, RxTrack,
         HardwareStep, NEW m \in Moments, DevicePull(m) \/ DeviceRelease(m),
         UNCHANGED other
  PROVE  Within
<1> DEFINE t == [tim EXCEPT !.cnt = m]
<1>1. PICK h \in BOOLEAN : Settle(t, dma, h, wire) /\ (h => Driving(tim))
  BY DEF DevicePull, DeviceRelease, Running
<1>2. /\ t \in Tim /\ t.cnt = m
      /\ t.cen = tim.cen /\ t.aoe = tim.aoe /\ t.moe = tim.moe
      /\ t.uie = tim.uie /\ t.uif = tim.uif /\ t.bif = tim.bif
      /\ t.cc1ie = tim.cc1ie /\ t.cc2ie = tim.cc2ie
      /\ t.cc2p = tim.cc2p /\ t.arr = tim.arr /\ t.pwm = tim.pwm
      /\ t.ccr1 = tim.ccr1
  BY SlotFacts, MomentInSlot DEF Tim
<1> HIDE DEF t
<1>3. h => hold \/ Driving(t)
  BY <1>1, <1>2, MomentInSlot DEF Driving, InPulse
<1>4. Elapse(m - tim.cnt) /\ UNCHANGED <<pullup, call>>
  BY DEF DevicePull, DeviceRelease
<1>5. tim'.moe = t.moe /\ tim'.bif = t.bif => Keeps
  BY <1>2, <1>4 DEF Keeps, HardwareStep, drvVars
<1> QED BY <1>1, <1>2, <1>3, <1>4, <1>5, MomentWithin

LEMMA PullupWithin ==
  ASSUME TypeOK, InTime, Running, Clocked, Counted, RxTrack,
         PullupStep, NEW m \in Moments, ActivePullupOn(m), UNCHANGED other
  PROVE  Within
<1> DEFINE t == [tim EXCEPT !.cnt = m, !.bif = TRUE, !.moe = FALSE]
<1>1. Settle(t, dma, hold, wire) /\ Elapse(m - tim.cnt)
  BY DEF ActivePullupOn
<1>2. /\ t \in Tim /\ t.cnt = m
      /\ t.cen = tim.cen /\ t.aoe = tim.aoe /\ ~t.moe
      /\ t.uie = tim.uie /\ t.uif = tim.uif
      /\ t.cc1ie = tim.cc1ie /\ t.cc2ie = tim.cc2ie
      /\ t.cc2p = tim.cc2p /\ t.arr = tim.arr /\ t.pwm = tim.pwm
      /\ t.ccr1 = tim.ccr1
  BY SlotFacts, MomentInSlot DEF Tim
<1> HIDE DEF t
<1>3. Keeps
  BY DEF Keeps, PullupStep, ActivePullupOn, NoConflict
<1> QED BY <1>1, <1>2, <1>3, MomentWithin, SlotFacts

\* A new slot begins.
NewSlot ==
  /\ ~InPulse /\ (Low <=> hold)
  /\ (Fed /\ Queued > 0) \/ LastAhead \/ Last \/ Beyond
  /\ tim'.cnt = 0 /\ tim'.uif /\ tim'.pwm = tim.ccr1
  /\ tim'.moe <=> tim.moe \/ ~pullup
  /\ tim'.cen = tim.cen /\ tim'.aoe = tim.aoe /\ tim'.uie = tim.uie
  /\ tim'.cc1ie = tim.cc1ie /\ tim'.cc2ie = tim.cc2ie
  /\ tim'.cc2p = tim.cc2p /\ tim'.arr = tim.arr
  /\ tim'.ccr1 = tim.ccr1 /\ tim'.bif = tim.bif
  /\ lag' \in Int /\ 0 <= lag' /\ lag' <= MaxLag[Top]
  /\ Low' <=> (tim'.moe /\ 0 < tim.ccr1) \/ hold
  /\ wire'.pulses = IF tim'.moe /\ 0 < tim.ccr1
                    THEN Append(wire.pulses, tim.ccr1) ELSE wire.pulses
  /\ wire'.rises = wire.rises
  /\ wire'.stuck = (wire.stuck \/ hold)
  /\ dma'.clk = dma.clk /\ dma'.gen = dma.gen
  /\ dma'.cc1de = dma.cc1de /\ dma'.cc2de = dma.cc2de
  /\ dma'.en1 = dma.en1 /\ dma'.n1 = dma.n1 /\ dma'.tc1 = dma.tc1
  /\ dma'.en2 = dma.en2 /\ dma'.n2 = dma.n2 /\ dma'.tc2 = dma.tc2
  /\ UNCHANGED <<durations, pullup, hold, conflict, other>>
  /\ UNCHANGED <<status, presence, overdrive, call, request>>

LEMMA OverflowNewSlot ==
  ASSUME TypeOK, InTime, Running, Clocked, Overflow, HardwareStep,
         UNCHANGED other
  PROVE  NewSlot
<1> DEFINE t == UpdateEvent(tim, pullup)
           w == [wire EXCEPT !.stuck = wire.stuck \/ hold]
<1>1. /\ Settle(t, dma, hold, w) /\ Elapse(Top + 1 - tim.cnt)
      /\ ~InPulse
      /\ UNCHANGED <<pullup, call>>
  <2>1. tim.arr = Top
    BY DEF Clocked
  <2>2. tim.cnt >= tim.pwm \/ tim.pwm > Top
    BY <2>1 DEF Overflow
  <2>3. tim.cnt \in Int /\ tim.pwm \in Int /\ Top \in Int
    BY SlotFacts
  <2>4. tim.pwm <= Top \/ ~InPulse
    BY SlotByStage
  <2>5. ~InPulse
    BY <2>2, <2>3, <2>4 DEF InPulse
  <2>6. /\ Settle(t, dma, hold, w) /\ Elapse(tim.arr + 1 - tim.cnt)
        /\ UNCHANGED <<pullup, call>>
    BY DEF Overflow
  <2> QED BY <2>1, <2>5, <2>6
<1>2. /\ IrqPending => lag + (Top + 1 - tim.cnt) <= MaxLag[Top]
      /\ lag' = IF IrqPending THEN lag + (Top + 1 - tim.cnt) ELSE 0
  BY <1>1 DEF Elapse, Clocked
<1>3. lag' \in Int /\ 0 <= lag' /\ lag' <= MaxLag[Top]
  <2>1. /\ lag \in Int /\ 0 <= lag /\ tim.cnt \in Int /\ tim.cnt <= Top
        /\ Top \in Int /\ MaxLag[Top] \in Int /\ 0 <= MaxLag[Top]
    BY SlotFacts
  <2> QED BY <1>2, <2>1
<1>4. (Fed /\ Queued > 0) \/ LastAhead \/ Last \/ Beyond
  <2>0. /\ tim.cnt \in Int /\ tim.pwm \in Int /\ lag \in Int
        /\ Top \in Int /\ MaxLag[Top] \in Int
    BY SlotFacts
  <2>1. ASSUME Fed, Queued = 0 PROVE FALSE
    <3>1. /\ dma.tc1 /\ tim.cnt - tim.pwm <= lag
          /\ dma.clk /\ dma.en1 /\ tim.pwm \in Levels
      BY <2>1 DEF Fed, Clocked
    <3>2. IrqPending
      BY <3>1 DEF IrqPending, PwmDmaPending
    <3>3. tim.pwm + MaxLag[Top] <= Top
      BY <3>1, SlotFacts
    <3> QED BY <1>2, <2>0, <3>1, <3>2, <3>3
  <2>2. ASSUME LastBegun PROVE FALSE
    <3>1. tim.uie /\ tim.uif /\ tim.cnt <= lag /\ tim.pwm \in Levels
      BY <2>2 DEF LastBegun
    <3>2. IrqPending
      BY <3>1 DEF IrqPending, OverflowPending
    <3>3. 0 < tim.pwm /\ tim.pwm + MaxLag[Top] <= Top
      BY <3>1, SlotFacts
    <3> QED BY <1>2, <2>0, <3>1, <3>2, <3>3
  <2>3. Queued > 0 \/ Queued = 0
    BY SlotFacts
  <2> QED BY <2>1, <2>2, <2>3 DEF Clocked
<1>5. /\ t.cnt = 0 /\ t.uif /\ t.pwm = tim.ccr1
      /\ t.moe <=> tim.moe \/ ~pullup
      /\ t.cen = tim.cen /\ t.aoe = tim.aoe
      /\ t.uie = tim.uie /\ t.bif = tim.bif
      /\ t.cc1ie = tim.cc1ie /\ t.cc2ie = tim.cc2ie
      /\ t.cc2p = tim.cc2p
      /\ t.arr = tim.arr /\ t.ccr1 = tim.ccr1
  BY SlotFacts DEF UpdateEvent, Tim, Clocked
<1>6. t \in Tim
  <2>1. 0 \in Word /\ 0 \in Flag
    BY WordIsInt DEF Flag
  <2> QED BY SlotFacts, <2>1, TimValueOps
<1>7. /\ w \in Trace /\ w.pulses = wire.pulses /\ w.rises = wire.rises
      /\ w.stuck = (wire.stuck \/ hold)
  BY SlotFacts DEF Trace
<1> HIDE DEF t, w
<1>8. ~Driving(tim) /\ (Driving(t) <=> t.moe /\ 0 < tim.ccr1)
  BY <1>1, <1>5 DEF Driving, InPulse, Clocked
<1>9. /\ dma.clk /\ dma.gen /\ dma.cc2de /\ dma.en2
      /\ t.cen /\ t.cc2p = Rising
  BY <1>5 DEF Clocked
<1>10. Moves(t, dma, hold, w)
  BY <1>1, <1>6, <1>7, <1>9, LineEffect, SlotFacts
<1>11. ~Rise /\ (Low <=> hold)
  BY <1>8, <1>10 DEF Moves, Rise, Low
<1>12. UNCHANGED <<status, presence, overdrive, request, conflict>>
  BY DEF HardwareStep, drvVars
<1>13. /\ dma'.clk = dma.clk /\ dma'.gen = dma.gen
       /\ dma'.cc1de = dma.cc1de /\ dma'.cc2de = dma.cc2de
       /\ dma'.en1 = dma.en1 /\ dma'.n1 = dma.n1 /\ dma'.tc1 = dma.tc1
       /\ dma'.en2 = dma.en2 /\ dma'.n2 = dma.n2 /\ dma'.tc2 = dma.tc2
       /\ durations' = durations /\ hold' = hold
  BY <1>10, <1>11 DEF Moves
<1>14. /\ tim'.cnt = 0 /\ tim'.uif /\ tim'.pwm = tim.ccr1
       /\ tim'.moe <=> tim.moe \/ ~pullup
       /\ tim'.cen = tim.cen /\ tim'.aoe = tim.aoe /\ tim'.uie = tim.uie
       /\ tim'.cc1ie = tim.cc1ie /\ tim'.cc2ie = tim.cc2ie
       /\ tim'.cc2p = tim.cc2p /\ tim'.arr = tim.arr
       /\ tim'.ccr1 = tim.ccr1 /\ tim'.bif = tim.bif
       /\ tim'.moe = t.moe
  BY <1>5, <1>10 DEF Moves
<1>15. /\ Low' <=> (tim'.moe /\ 0 < tim.ccr1) \/ hold
       /\ wire'.pulses = IF tim'.moe /\ 0 < tim.ccr1
                         THEN Append(wire.pulses, tim.ccr1) ELSE wire.pulses
       /\ wire'.rises = wire.rises
       /\ wire'.stuck = (wire.stuck \/ hold)
  BY <1>5, <1>7, <1>8, <1>10, <1>11, <1>14 DEF Moves
<1> QED BY <1>1, <1>3, <1>4, <1>11, <1>12, <1>13, <1>14, <1>15 DEF NewSlot

-----------------------------------------------------------------------------
\* A step within a slot changes nothing of the request ...
LEMMA WithinFrame ==
  ASSUME Within
  PROVE  /\ (Running' <=> Running) /\ Top' = Top /\ Levels' = Levels
         /\ \A b : Level(b)' = Level(b)
         /\ \A q : Fetched(q)' = Fetched(q)
         /\ Slots' = Slots /\ request' = request
         /\ wire'.pulses = wire.pulses /\ wire'.stuck = wire.stuck
         /\ NoConflict' => /\ NoConflict /\ pullup' = pullup
                           /\ tim'.moe = tim.moe /\ tim'.bif = tim.bif
BY DEF Within, Keeps, Hears, Running, Top, Level, Levels, Fetched, Slots,
   NoConflict

\* ... one transfer fewer is left if it fetched a level ...
LEMMA WithinQueued ==
  ASSUME TypeOK, InTime, Running, Clocked, Within
  PROVE  /\ Queued' \in Int
         /\ Fetch => Queued' = Queued - 1 /\ dma.n1 = Queued /\ ~InPulse'
         /\ NoFetch => Queued' = Queued
         /\ InPulse' => InPulse
<1>1. dma'.en1 = dma.en1 /\ tim'.pwm = tim.pwm
  BY DEF Within, SameDma, SameTimer
<1>2. ASSUME Fetch
      PROVE  Queued' = Queued - 1 /\ dma.n1 = Queued /\ ~InPulse'
  <2>1. dma.en1 /\ dma'.n1 = dma.n1 - 1 /\ tim'.cnt = tim.pwm
    BY <1>2 DEF Fetch
  <2>2. ~InPulse'
    BY <1>1, <2>1, SlotNumbers DEF InPulse
  <2> QED BY <1>1, <2>1, <2>2 DEF Queued
<1>3. ASSUME NoFetch PROVE Queued' = Queued /\ (InPulse' => InPulse)
  BY <1>1, <1>3 DEF NoFetch, Queued
<1> QED BY <1>2, <1>3, SlotNumbers DEF Within

\* ... and the exchange stays in its stage.
LEMMA WithinStage ==
  ASSUME TypeOK, InTime, Running, Clocked, Buffered, Within
  PROVE  /\ Fed => Fed'
         /\ LastAhead => LastAhead'
         /\ LastBegun => LastBegun'
         /\ Last => Last'
         /\ Beyond => Beyond'
<1>1. /\ tim'.uie = tim.uie /\ tim'.uif = tim.uif /\ tim'.pwm = tim.pwm
      /\ dma'.clk = dma.clk /\ dma'.en1 = dma.en1 /\ dma'.cc1de = dma.cc1de
      /\ tim'.cnt \in Int /\ tim.cnt <= tim'.cnt
      /\ lag' \in Int /\ 0 <= lag'
      /\ IrqPending => lag' = lag + (tim'.cnt - tim.cnt)
      /\ wire'.stuck = wire.stuck
      /\ NoFetch \/ Fetch
  BY DEF Within, SameTimer, SameDma, Waits, Hears
<1>2. Levels' = Levels /\ \A q : Fetched(q)' = Fetched(q)
  BY WithinFrame
<1>3. /\ tim.cnt \in Int /\ tim.pwm \in Int /\ Queued \in Int /\ Queued >= 0
      /\ lag \in Int /\ dma.clk /\ request.n \in Int /\ Queued < request.n
      /\ request.n >= 1 /\ request.n <= 8 /\ 0 <= tim.cnt
  BY SlotNumbers DEF Clocked
<1>4. ASSUME Fed PROVE Fed'
  <2>1. /\ ~tim.uie /\ tim.ccr1 = Fetched(Queued) /\ dma.en1 /\ dma.cc1de
        /\ tim.pwm \in Levels /\ (InPulse => Queued > 0)
        /\ Queued > 0 => ~dma.tc1
        /\ Queued = 0 => dma.tc1 /\ tim.cnt - tim.pwm <= lag
    BY <1>4 DEF Fed
  <2>2. CASE NoFetch
    <3>1. /\ Queued' = Queued /\ (InPulse' => InPulse)
          /\ tim'.ccr1 = tim.ccr1 /\ dma'.tc1 = dma.tc1
      BY <2>2, WithinQueued DEF NoFetch
    <3>2. Queued = 0 => tim'.cnt - tim'.pwm <= lag'
      <4>1. Queued = 0 => IrqPending
        BY <1>3, <2>1 DEF IrqPending, PwmDmaPending
      <4> QED BY <1>1, <1>3, <2>1, <4>1
    <3>3. Fetched(Queued)' = Fetched(Queued)
      BY <1>2, <3>1 DEF Fetched
    <3> QED BY <1>1, <1>2, <2>1, <3>1, <3>2, <3>3 DEF Fed
  <2>3. CASE Fetch
    <3>1. /\ Queued' = Queued - 1 /\ dma.n1 = Queued /\ ~InPulse'
          /\ Queued > 0 /\ tim'.cnt = tim.pwm
          /\ tim'.ccr1 = durations[Queued - 1]
          /\ dma'.tc1 <=> dma.tc1 \/ dma.n1 = 1
      BY <2>3, WithinQueued DEF Fetch
    <3>2. Queued - 1 \in Index /\ Queued - 1 < Queued
      BY <1>3, <3>1 DEF Index
    <3>3. durations[Queued - 1] = Fetched(Queued - 1)
      BY <3>2 DEF Buffered, Fetched
    <3>4. Fetched(Queued)' = Fetched(Queued - 1)
      BY <3>1, WithinFrame DEF Fetched
    <3>5. Queued' > 0 => ~dma'.tc1
      BY <1>3, <2>1, <3>1
    <3>6. Queued' = 0 => dma'.tc1 /\ tim'.cnt - tim'.pwm <= lag'
      BY <1>1, <1>3, <3>1
    <3> QED BY <1>1, <1>2, <2>1, <3>1, <3>3, <3>4, <3>5, <3>6 DEF Fed
  <2> QED BY <1>1, <2>2, <2>3
<1>5. ASSUME Queued = 0
      PROVE  /\ Queued' = 0 /\ (InPulse' => InPulse)
             /\ tim'.ccr1 = tim.ccr1
             /\ PwmDmaPending' <=> PwmDmaPending
             /\ Fetched(0)' = Fetched(0)
  <2>1. ~Fetch
    BY <1>5, <1>3 DEF Fetch
  <2>2. NoFetch
    BY <1>1, <2>1
  <2> QED BY <1>1, <1>2, <1>5, <2>2, WithinQueued DEF NoFetch, PwmDmaPending
<1>6. ASSUME LastAhead PROVE LastAhead'
  BY <1>1, <1>5, <1>6 DEF LastAhead
<1>7. ASSUME LastBegun PROVE LastBegun'
  <2>1. IrqPending /\ tim.cnt <= lag
    BY <1>7 DEF LastBegun, IrqPending, OverflowPending
  <2>2. tim'.cnt <= lag'
    BY <1>1, <1>3, <2>1
  <2> QED BY <1>1, <1>2, <1>5, <1>7, <2>2 DEF LastBegun
<1>8. ASSUME Last PROVE Last'
  BY <1>1, <1>2, <1>5, <1>8 DEF Last
<1>9. ASSUME Beyond PROVE Beyond'
  <2>1. tim.pwm = 0 /\ (hold => wire.stuck)
    BY <1>9 DEF Beyond
  <2>2. ~InPulse'
    BY <1>1, <1>3, <2>1 DEF InPulse
  <2>3. hold' => wire'.stuck
    BY <1>1, <2>1, <2>2 DEF Within, Hears
  <2> QED BY <1>1, <1>5, <1>9, <2>3 DEF Beyond
<1> QED BY <1>4, <1>6, <1>7, <1>8, <1>9

\* So the slot is the same, by the stage.
LEMMA WithinSlot ==
  ASSUME TypeOK, InTime, Running, Clocked, Buffered, Within
  PROVE  Slot' = Slot
<1>1. /\ tim'.uie = tim.uie /\ tim'.uif = tim.uif
      /\ request' = request /\ (NoFetch \/ Fetch)
  BY DEF Within, SameTimer, Keeps
<1>2. CASE Fed
  <2>1. ~tim.uie /\ ~tim'.uie /\ (InPulse => Queued > 0)
    BY <1>1, <1>2 DEF Fed
  <2>2. CASE NoFetch
    <3>1. InPulse' <=> InPulse
      BY <2>1, <2>2, SlotNumbers DEF NoFetch
    <3> QED BY <1>1, <2>1, <2>2, <3>1, WithinQueued DEF Slot
  <2>3. CASE Fetch
    <3>1. InPulse /\ ~InPulse' /\ Queued' = Queued - 1
      BY <2>3, WithinQueued DEF Fetch
    <3>2. Slot = request.n - Queued /\ Slot' = request.n - 1 - (Queued - 1)
      BY <1>1, <2>1, <3>1 DEF Slot
    <3> QED BY <3>2, SlotNumbers
  <2> QED BY <1>1, <2>2, <2>3
<1>3. CASE ~Fed
  <2>1. LastAhead \/ LastBegun \/ Last \/ Beyond
    BY <1>3 DEF Clocked
  <2>2. Queued = 0 /\ tim.uie
    BY <2>1 DEF LastAhead, LastBegun, Last, Beyond
  <2>3. NoFetch
    BY <1>1, <2>2, SlotNumbers DEF Fetch
  <2>4. /\ tim'.ccr1 = tim.ccr1 /\ Queued' = 0
        /\ InPulse' => InPulse
    BY <2>2, <2>3, WithinQueued DEF NoFetch
  <2>5. CASE tim.uif \/ tim.ccr1 = 0
    BY <1>1, <2>2, <2>4, <2>5 DEF Slot
  <2>6. CASE ~(tim.uif \/ tim.ccr1 = 0)
    <3>1. ~InPulse
      BY <2>1, <2>6 DEF LastAhead, LastBegun, Last, Beyond
    <3> QED BY <1>1, <2>2, <2>4, <2>6, <3>1 DEF Slot
  <2> QED BY <2>5, <2>6
<1> QED BY <1>2, <1>3

LEMMA WithinSafe ==
  ASSUME TypeOK, InTime, Running, Paced, Within
  PROVE  Paced'
<1>1. /\ ~other /\ Clocked /\ Buffered /\ Counted
      /\ NoExtraPulse /\ SentInOrder
  BY DEF Paced
<1>2. /\ Running' /\ Top' = Top /\ Slots' = Slots /\ request' = request
      /\ \A b : Level(b)' = Level(b)
      /\ wire'.pulses = wire.pulses /\ wire'.stuck = wire.stuck
      /\ NoConflict' => /\ NoConflict /\ pullup' = pullup
                        /\ tim'.moe = tim.moe /\ tim'.bif = tim.bif
  BY WithinFrame
<1>3. /\ UNCHANGED <<status, presence, overdrive, call, request, other>>
  BY DEF Within, Keeps
<1>4. Clocked'
  <2>1. Queued' < request.n
    BY <1>1, WithinQueued, SlotNumbers DEF Within
  <2>2. lag' <= MaxLag[Top]
    BY DEF Within, Waits
  <2>3. Fed' \/ LastAhead' \/ LastBegun' \/ Last' \/ Beyond'
    BY <1>1, WithinStage DEF Clocked
  <2> QED BY <1>1, <1>2, <1>3, <2>1, <2>2, <2>3
          DEF Clocked, Within, SameTimer, SameDma
<1>5. Buffered'
  <2>1. Queued' <= Queued /\ Queued' \in Int /\ Queued \in Int
    BY <1>1, WithinQueued, SlotNumbers DEF Within
  <2>2. ASSUME NEW i \in Index, i < Queued'
        PROVE  durations'[i] = Level(request.bits[request.n - 1 - i])
    <3>1. i < Queued
      BY <2>1, <2>2 DEF Index
    <3> QED BY <1>1, <2>2, <3>1 DEF Buffered, Within, Hears
  <2> QED BY <1>2, <2>2 DEF Buffered
<1>6. Counted'
  <2>1. Slot' = Slot /\ Slot \in Int
    BY <1>1, WithinSlot, SlotByStage
  <2>2. Edges' + Due' = Edges + Due
    <3>1. Edges \in Int /\ wire.rises \in Seq(Word) /\ (Low' => Low)
      BY <1>1, SlotFacts DEF Within, Hears
    <3>2. wire'.rises = IF Rise THEN Append(wire.rises, tim'.cnt)
                        ELSE wire.rises
      BY DEF Within, Hears
    <3>3. CASE Rise
      <4>1. Edges' = Edges + 1 /\ Low /\ ~Low'
        BY <3>1, <3>2, <3>3 DEF Edges, Rise
      <4> QED BY <3>1, <4>1 DEF Due
    <3>4. CASE ~Rise
      <4>1. Edges' = Edges /\ (Low <=> Low')
        BY <3>1, <3>2, <3>4 DEF Edges, Rise
      <4> QED BY <4>1 DEF Due
    <3> QED BY <3>3, <3>4
  <2> QED BY <1>1, <1>2, <2>1, <2>2 DEF Counted
<1>7. NoExtraPulse' /\ SentInOrder' /\ NoSpuriousError'
  <2>1. status' # Op!ERROR
    BY <1>2, OpStatus DEF Running
  <2> QED BY <1>1, <1>2, <1>3, <2>1 DEF NoExtraPulse, SentInOrder,
          NoSpuriousError
<1> QED BY <1>1, <1>3, <1>4, <1>5, <1>6, <1>7 DEF Paced

-----------------------------------------------------------------------------
\* A new slot sends the next bit, or comes after the last one.
NextBit ==
  /\ Slot' = Slot + 1 /\ Slot \in 0 .. request.n - 1
  /\ tim.ccr1 = Level(request.bits[Slot]) /\ 0 < tim.ccr1
  /\ Fed' \/ LastBegun'
NoBit ==
  /\ Slot' = Slot /\ Slot = request.n /\ tim.ccr1 = 0
  /\ Beyond'

LEMMA NewSlotFrame ==
  ASSUME NewSlot
  PROVE  /\ (Running' <=> Running) /\ Top' = Top /\ Levels' = Levels
         /\ \A b : Level(b)' = Level(b)
         /\ \A q : Fetched(q)' = Fetched(q)
         /\ Queued' = Queued /\ (PwmDmaPending' <=> PwmDmaPending)
         /\ (NoConflict' <=> NoConflict)
BY DEF NewSlot, Running, Top, Level, Levels, Fetched, Queued, NoConflict,
   PwmDmaPending

LEMMA NewSlotStage ==
  ASSUME TypeOK, InTime, Running, Clocked, NewSlot
  PROVE  NextBit \/ NoBit
<1>1. /\ Queued \in Int /\ Queued >= 0 /\ Queued < request.n
      /\ request.n \in Int /\ request.n <= 8 /\ tim.ccr1 \in Int
  BY SlotNumbers
<1>2. /\ ~InPulse /\ tim'.cnt = 0 /\ tim'.uif /\ tim'.pwm = tim.ccr1
      /\ tim'.uie = tim.uie /\ tim'.ccr1 = tim.ccr1
      /\ dma'.cc1de = dma.cc1de /\ dma'.en1 = dma.en1 /\ dma'.tc1 = dma.tc1
      /\ lag' \in Int /\ 0 <= lag' /\ hold' = hold
      /\ wire'.stuck = (wire.stuck \/ hold) /\ request' = request
  BY DEF NewSlot
<1>3. /\ Levels' = Levels /\ Queued' = Queued
      /\ PwmDmaPending' <=> PwmDmaPending
      /\ \A q : Fetched(q)' = Fetched(q)
  BY NewSlotFrame
<1>4. ASSUME NEW q \in 0 .. request.n - 1, tim.ccr1 = Fetched(q)
      PROVE  tim.ccr1 \in Levels /\ 0 < tim.ccr1
  BY <1>4, SlotFacts
<1>5. CASE Fed /\ Queued > 0
  <2>1. /\ ~tim.uie /\ tim.ccr1 = Fetched(Queued) /\ dma.en1 /\ dma.cc1de
        /\ ~dma.tc1
    BY <1>5 DEF Fed
  <2>2. tim.ccr1 \in Levels /\ 0 < tim.ccr1
    BY <1>1, <1>4, <2>1
  <2>3. InPulse'
    BY <1>2, <2>2 DEF InPulse
  <2>4. Slot = request.n - 1 - Queued /\ Slot' = request.n - Queued
    BY <1>2, <1>3, <2>1, <2>3 DEF Slot
  <2>5. Fetched(Queued)' = Fetched(Queued)
    BY <1>2, <1>3, NewSlotFrame DEF Fetched
  <2>6. Fed'
    BY <1>2, <1>3, <1>5, <2>1, <2>2, <2>3, <2>5 DEF Fed
  <2>7. tim.ccr1 = Level(request.bits[Slot])
    BY <2>1, <2>4 DEF Fetched
  <2>8. Slot' = Slot + 1 /\ Slot \in 0 .. request.n - 1
    BY <1>1, <2>4
  <2> QED BY <2>2, <2>6, <2>7, <2>8 DEF NextBit
<1>6. CASE LastAhead
  <2>1. /\ tim.uie /\ Queued = 0 /\ ~PwmDmaPending /\ tim.ccr1 = Fetched(0)
    BY <1>6 DEF LastAhead
  <2>2. tim.ccr1 \in Levels /\ 0 < tim.ccr1
    BY <1>1, <1>4, <2>1
  <2>3. LastBegun'
    BY <1>2, <1>3, <2>1, <2>2 DEF LastBegun
  <2>4. Slot = request.n - 1
    BY <1>6, SlotByStage
  <2>5. Slot' = request.n
    BY <1>2, <2>1 DEF Slot
  <2>6. tim.ccr1 = Level(request.bits[Slot])
    BY <1>1, <2>1, <2>4 DEF Fetched
  <2>7. Slot' = Slot + 1 /\ Slot \in 0 .. request.n - 1
    BY <1>1, <2>4, <2>5
  <2> QED BY <2>2, <2>3, <2>6, <2>7 DEF NextBit
<1>7. CASE Last \/ Beyond
  <2>1. tim.uie /\ Queued = 0 /\ ~PwmDmaPending /\ tim.ccr1 = 0
    BY <1>7 DEF Last, Beyond
  <2>2. Beyond'
    BY <1>2, <1>3, <2>1 DEF Beyond
  <2>3. Slot = request.n /\ Slot' = request.n
    BY <1>2, <2>1 DEF Slot
  <2> QED BY <2>1, <2>2, <2>3 DEF NoBit
<1> QED BY <1>5, <1>6, <1>7 DEF NewSlot

\* So the invariant holds when a slot begins.
LEMMA NewSlotSafe ==
  ASSUME TypeOK, InTime, Running, Paced, NewSlot
  PROVE  Paced'
<1>1. /\ ~other /\ Clocked /\ Buffered /\ Counted
      /\ NoExtraPulse /\ SentInOrder
  BY DEF Paced
<1>2. /\ Running' /\ Top' = Top /\ Queued' = Queued
      /\ \A b : Level(b)' = Level(b)
      /\ NoConflict' <=> NoConflict
  BY NewSlotFrame
<1>3. /\ UNCHANGED <<status, presence, overdrive, call, request, other>>
      /\ UNCHANGED <<durations, pullup>>
      /\ tim'.bif = tim.bif /\ (tim'.moe <=> tim.moe \/ ~pullup)
      /\ wire'.stuck = (wire.stuck \/ hold) /\ wire'.rises = wire.rises
      /\ (Low <=> hold) /\ (Low' <=> (tim'.moe /\ 0 < tim.ccr1) \/ hold)
      /\ wire'.pulses = IF tim'.moe /\ 0 < tim.ccr1
                        THEN Append(wire.pulses, tim.ccr1) ELSE wire.pulses
  BY DEF NewSlot
<1>4. NextBit \/ NoBit
  BY <1>1, NewSlotStage
<1>5. ~wire'.stuck => ~wire.stuck /\ ~hold
  BY <1>3
<1>6. Clocked'
  <2>1. Fed' \/ LastAhead' \/ LastBegun' \/ Last' \/ Beyond'
    BY <1>4 DEF NextBit, NoBit
  <2> QED BY <1>1, <1>2, <1>3, <2>1 DEF Clocked, NewSlot
<1>7. Buffered'
  BY <1>1, <1>2, <1>3 DEF Buffered
<1>8. /\ wire.pulses \in Seq(Word) /\ Slots \in Int /\ Slots >= 0
      /\ Edges \in Int /\ Slot \in Int /\ request.n \in Int
  BY <1>1, SlotFacts, SlotNumbers, SlotByStage
<1>9. /\ Edges' = Edges
      /\ Slots' = IF tim'.moe /\ 0 < tim.ccr1 THEN Slots + 1 ELSE Slots
  BY <1>3, <1>8 DEF Edges, Slots
<1>10. Counted' /\ Slots' <= request.n
  <2>1. /\ Slots <= Slot /\ Edges + Due <= Slot
        /\ NoConflict => tim.moe /\ ~pullup /\ ~tim.bif /\ Slots = Slot
        /\ NoConflict /\ ~wire.stuck => Edges + Due = Slot
    BY <1>1 DEF Counted
  <2>2. /\ Due = IF hold THEN 1 ELSE 0
        /\ Due' = IF (tim'.moe /\ 0 < tim.ccr1) \/ hold THEN 1 ELSE 0
    BY <1>3 DEF Due
  <2>3. NoConflict' => tim'.moe /\ ~pullup' /\ ~tim'.bif
    BY <1>2, <1>3, <2>1
  <2>4. CASE NextBit
    <3>1. Slot' = Slot + 1 /\ Slot < request.n /\ 0 < tim.ccr1
      BY <1>8, <2>4 DEF NextBit
    <3>2. Slots' <= Slot' /\ Edges' + Due' <= Slot' /\ Slots' <= request.n
      BY <1>8, <1>9, <2>1, <2>2, <3>1
    <3>3. NoConflict' => Slots' = Slot'
      BY <1>2, <1>8, <1>9, <2>1, <2>3, <3>1
    <3>4. NoConflict' /\ ~wire'.stuck => Edges' + Due' = Slot'
      <4>1. Edges + 1 = Slot + 1 <=> Edges = Slot
        BY <1>8
      <4>2. NoConflict' /\ ~wire'.stuck => Edges = Slot /\ Due' = 1
        BY <1>2, <1>8, <1>5, <2>1, <2>2, <2>3, <3>1
      <4> QED BY <1>9, <3>1, <4>1, <4>2
    <3> QED BY <2>3, <3>2, <3>3, <3>4 DEF Counted
  <2>5. CASE NoBit
    <3>1. Slot' = Slot /\ Slot = request.n /\ tim.ccr1 = 0
      BY <2>5 DEF NoBit
    <3>2. Slots' = Slots /\ Due' = Due
      BY <1>9, <2>2, <3>1
    <3>4. NoConflict' /\ ~wire'.stuck => Edges' + Due' = Slot'
      BY <1>2, <1>9, <1>5, <2>1, <3>1, <3>2
    <3> QED BY <1>2, <1>9, <2>1, <2>3, <3>1, <3>2, <3>4 DEF Counted
  <2> QED BY <1>4, <2>4, <2>5
<1>11. SentInOrder'
  <2>1. SUFFICES ASSUME NoConflict, NEW k \in 1 .. Slots', k <= request.n
                 PROVE  wire'.pulses[k] = Level(request.bits[k - 1])
    BY <1>2, <1>3, OpStatus DEF SentInOrder, Slots, Level, Running
  <2>2. \A j \in 1 .. Slots :
          j <= request.n => wire.pulses[j] = Level(request.bits[j - 1])
    BY <1>1, <2>1 DEF SentInOrder, Slots, Level, Running
  <2>3. CASE k <= Slots
    <3>1. k \in 1 .. Len(wire.pulses) /\ k \in 1 .. Slots
      BY <1>8, <1>9, <2>3 DEF Slots
    <3>2. wire'.pulses[k] = wire.pulses[k]
      BY <1>3, <1>8, <3>1
    <3> QED BY <2>1, <2>2, <3>1, <3>2
  <2>4. CASE ~(k <= Slots)
    <3>1. k = Slots + 1 /\ tim'.moe /\ 0 < tim.ccr1
      BY <1>8, <1>9, <2>1, <2>4
    <3>2. wire'.pulses[k] = tim.ccr1
      BY <1>3, <1>8, <3>1 DEF Slots
    <3>3. tim.ccr1 = Level(request.bits[Slot])
      BY <1>4, <3>1, <1>8 DEF NextBit, NoBit
    <3>4. k - 1 = Slot
      BY <1>1, <1>8, <2>1, <3>1 DEF Counted
    <3> QED BY <3>2, <3>3, <3>4
  <2> QED BY <2>3, <2>4
<1>12. NoExtraPulse' /\ NoSpuriousError'
  BY <1>2, <1>3, <1>10, OpStatus
     DEF NoExtraPulse, NoSpuriousError, Slots, Running
<1> QED BY <1>1, <1>3, <1>6, <1>7, <1>10, <1>11, <1>12 DEF Paced

-----------------------------------------------------------------------------
\* A handler touches neither the line nor the history.
Serves ==
  /\ UNCHANGED <<durations, pullup, hold, call, wire>>
  /\ UNCHANGED <<overdrive, request, conflict, presence, other>>

\* The timer and the rest of DMA are as they were.
Untouched ==
  /\ tim'.cen = tim.cen /\ tim'.aoe = tim.aoe /\ tim'.moe = tim.moe
  /\ tim'.cc1ie = tim.cc1ie /\ tim'.cc2ie = tim.cc2ie
  /\ tim'.bif = tim.bif /\ tim'.cc2p = tim.cc2p /\ tim'.arr = tim.arr
  /\ tim'.pwm = tim.pwm /\ tim'.cnt = tim.cnt
  /\ dma'.clk = dma.clk /\ dma'.gen = dma.gen
  /\ dma'.cc1de = dma.cc1de /\ dma'.cc2de = dma.cc2de
  /\ dma'.en1 = dma.en1 /\ dma'.n1 = dma.n1
  /\ dma'.en2 = dma.en2 /\ dma'.n2 = dma.n2 /\ dma'.tc2 = dma.tc2
  /\ status' = status /\ lag' = 0

\* The handler of the last transfer arms the watch over the last bit; the
\* watch loads the level of no pulse.
Watches == ~dma'.tc1 /\ tim'.uie /\ ~tim'.uif /\ tim'.ccr1 = tim.ccr1
Silences == dma'.tc1 = dma.tc1 /\ tim'.uie /\ ~tim'.uif /\ tim'.ccr1 = 0

\* Both go on to the next stage of the same slot.
LEMMA ServedStage ==
  ASSUME TypeOK, InTime, Running, Clocked, Serves, Untouched,
         \/ Fed /\ Queued = 0 /\ Watches
         \/ LastBegun /\ Silences
  PROVE  Slot' = Slot /\ (LastAhead' \/ Last')
<1>1. /\ Queued' = Queued /\ (InPulse' <=> InPulse) /\ Levels' = Levels
      /\ Fetched(0)' = Fetched(0) /\ request' = request
  BY DEF Serves, Untouched, Queued, InPulse, Levels, Level, Fetched
<1>2. 0 \in 0 .. request.n - 1
  BY SlotNumbers
<1>3. Fetched(0) # 0
  BY <1>2, SlotFacts
<1>4. CASE Fed /\ Queued = 0 /\ Watches
  <2>1. /\ ~tim.uie /\ tim.ccr1 = Fetched(0) /\ ~InPulse
        /\ ~PwmDmaPending' /\ tim'.uie /\ ~tim'.uif /\ tim'.ccr1 = Fetched(0)
    BY <1>4 DEF Fed, Watches, PwmDmaPending
  <2>2. LastAhead'
    BY <1>1, <1>4, <2>1 DEF LastAhead
  <2>3. Slot' = Slot
    BY <1>1, <1>3, <1>4, <2>1 DEF Slot
  <2> QED BY <2>2, <2>3
<1>5. CASE LastBegun /\ Silences
  <2>1. /\ tim.uie /\ tim.uif /\ Queued = 0 /\ ~PwmDmaPending
        /\ tim.pwm \in Levels
        /\ tim'.uie /\ ~tim'.uif /\ tim'.ccr1 = 0 /\ dma'.tc1 = dma.tc1
    BY <1>5 DEF LastBegun, Silences
  <2>2. ~PwmDmaPending'
    BY <2>1 DEF Untouched, PwmDmaPending
  <2>3. Last'
    BY <1>1, <2>1, <2>2 DEF Last, Untouched
  <2>4. Slot' = Slot
    BY <1>1, <2>1 DEF Slot
  <2> QED BY <2>3, <2>4
<1> QED BY <1>4, <1>5

LEMMA ServedSafe ==
  ASSUME TypeOK, InTime, Running, Paced, Serves, Untouched,
         \/ Fed /\ Queued = 0 /\ Watches
         \/ LastBegun /\ Silences
  PROVE  Paced'
<1>1. /\ ~other /\ Clocked /\ Buffered /\ Counted
      /\ NoExtraPulse /\ SentInOrder
  BY DEF Paced
<1>2. /\ Running' /\ Top' = Top /\ Queued' = Queued
      /\ \A b : Level(b)' = Level(b)
      /\ Slots' = Slots /\ Edges' = Edges /\ Due' = Due
      /\ NoConflict' <=> NoConflict
  BY DEF Serves, Untouched, Running, Top, Queued, Level, Slots, Edges, Due,
     Low, Driving, NoConflict
<1>3. Slot' = Slot /\ (LastAhead' \/ Last')
  BY <1>1, ServedStage
<1>4. Clocked'
  <2>1. lag' = 0 /\ MaxLag[Top] \in Int /\ MaxLag[Top] >= 0
    BY <1>1, SlotNumbers DEF Untouched
  <2>2. lag' <= MaxLag[Top]
    BY <2>1
  <2> QED BY <1>1, <1>2, <1>3, <2>2 DEF Clocked, Serves, Untouched
<1>5. Buffered' /\ Counted'
  BY <1>1, <1>2, <1>3 DEF Buffered, Counted, Serves, Untouched
<1>6. NoExtraPulse' /\ SentInOrder' /\ NoSpuriousError'
  BY <1>1, <1>2, OpStatus
     DEF Serves, Untouched, NoExtraPulse, SentInOrder, NoSpuriousError, Running
<1> QED BY <1>1, <1>4, <1>5, <1>6 DEF Paced, Serves

\* The exchange is over: all bits were captured, or there was a reason.
LEMMA OverSafe ==
  ASSUME TypeOK, InTime, Running, Paced, Serves, ~Running',
         status' = Op!COMPLETE /\ NoConflict => Slots >= request.n,
         status' = Op!ERROR /\ NoConflict => wire.stuck
  PROVE  Paced'
<1>1. ~other /\ NoExtraPulse /\ SentInOrder
  BY DEF Paced
<1>2. SentInOrder'
  <2>1. NoConflict' /\ status' = Op!COMPLETE => Len(wire'.pulses) >= request'.n
    BY DEF Serves, Slots, NoConflict
  <2> QED BY <1>1, <2>1 DEF SentInOrder, Serves, NoConflict
<1>3. NoExtraPulse' /\ NoSpuriousError'
  BY <1>1 DEF NoExtraPulse, NoSpuriousError, Serves, NoConflict
<1> QED BY <1>1, <1>2, <1>3 DEF Paced, Serves

\* The interrupt of the last transfer: all levels were fetched.
LEMMA PwmDmaSafe ==
  ASSUME TypeOK, InTime, Running, Paced, IsrPwmDma, Dispatch, UNCHANGED other
  PROVE  Paced'
<1>1. Clocked /\ tim \in Tim /\ dma \in Dma
  BY SlotFacts DEF Paced
<1>2. PwmDmaPending /\ dma' = [dma EXCEPT !.tc1 = FALSE]
      /\ tim' = EnableOverflowIrq(tim) /\ UNCHANGED <<status, presence>>
      /\ lag' = 0 /\ UNCHANGED <<durations, pullup, hold, call, wire>>
      /\ UNCHANGED <<overdrive, request, conflict>>
  BY DEF IsrPwmDma, Dispatch
<1>3. Fed /\ Queued = 0
  <2>1. Fed
    BY <1>1, <1>2 DEF Clocked, LastAhead, LastBegun, Last, Beyond
  <2>2. dma.tc1
    BY <1>2 DEF PwmDmaPending
  <2> QED BY <1>1, <2>1, <2>2, SlotNumbers DEF Fed
<1>4. Untouched /\ Watches
  BY <1>1, <1>2 DEF Untouched, Watches, EnableOverflowIrq, Tim, Dma
<1>5. Serves
  BY <1>2 DEF Serves
<1> QED BY <1>3, <1>4, <1>5, ServedSafe

\* The interrupt of the capture channel: every bit had its slot.
LEMMA CaptureDmaSafe ==
  ASSUME TypeOK, InTime, Running, Paced, RxTrack, IsrCaptureDma, Dispatch,
         UNCHANGED other
  PROVE  Paced'
<1>1. Clocked /\ Counted
  BY DEF Paced
<1>2. /\ CaptureDmaPending /\ status' = Op!COMPLETE
      /\ UNCHANGED <<durations, pullup, hold, call, wire>>
      /\ UNCHANGED <<overdrive, request, conflict, presence>>
  BY DEF IsrCaptureDma, OperationComplete, Dispatch
<1>3. Edges >= request.n
  <2>1. dma.n2 = 0
    BY <1>2, RxTrackParts, OpStatus DEF Running, Exchange, Armed
  <2> QED BY <1>1, <2>1, CaptureFacts
<1>4. NoConflict => Slots >= request.n
  <2>1. Due = 0 \/ Due = 1
    BY DEF Due
  <2>2. Slot \in Int /\ Edges \in Int /\ request.n \in Int
    BY <1>1, SlotByStage, SlotNumbers
  <2> QED BY <1>1, <1>3, <2>1, <2>2 DEF Counted
<1>5. Serves
  BY <1>2 DEF Serves
<1> QED BY <1>2, <1>4, <1>5, OverSafe, OpStatus DEF Running

\* The pull-up broke the output.
LEMMA PullupConflictSafe ==
  ASSUME TypeOK, InTime, Running, Paced, IsrPullupConflict, Dispatch,
         UNCHANGED other
  PROVE  Paced'
<1>1. tim.bif /\ status' = Op!ERROR /\ Serves
  BY DEF IsrPullupConflict, PullupConflict, OperationComplete, Dispatch, Serves
<1>2. ~NoConflict
  BY <1>1 DEF Paced, Counted
<1> QED BY <1>1, <1>2, OverSafe, OpStatus DEF Running

\* Beyond the last bit some edge is missing: the line was held.
LEMMA BeyondIsStuck ==
  ASSUME TypeOK, InTime, Running, Clocked, Counted, RxTrack,
         Beyond, ~CaptureDmaPending, NoConflict
  PROVE  wire.stuck
<1>1. SUFFICES ASSUME ~wire.stuck PROVE FALSE
  BY SlotFacts
<1>2. dma.n2 > 0
  BY SlotNumbers DEF Clocked, CaptureDmaPending
<1>3. Edges = request.n - dma.n2
  BY <1>2, CaptureFacts
<1>4. Edges + Due = request.n
  BY <1>1, SlotByStage DEF Counted
<1>5. Due = 1
  BY <1>2, <1>3, <1>4, SlotNumbers DEF Due
<1>6. ~InPulse /\ ~hold
  BY <1>1, SlotNumbers DEF Beyond, InPulse
<1> QED BY <1>5, <1>6 DEF Due, Low, Driving, InPulse

\* The watch over the last bit.
LEMMA OverflowSafe ==
  ASSUME TypeOK, InTime, Running, Paced, RxTrack, IsrOverflow, Dispatch,
         ~CaptureDmaPending, UNCHANGED other
  PROVE  Paced'
<1> DEFINE t == ClearOverflow(tim)
<1>1. Clocked /\ Counted /\ presence = 1 /\ tim \in Tim /\ dma \in Dma
  BY SlotFacts DEF Paced, Clocked
<1>2. OverflowPending /\ BitsOverflow(t)
  BY <1>1 DEF IsrOverflow, ResetOverflow
<1>3. LastBegun \/ Beyond
  BY <1>1, <1>2 DEF Clocked, OverflowPending, Fed, LastAhead, Last
<1>4. t.ccr1 = tim.ccr1
  BY <1>1 DEF ClearOverflow, Tim
<1>5. UNCHANGED presence /\ lag' = 0
  BY <1>2 DEF BitsOverflow, Dispatch
<1>6. Serves
  BY <1>5 DEF Dispatch, Serves
<1>7. CASE LastBegun
  <2>1. tim.ccr1 # 0
    <3>1. 0 \in 0 .. request.n - 1
      BY <1>1, SlotNumbers
    <3>2. Fetched(0) # 0
      BY <1>1, <3>1, SlotFacts
    <3> QED BY <1>7, <3>2 DEF LastBegun
  <2>2. tim' = SetPwmLevel(t, 0) /\ UNCHANGED <<dma, status>>
    BY <1>2, <1>4, <2>1 DEF BitsOverflow
  <2>3. tim.uie
    BY <1>2 DEF OverflowPending
  <2>4. Untouched /\ Silences
    BY <1>1, <1>5, <2>2, <2>3
       DEF Untouched, Silences, SetPwmLevel, ClearOverflow, Tim
  <2> QED BY <1>6, <1>7, <2>4, ServedSafe
<1>8. CASE Beyond
  <2>1. status' = Op!ERROR
    BY <1>2, <1>4, <1>8 DEF BitsOverflow, Beyond, OperationComplete
  <2>2. NoConflict => wire.stuck
    BY <1>1, <1>8, BeyondIsStuck
  <2> QED BY <1>6, <2>1, <2>2, OverSafe, OpStatus DEF Running
<1> QED BY <1>3, <1>7, <1>8

\* Whatever handler runs.
LEMMA DispatchSafe ==
  ASSUME TypeOK, InTime, Running, Paced, RxTrack, Dispatch, UNCHANGED other
  PROVE  Paced'
<1>1. ~tim.cc1ie /\ ~tim.cc2ie
  BY DEF Paced, Clocked
<1>2. ~IsrPwmCapture
  BY <1>1 DEF IsrPwmCapture, CapComPending
<1>3. \/ IsrPwmDma
      \/ IsrCaptureDma
      \/ IsrPullupConflict
      \/ ~CaptureDmaPending /\ IsrOverflow
  BY <1>2 DEF Dispatch
<1> QED BY <1>3, PwmDmaSafe, CaptureDmaSafe, PullupConflictSafe, OverflowSafe

-----------------------------------------------------------------------------
\* Steps that leave the exchange as it is.
LEMMA SameSafe ==
  ASSUME Running, Paced,
         NoConflict' => NoConflict /\ pullup' = pullup,
         UNCHANGED <<tim, dma, durations, hold, wire, lag>>,
         UNCHANGED <<status, presence, overdrive, call, request, other>>
  PROVE  Paced'
<1>1. /\ Running' /\ Top' = Top /\ Levels' = Levels /\ Queued' = Queued
      /\ \A b : Level(b)' = Level(b)
      /\ Fetched(0)' = Fetched(0)
      /\ Slots' = Slots /\ Edges' = Edges /\ Due' = Due /\ Slot' = Slot
      /\ (InPulse' <=> InPulse) /\ (PwmDmaPending' <=> PwmDmaPending)
  BY DEF Running, Top, Level, Levels, Fetched, Queued, Slots, Edges, Due, Low,
     Driving, Slot, InPulse, PwmDmaPending
<1>2. Fetched(Queued)' = Fetched(Queued)
  BY <1>1 DEF Fetched
<1>3. ~other /\ Clocked /\ Buffered /\ Counted /\ NoExtraPulse /\ SentInOrder
  BY DEF Paced
<1>4. /\ Fed' <=> Fed
      /\ LastAhead' <=> LastAhead
      /\ LastBegun' <=> LastBegun
      /\ Last' <=> Last
      /\ Beyond' <=> Beyond
  BY <1>1, <1>2 DEF Fed, LastAhead, LastBegun, Last, Beyond
<1>5. Clocked'
  BY <1>1, <1>3, <1>4 DEF Clocked
<1>6. Buffered' /\ Counted'
  BY <1>1, <1>3 DEF Buffered, Counted
<1>7. NoExtraPulse' /\ SentInOrder' /\ NoSpuriousError'
  BY <1>1, <1>3, OpStatus DEF NoExtraPulse, SentInOrder, NoSpuriousError,
     Running
<1> QED BY <1>3, <1>5, <1>6, <1>7 DEF Paced

\* The timer and the DMA when an exchange is started, with the first level in
\* use and the others queued.
Starts(r) ==
  /\ tim'.cen /\ tim'.aoe /\ (tim'.moe <=> ~pullup) /\ tim'.bif = pullup
  /\ (tim'.uie <=> r.n = 1) /\ tim'.uif
  /\ ~tim'.cc1ie /\ ~tim'.cc2ie /\ tim'.cc2p = Rising /\ tim'.arr = Top
  /\ tim'.cnt = 0 /\ tim'.pwm = Level(r.bits[0]) /\ tim'.ccr1 = Level(r.bits[0])
  /\ dma'.clk /\ dma'.gen /\ dma'.cc2de /\ dma'.en2 /\ dma'.n2 = r.n
  /\ dma'.en1 <=> r.n > 1
  /\ r.n > 1 => dma'.cc1de /\ ~dma'.tc1 /\ dma'.n1 = r.n - 1
  /\ wire'.pulses = IF pullup THEN <<>> ELSE <<Level(r.bits[0])>>
  /\ wire'.rises = <<>> /\ ~wire'.stuck
  /\ Low' <=> ~pullup \/ hold
  /\ lag' = 0 /\ presence' = 1
  /\ request' = r /\ status' = Op!PROGRESS /\ call' = "io"
  /\ UNCHANGED <<pullup, hold, overdrive>>
  /\ NoConflict' <=> ~pullup
  /\ durations' = FillDurations(r)

LEMMA TxBitsStarts ==
  ASSUME TypeOK, AtRest, NEW r \in Requests, TxBits(r)
  PROVE  Starts(r)
<1> DEFINE t0 == TxPrepared
           t1 == SetPwmLevel(t0, Level(r.bits[0]))
           t2 == IF r.n > 1 THEN t1 ELSE EnableOverflowIrq(t1)
           t == FireOverflowEvent(TimerStart(t2), pullup)
           d1 == PrepareCaptureDma(DmaAttach(dma), r.n)
           d2 == IF r.n > 1 THEN PreparePwmDma(d1, r.n - 1) ELSE d1
<1>1. /\ r \in Request /\ r.n \in 1 .. 8 /\ pullup \in BOOLEAN
      /\ tim \in Tim /\ dma \in Dma /\ DrvTypeOK /\ overdrive \in Flag
      /\ r.bits[0] \in Flag
  BY DrvAssumption DEF Request, Index, TypeOK, DrvTypeOK, BusTypeOK
<1>2. Level(r.bits[0]) \in Word /\ 0 < Level(r.bits[0])
  BY <1>1, BitTypes, LevelValues DEF Level, Flag
<1>3. t0 \in Tim /\ t1 \in Tim
  BY <1>1, <1>2, TxPreparedType, TimValueOps
<1>4. ~tim.uie /\ ~tim.cc1ie /\ ~tim.cc2ie
  BY DEF TxBits, AtRest
<1>5. /\ t0.arr = Top /\ t0.cc2p = Rising /\ t0.aoe /\ ~t0.moe
      /\ t0.bif = pullup /\ ~t0.uie /\ ~t0.cc1ie /\ ~t0.cc2ie
  BY <1>1, <1>4 DEF TxPrepared, SetCapturePolarity, ClearCapture, SetTop,
     Prepare, ClearPullupConflict, Top, Tim
<1> HIDE DEF t0
<1>6. /\ t1.ccr1 = Level(r.bits[0]) /\ t1.arr = Top /\ t1.cc2p = Rising
      /\ t1.aoe /\ ~t1.moe /\ t1.bif = pullup
      /\ ~t1.uie /\ ~t1.cc1ie /\ ~t1.cc2ie
  BY <1>3, <1>5 DEF SetPwmLevel, Tim
<1> HIDE DEF t1
<1>7. /\ t2 \in Tim /\ (t2.uie <=> r.n = 1)
      /\ t2.ccr1 = Level(r.bits[0]) /\ t2.arr = Top /\ t2.cc2p = Rising
      /\ t2.aoe /\ ~t2.moe /\ t2.bif = pullup
      /\ ~t2.cc1ie /\ ~t2.cc2ie
  <2>1. CASE r.n > 1
    BY <1>1, <1>3, <1>6, <2>1
  <2>2. CASE ~(r.n > 1)
    <3>1. t2 = EnableOverflowIrq(t1) /\ r.n = 1
      BY <1>1, <2>2
    <3> HIDE DEF t2
    <3>2. t2 \in Tim
      BY <1>1, <1>3, <3>1, TimFlagOps
    <3>3. t2 = [t1 EXCEPT !.uif = FALSE, !.uie = TRUE]
      BY <3>1 DEF EnableOverflowIrq
    <3> QED BY <1>3, <1>6, <3>1, <3>2, <3>3 DEF Tim
  <2> QED BY <2>1, <2>2
<1> HIDE DEF t2
<1>8. /\ t.cnt = 0 /\ t.uif /\ (t.uie <=> r.n = 1) /\ t.cen
      /\ t.pwm = Level(r.bits[0]) /\ t.ccr1 = Level(r.bits[0]) /\ t.arr = Top
      /\ t.cc2p = Rising /\ t.aoe /\ t.bif = pullup
      /\ t.moe <=> ~pullup
      /\ ~t.cc1ie /\ ~t.cc2ie
  BY <1>7 DEF FireOverflowEvent, UpdateEvent, TimerStart, Tim
<1> HIDE DEF t
<1>9. /\ d1.clk /\ d1.cc2de /\ d1.en2 /\ d1.n2 = r.n /\ ~d1.en1
      /\ d1 \in Dma
  <2>1. d1 \in Dma
    BY <1>1, DmaOps, DmaPrepareOps
  <2> QED BY <1>1, <2>1 DEF PrepareCaptureDma, DmaAttach, Dma
<1> HIDE DEF d1
<1>10. /\ d2.clk /\ d2.cc2de /\ d2.en2 /\ d2.n2 = r.n
       /\ d2.en1 <=> r.n > 1
       /\ r.n > 1 => d2.cc1de /\ ~d2.tc1 /\ d2.n1 = r.n - 1
       /\ d2 \in Dma
  <2>1. CASE r.n > 1
    <3>1. d2 = PreparePwmDma(d1, r.n - 1) /\ r.n - 1 \in 0 .. 8
      BY <1>1, <2>1
    <3>2. d2 \in Dma
      BY <1>9, <3>1, DmaPrepareOps
    <3> HIDE DEF d2
    <3> QED BY <1>9, <2>1, <3>1, <3>2 DEF PreparePwmDma, Dma
  <2>2. CASE ~(r.n > 1)
    BY <1>9, <2>2
  <2> QED BY <2>1, <2>2
<1>11. /\ Begin("io") /\ TxStarted(r, t) /\ dma' = DmaOn(d2)
       /\ durations' = FillDurations(r) /\ presence = 1
  BY DEF TxBits, t, t2, t1, t0, d1, Level
<1> HIDE DEF d2
<1>12. /\ dma'.clk /\ dma'.gen /\ dma'.cc2de /\ dma'.en2 /\ dma'.n2 = r.n
       /\ dma'.en1 <=> r.n > 1
       /\ r.n > 1 => dma'.cc1de /\ ~dma'.tc1 /\ dma'.n1 = r.n - 1
  BY <1>10, <1>11 DEF DmaOn, Dma
<1>13. /\ tim' = t /\ request' = r /\ status' = Op!PROGRESS /\ call' = "io"
       /\ UNCHANGED <<pullup, hold, presence, overdrive>>
       /\ conflict' = IF pullup THEN "all" ELSE "never"
       /\ lag' = 0
       /\ wire' = [NoTrace EXCEPT !.pulses = IF Driving(t) THEN <<t.pwm>>
                                            ELSE <<>>]
  BY <1>11 DEF TxStarted, Begin
<1>14. Driving(t) <=> ~pullup
  BY <1>2, <1>8 DEF Driving
<1>15. /\ wire'.pulses = IF pullup THEN <<>> ELSE <<Level(r.bits[0])>>
       /\ wire'.rises = <<>> /\ ~wire'.stuck
       /\ Low' <=> ~pullup \/ hold
       /\ NoConflict' <=> ~pullup
  BY <1>1, <1>8, <1>13, <1>14 DEF NoTrace, Low, NoConflict
<1> QED BY <1>8, <1>11, <1>12, <1>13, <1>15 DEF Starts

\* An exchange is started in its first slot.
LEMMA StartsStage ==
  ASSUME TypeOK, InTime, NEW r \in Requests, Starts(r)
  PROVE  /\ Clocked' /\ Buffered' /\ Slot' = 1
<1>1. /\ r \in Request /\ r.n \in 1 .. 8 /\ overdrive \in Flag
      /\ r.bits \in [Index -> Flag]
  BY DrvAssumption DEF Request, TypeOK, DrvTypeOK
<1>2. r.n \in Int /\ r.n >= 1 /\ r.n <= 8 /\ r.bits[0] \in Flag
  BY <1>1 DEF Index
<1>3. /\ Top' = Top /\ Levels' = Levels /\ \A b : Level(b)' = Level(b)
  BY DEF Starts, Top, Levels, Level
<1>4. Level(r.bits[0]) \in Levels /\ 0 < Level(r.bits[0])
  BY <1>1, <1>2, LevelValues DEF Level, Levels, Flag
<1>5. MaxLag[Top] \in Nat
  BY <1>1, BitTypes, BusAssumption DEF Top, Flag
<1>6. InPulse'
  BY <1>4 DEF Starts, InPulse
<1>7. Queued' = r.n - 1
  BY <1>2 DEF Starts, Queued
<1>8. Fetched(Queued)' = Level(r.bits[0])
  <2>1. request'.n - 1 - Queued' = 0 /\ request' = r
    BY <1>2, <1>7 DEF Starts
  <2> QED BY <1>3, <2>1 DEF Fetched
<1>9. ASSUME r.n > 1 PROVE Clocked' /\ Slot' = 1
  <2>1. Fed'
    BY <1>2, <1>3, <1>4, <1>7, <1>8, <1>9 DEF Starts, Fed
  <2>2. Slot' = 1
    <3>1. ~tim'.uie /\ request' = r
      BY <1>2, <1>9 DEF Starts
    <3>2. Slot' = r.n - (r.n - 1)
      BY <1>6, <1>7, <3>1 DEF Slot
    <3> QED BY <1>2, <3>2
  <2> QED BY <1>2, <1>3, <1>5, <1>7, <2>1, <2>2 DEF Starts, Clocked
<1>10. ASSUME r.n = 1 PROVE Clocked' /\ Slot' = 1
  <2>1. Queued' = 0 /\ Fetched(0)' = Level(r.bits[0])
    <3>1. request' = r /\ r.n - 1 - 0 = 0
      BY <1>10 DEF Starts
    <3> QED BY <1>3, <1>7, <1>10, <3>1 DEF Fetched
  <2>2. LastBegun'
    BY <1>3, <1>4, <1>10, <2>1 DEF Starts, LastBegun, PwmDmaPending
  <2>3. Slot' = 1
    BY <1>10 DEF Starts, Slot
  <2> QED BY <1>2, <1>3, <1>5, <2>1, <2>2, <2>3 DEF Starts, Clocked
<1>11. Buffered'
  <2>1. SUFFICES ASSUME NEW i \in Index, i < r.n - 1
                 PROVE  durations'[i] = Level(r.bits[r.n - 1 - i])
    BY <1>3, <1>7 DEF Buffered, Starts
  <2>2. r.n - 1 - i \in Index
    BY <1>2, <2>1 DEF Index
  <2>3. durations'[i] =
          BIT_DURATION(overdrive, r.bits[r.n - 1 - i]) % DmaModulus
    BY <2>1 DEF Starts, FillDurations
  <2> QED BY <1>1, <2>2, <2>3, LevelValues DEF Level
<1> QED BY <1>2, <1>9, <1>10, <1>11

LEMMA TxBitsSafe ==
  ASSUME TypeOK, AtRest, InTime, NEW r \in Requests, TxBits(r), Paced,
         UNCHANGED other
  PROVE  Paced'
<1>1. Starts(r)
  BY TxBitsStarts
<1>2. Clocked' /\ Buffered' /\ Slot' = 1
  BY <1>1, StartsStage
<1>3. Slots' = (IF pullup THEN 0 ELSE 1) /\ Edges' = 0
      /\ Due' = IF ~pullup \/ hold THEN 1 ELSE 0
  BY <1>1 DEF Starts, Slots, Edges, Due
<1>4. Counted'
  BY <1>1, <1>2, <1>3 DEF Starts, Counted
<1>5. r.n \in 1 .. 8 /\ request' = r
  BY <1>1, DrvAssumption DEF Starts, Request
<1>6. NoExtraPulse'
  BY <1>3, <1>5 DEF NoExtraPulse, Slots
<1>7. SentInOrder'
  <2>1. ASSUME NEW k \in 1 .. Len(wire'.pulses), ~pullup
        PROVE  wire'.pulses[k] = Level(r.bits[k - 1])
    <3>1. k = 1 /\ wire'.pulses = <<Level(r.bits[0])>>
      BY <1>1, <2>1 DEF Starts
    <3> QED BY <3>1
  <2> QED BY <1>1, <2>1, OpStatus DEF Starts, SentInOrder, Level
<1>8. NoSpuriousError'
  BY <1>1, OpStatus DEF Starts, NoSpuriousError
<1> QED BY <1>2, <1>4, <1>6, <1>7, <1>8 DEF Paced

-----------------------------------------------------------------------------
\* The exchange goes on, or is over.
LEMMA RunningSafe ==
  ASSUME ~NoisyBus, InTime, Inv, RxTrack, Running, Paced,
         DriverStep, UNCHANGED other
  PROVE  Paced'
<1>1. TypeOK /\ Clocked /\ Buffered /\ Counted /\ ~Op!Ready
  BY DEF Inv, Paced, Running, Op!Ready
<1>2. ASSUME NEW r \in Requests PROVE ~TxBits(r) /\ ~TxBitsRefused(r)
  BY <1>1 DEF TxBits, TxBitsRefused
<1>3. ASSUME NEW od \in Speeds PROVE ~Reset(od)
  BY <1>1 DEF Reset
<1>4. ~SimulatePresence
  BY <1>1 DEF SimulatePresence, Op!SimulatePresence
<1>5. CASE HardwareStep
  <2>1. CASE Compare
    BY <1>1, <1>5, <2>1, CompareWithin, WithinSafe
  <2>2. CASE Overflow
    BY <1>1, <1>5, <2>2, OverflowNewSlot, NewSlotSafe
  <2>3. ASSUME NEW m \in Moments, DevicePull(m) \/ DeviceRelease(m)
        PROVE  Paced'
    BY <1>1, <1>5, <2>3, DeviceWithin, WithinSafe
  <2> QED BY <1>5, <2>1, <2>2, <2>3 DEF HardwareStep, Hardware
<1>6. CASE PullupStep
  <2>1. ASSUME NEW m \in Moments, ActivePullupOn(m)
        PROVE  Paced'
    BY <1>1, <1>6, <2>1, PullupWithin, WithinSafe
  <2>2. CASE ActivePullupOff
    <3>1. /\ UNCHANGED <<tim, dma, durations, hold, wire, lag>>
          /\ UNCHANGED <<status, presence, overdrive, call, request>>
          /\ ~NoConflict'
      BY <1>6, <2>2 DEF PullupStep, ActivePullupOff, NoConflict
    <3> QED BY <3>1, SameSafe
  <2> QED BY <1>6, <2>1, <2>2 DEF PullupStep, Pullup
<1>7. CASE ConsumeEvent
  <2>1. /\ UNCHANGED <<tim, dma, durations, hold, wire, lag>>
        /\ UNCHANGED <<status, presence, overdrive, call, request>>
        /\ UNCHANGED <<pullup, conflict>>
    BY <1>7 DEF ConsumeEvent, Op!ConsumeEvent
  <2> QED BY <2>1, SameSafe DEF NoConflict
<1>8. CASE Dispatch
  BY <1>1, <1>8, DispatchSafe
<1> QED BY <1>2, <1>3, <1>4, <1>5, <1>6, <1>7, <1>8 DEF DriverStep, CommonStep

\* While no bits are exchanged the history of the last exchange stays.
Frozen ==
  /\ ~Running'
  /\ call' = "io" =>
       /\ UNCHANGED <<call, status, wire, request, overdrive>>
       /\ NoConflict' => NoConflict

LEMMA FrozenSafe ==
  ASSUME Paced, Frozen, UNCHANGED other
  PROVE  Paced'
<1>1. ~other' /\ NoExtraPulse' /\ SentInOrder' /\ NoSpuriousError'
  BY DEF Paced, Frozen, NoExtraPulse, SentInOrder, NoSpuriousError
<1> QED BY <1>1 DEF Paced, Frozen

LEMMA IdleSafe ==
  ASSUME Inv, ~Running, Paced, DriverStep, UNCHANGED other,
         ~ \E r \in Requests : TxBits(r)
  PROVE  Paced'
<1>1. /\ TypeOK /\ DrvTypeOK /\ BusTypeOK /\ AtRest /\ Quiescent
  BY DEF Inv, TypeOK, DrvTypeOK, Quiescent
<1>2. call = "io" => Op!Ready /\ ~tim.cen
  BY <1>1 DEF Running, Op!Ready, AtRest
<1>3. Op!Ready => ~DmaBusy(dma)
  BY <1>1 DEF Quiescent, Paced, DmaBusy
<1>4. Frozen
  <2>1. ASSUME NEW r \in Requests PROVE ~TxBitsRefused(r)
    BY <1>3 DEF TxBitsRefused
  <2>2. ASSUME NEW od \in Speeds, Reset(od) PROVE Frozen
    BY <2>2 DEF Reset, Begin, Frozen, Running
  <2>3. CASE HardwareStep
    <3>1. UNCHANGED call /\ (~tim.cen => wire' = wire)
      BY <1>1, <2>3, HardwareKeeps, StoppedKeeps DEF HardwareStep
    <3> QED BY <1>2, <2>3, <3>1
            DEF HardwareStep, drvVars, Frozen, Running, NoConflict
  <2>4. CASE PullupStep
    <3>1. UNCHANGED call /\ (~tim.cen => wire' = wire)
      BY <1>1, <2>4, HardwareKeeps, StoppedKeeps DEF PullupStep
    <3> QED BY <1>2, <2>4, <3>1 DEF PullupStep, Frozen, Running, NoConflict
  <2>5. CASE SimulatePresence \/ ConsumeEvent
    BY <2>5 DEF SimulatePresence, ConsumeEvent, Op!SimulatePresence,
       Op!ConsumeEvent, Frozen, Running, NoConflict
  <2>6. CASE Dispatch
    <3>1. ~Op!Ready
      BY <1>1, <2>6, QuiescentIsIdle
    <3> QED BY <1>2, <2>6, <3>1 DEF Dispatch, Frozen, Running
  <2> QED BY <2>1, <2>2, <2>3, <2>4, <2>5, <2>6 DEF DriverStep, CommonStep
<1> QED BY <1>4, FrozenSafe

\* It holds at the start, and every step keeps it.
LEMMA PacedInit == Init => Paced
BY DEF Init, DrvInit, BusInit, Paced, Running, NoExtraPulse, SentInOrder,
   NoSpuriousError

LEMMA PacedNext ==
  ASSUME ~NoisyBus, ~SharedDma, InTime, Inv, RxTrack, Paced, [Next]_vars
  PROVE  Paced'
<1>1. TypeOK /\ AtRest /\ ~other
  BY DEF Inv, Quiescent, Paced
<1>2. CASE DriverStep /\ UNCHANGED other
  <2>1. ASSUME NEW r \in Requests, TxBits(r)
        PROVE  Paced'
    BY <1>1, <1>2, <2>1, TxBitsSafe
  <2> QED BY <1>2, <2>1, RunningSafe, IdleSafe
<1>3. CASE UNCHANGED vars
  <2>1. /\ UNCHANGED <<tim, dma, durations, hold, wire, lag>>
        /\ UNCHANGED <<status, presence, overdrive, call, request, other>>
        /\ UNCHANGED <<pullup, conflict>>
    BY <1>3 DEF vars, busVars, drvVars
  <2>2. CASE Running
    BY <2>1, <2>2, SameSafe DEF NoConflict
  <2>3. CASE ~Running
    BY <2>1, <2>3, FrozenSafe DEF Frozen, Running, NoConflict
  <2> QED BY <2>2, <2>3
<1>4. ~OtherAttach /\ ~OtherDetach
  BY <1>1 DEF OtherAttach, OtherDetach
<1> QED BY <1>2, <1>3, <1>4 DEF Next

\* On a quiet bus, with handlers that are in time and DMA to itself, the driver
\* keeps pace throughout.
LEMMA PacedInvariance ==
  ASSUME ~NoisyBus, ~SharedDma, InTime
  PROVE  Spec => []Paced
<1>1. Inv /\ RxTrack /\ Paced /\ [Next]_vars => Paced'
  BY PacedNext
<1> QED BY <1>1, PacedInit, Invariance, CapturesTracked, PTL DEF Spec

\* drvOneWireTxBits drives the bits it was given, low bit first and each with
\* its own length, and all of them before it completes: the PWM channel fetches
\* each level a slot ahead, and captures overwrite it only after it was sent.
THEOREM SentAsAsked ==
  ASSUME ~NoisyBus, ~SharedDma, InTime
  PROVE  Spec => []SentInOrder
BY PacedInvariance, PTL DEF Paced

\* No slot is begun beyond the last bit: the handlers of the last transfer and
\* of the last overflow load the level of no pulse in time.
THEOREM NoSlotBeyond ==
  ASSUME ~NoisyBus, ~SharedDma, InTime
  PROVE  Spec => []NoExtraPulse
BY PacedInvariance, PTL DEF Paced

\* An exchange fails only for a reason: the watch over the last bit fires when
\* an edge is missing, never before the last edge can have come.
THEOREM FailsForAReason ==
  ASSUME ~NoisyBus, ~SharedDma, InTime
  PROVE  Spec => []NoSpuriousError
BY PacedInvariance, PTL DEF Paced
===============================================================================
