---------------------------- MODULE SbDmaProofs ----------------------------
(***************************************************************************)
(* What SbDma promises for a ring of every size: the block being played    *)
(* never leaves the ring, and a position read between _cli and _sti is the *)
(* DMA's, whatever else the card interrupts for; the card reads the ring   *)
(* in order in every mode if the handler can tell the end of a block.      *)
(***************************************************************************)
EXTENDS SbDma, TLAPS

\* The block lies in the ring and the count in the block; with auto-
\* initialisation the block is the ring and never runs out.
BlockInRing ==
    /\ started + length <= Size
    /\ left <= length
    /\ chose_autoinit_dma => started = 0 /\ length = Size /\ left > 0

\* Without it, the DSP and the 8237 come to the end of the block together, and
\* the DSP's interrupt means that both have.
InLockstep ==
    ~chose_autoinit_dma /\ Running =>
        dsp = left /\ ("dsp" \in irq => left = 0)

\* What the main program has done so far.
Phases ==
    /\ ~Running => dsp = 0
    /\ dsp_playing => main \in Active
    /\ main = "prepared" =>
          /\ started = 0 /\ left = length
          /\ ~chose_autoinit_dma => length = interval
    /\ chose_autoinit_dsp => chose_autoinit_dma

\* Without Ambiguous, a cause that is not the DSP's has a bit of its own.
Telling ==
    ~Ambiguous => \A cause \in irq : cause = "dsp" \/ (has_reason /\ Bit(cause) # Bit("dsp"))

\* Between the read of the count and the end of the computation the block does
\* not change.
CountOfBlock ==
    rd = "count" =>
        /\ count <= length
        /\ actual = IF started + (length - count) = Size THEN 0
                    ELSE started + (length - count)

Inv == TypeOK /\ BlockInRing /\ InLockstep /\ Phases /\ Telling /\ CountOfBlock /\ PositionHonest

\* Where the handler puts the next block: inside the ring, at the place where
\* the last one ended.
LEMMA NextBlockFits ==
    ASSUME TypeOK, BlockInRing
    PROVE  /\ NextStart \in Places
           /\ NextEnd - NextStart \in 1 .. Size
           /\ NextStart + (NextEnd - NextStart) <= Size
           /\ NextStart = IF started + length = Size THEN 0 ELSE started + length
  BY SizeAssumption DEF TypeOK, BlockInRing, NextStart, NextEnd, Places

\* The handler goes on to a next block only while the DSP has one to play.
LEMMA HandlerRuns == ASSUME Inv, dsp_playing PROVE Running
  BY DEF Inv, Phases, Running, Active

\* When it does without auto-initialisation, the last block has been read to its
\* end, if the handler can tell.
LEMMA BlockIsOver ==
    ASSUME Inv, ~Ambiguous, IrqHandler, DspReason, dsp_playing, ~chose_autoinit_dma
    PROVE  left = 0
<1>1. irq # {} /\ \A cause \in irq : cause = "dsp" \/ (has_reason /\ Bit(cause) # Bit("dsp"))
  BY DEF Inv, Telling, IrqHandler
<1>2. "dsp" \in irq
  <2>1. CASE has_reason
    <3>1. PICK cause \in irq : Bit(cause) = Bit("dsp")
      BY <2>1 DEF DspReason, Reason
    <3> QED
      BY <1>1, <3>1
  <2>2. CASE ~has_reason
    BY <1>1, <2>2
  <2> QED
    BY <2>1, <2>2
<1> QED
  BY <1>2, HandlerRuns DEF Inv, InLockstep

LEMMA InvInit == Init => Inv
<1> SUFFICES ASSUME Init PROVE Inv
  OBVIOUS
<1>1. TypeOK
  <2>1. 0 \in Places /\ Size \in 1 .. Size /\ 0 \in 0 .. Size /\ Size \in 0 .. Size
    BY SizeAssumption DEF Places
  <2> QED
    BY <2>1 DEF Init, TypeOK
<1>2. BlockInRing /\ InLockstep /\ Phases /\ Telling /\ CountOfBlock
  BY SizeAssumption
  DEF Init, BlockInRing, InLockstep, Phases, Telling, CountOfBlock, Running, Active
<1>3. PositionHonest
  BY DEF Init, PositionHonest
<1> QED
  BY <1>1, <1>2, <1>3 DEF Inv

\* The handler, in the mode where it does something: a block follows a block.
LEMMA HandlerStep ==
    ASSUME Inv, IrqHandler
    PROVE  TypeOK' /\ BlockInRing' /\ InLockstep' /\ Phases'
<1>1. CASE playing /\ DspReason /\ dsp_playing /\ ~chose_autoinit_dma
  <2>1. Running
    BY <1>1, HandlerRuns
  <2>2. /\ started' = NextStart
        /\ length' = NextEnd - NextStart
        /\ left' = length' /\ dsp' = length'
        /\ irq' = {}
        /\ UNCHANGED <<modeVars, readVars, dsp_playing, playing, main>>
    BY <1>1 DEF IrqHandler, NextBlock
  <2>3. TypeOK'
    BY <2>2, NextBlockFits, SizeAssumption DEF Inv, TypeOK, modeVars, readVars
  <2>4. BlockInRing'
    BY <1>1, <2>2, NextBlockFits DEF Inv, BlockInRing, modeVars
  <2>5. InLockstep'
    BY <2>2 DEF InLockstep
  <2>6. Phases'
    BY <2>1, <2>2 DEF Inv, Phases, Running, modeVars
  <2> QED
    BY <2>3, <2>4, <2>5, <2>6
<1>2. CASE playing /\ DspReason /\ dsp_playing /\ chose_autoinit_dma
  <2>1. /\ dsp' \in {dsp, interval}
        /\ irq' = {}
        /\ UNCHANGED <<modeVars, readVars, dsp_playing, playing, main, started,
                       length, left>>
    BY <1>2 DEF IrqHandler, NextBlock
  <2>2. Running
    BY <1>2 DEF Inv, Phases, Running, Active
  <2>3. TypeOK' /\ BlockInRing'
    BY <2>1, SizeAssumption DEF Inv, TypeOK, BlockInRing, modeVars, readVars
  <2>4. InLockstep' /\ Phases'
    BY <1>2, <2>1, <2>2 DEF Inv, InLockstep, Phases, Running, modeVars
  <2> QED
    BY <2>3, <2>4
<1>3. CASE ~(playing /\ DspReason /\ dsp_playing)
  <2>1. /\ irq' = {}
        /\ UNCHANGED <<modeVars, readVars, dsp_playing, playing, main, started,
                       length, left, dsp>>
    BY <1>3 DEF IrqHandler
  <2>2. TypeOK' /\ BlockInRing'
    BY <2>1 DEF Inv, TypeOK, BlockInRing, modeVars, readVars
  <2>3. InLockstep' /\ Phases'
    BY <2>1 DEF Inv, InLockstep, Phases, Running, modeVars
  <2> QED
    BY <2>2, <2>3
<1> QED
  BY <1>1, <1>2, <1>3

\* The hardware: one frame, or a cause that is not the DSP's.
LEMMA CardStep ==
    ASSUME Inv, Card
    PROVE  TypeOK' /\ BlockInRing' /\ InLockstep' /\ Phases'
<1>1. CASE Transfer
  <2>1. /\ dsp > 0 /\ left > 0
        /\ left' = IF left = 1 /\ chose_autoinit_dma THEN length ELSE left - 1
        /\ dsp' = IF dsp = 1 /\ chose_autoinit_dsp THEN interval ELSE dsp - 1
        /\ irq' = IF dsp = 1 THEN irq \cup {"dsp"} ELSE irq
        /\ UNCHANGED <<modeVars, blockVars, readVars, dsp_playing, playing, main>>
    BY <1>1 DEF Transfer
  <2>2. Running
    BY <2>1 DEF Inv, Phases, TypeOK
  <2>3. TypeOK'
    BY <2>1, SizeAssumption DEF Inv, TypeOK, modeVars, blockVars, readVars
  <2>4. BlockInRing'
    BY <2>1, SizeAssumption DEF Inv, TypeOK, BlockInRing, modeVars, blockVars
  <2>5. InLockstep'
    <3> SUFFICES ASSUME ~chose_autoinit_dma PROVE dsp' = left' /\ ("dsp" \in irq' => left' = 0)
      BY <2>1 DEF InLockstep, modeVars
    <3>1. dsp = left /\ "dsp" \notin irq /\ ~chose_autoinit_dsp
      BY <2>1, <2>2 DEF Inv, InLockstep, Phases, TypeOK
    <3>2. dsp' = left' /\ (irq' # irq => left' = 0)
      BY <2>1, <3>1 DEF Inv, TypeOK
    <3> QED
      BY <3>1, <3>2
  <2>6. Phases'
    BY <2>1, <2>2 DEF Inv, Phases, Running, modeVars, blockVars
  <2> QED
    BY <2>3, <2>4, <2>5, <2>6
<1>2. CASE OtherCause
  <2>1. TypeOK' /\ BlockInRing'
    BY <1>2 DEF OtherCause, Inv, TypeOK, BlockInRing, modeVars, blockVars, readVars
  <2>2. InLockstep' /\ Phases'
    BY <1>2 DEF OtherCause, Inv, InLockstep, Phases, Running, modeVars, blockVars
  <2> QED
    BY <2>1, <2>2
<1> QED
  BY <1>1, <1>2 DEF Card

\* The main program up to the start of play.
LEMMA StartStep ==
    ASSUME Inv, Start
    PROVE  TypeOK' /\ BlockInRing' /\ InLockstep' /\ Phases'
<1>1. CASE Prepare
  <2>1. PICK autodma, autodsp \in BOOLEAN, n \in 0 .. Size :
           /\ chose_autoinit_dma' = autodma
           /\ chose_autoinit_dsp' = (autodma /\ autodsp)
           /\ interval' = Interval(n)
           /\ started' = 0
           /\ length' = FirstLength(autodma, interval')
           /\ left' = length'
    BY <1>1 DEF Prepare
  <2>2. /\ dsp' = 0 /\ main' = "prepared" /\ ~dsp_playing
        /\ UNCHANGED <<has_reason, dsp_playing, playing, irq, readVars>>
    BY <1>1 DEF Prepare
  <2>3. Interval(n) \in 1 .. Size
    BY SizeAssumption DEF Interval
  <2>4. FirstLength(autodma, Interval(n)) \in 1 .. Size
    BY <2>3, SizeAssumption DEF FirstLength
  <2>5. TypeOK'
    <3>1. 0 \in Places /\ 0 \in 0 .. Size /\ 1 .. Size \subseteq 0 .. Size
      BY SizeAssumption DEF Places
    <3>2. buffer_16bit' \in BOOLEAN
      BY <1>1 DEF Prepare
    <3> QED
      BY <2>1, <2>2, <2>3, <2>4, <3>1, <3>2 DEF Inv, TypeOK, readVars
  <2>6. BlockInRing'
    <3>1. \A l \in 1 .. Size : 0 + l <= Size /\ l <= l /\ l > 0
      BY SizeAssumption
    <3>2. autodma => FirstLength(autodma, Interval(n)) = Size
      BY DEF FirstLength
    <3> QED
      BY <2>1, <2>4, <3>1, <3>2 DEF BlockInRing
  <2>7. InLockstep' /\ Phases'
    BY <2>1, <2>2 DEF Inv, InLockstep, Phases, Running, Active, FirstLength
  <2> QED
    BY <2>5, <2>6, <2>7
<1>2. CASE Unprepare
  <2>1. TypeOK' /\ BlockInRing'
    BY <1>2 DEF Unprepare, Inv, TypeOK, BlockInRing, modeVars, blockVars, hwVars, readVars
  <2>2. InLockstep' /\ Phases'
    BY <1>2
    DEF Unprepare, Inv, InLockstep, Phases, Running, Active, modeVars, blockVars, hwVars
  <2> QED
    BY <2>1, <2>2
<1>3. CASE Begin
  <2>1. TypeOK' /\ BlockInRing'
    BY <1>3, SizeAssumption
    DEF Begin, Inv, TypeOK, BlockInRing, modeVars, blockVars, readVars
  <2>2. InLockstep' /\ Phases'
    BY <1>3
    DEF Begin, Quiet, Inv, InLockstep, Phases, Running, Active, modeVars, blockVars
  <2> QED
    BY <2>1, <2>2
<1>4. CASE SetPlaying
  <2>1. TypeOK' /\ BlockInRing'
    BY <1>4 DEF SetPlaying, Inv, TypeOK, BlockInRing, modeVars, blockVars, hwVars, readVars
  <2>2. InLockstep' /\ Phases'
    BY <1>4
    DEF SetPlaying, Inv, InLockstep, Phases, Running, Active, modeVars, blockVars, hwVars
  <2> QED
    BY <2>1, <2>2
<1> QED
  BY <1>1, <1>2, <1>3, <1>4 DEF Start

\* The main program from the end of play on.
LEMMA FinishStep ==
    ASSUME Inv, Finish
    PROVE  TypeOK' /\ BlockInRing' /\ InLockstep' /\ Phases'
<1>1. CASE StopDsp
  <2>1. TypeOK' /\ BlockInRing'
    BY <1>1 DEF StopDsp, Inv, TypeOK, BlockInRing, modeVars, blockVars, hwVars, readVars
  <2>2. InLockstep' /\ Phases'
    BY <1>1
    DEF StopDsp, Inv, InLockstep, Phases, Running, Active, modeVars, blockVars, hwVars
  <2> QED
    BY <2>1, <2>2
<1>2. CASE Halted
  <2>1. TypeOK' /\ BlockInRing'
    BY <1>2, SizeAssumption
    DEF Halted, Inv, TypeOK, BlockInRing, modeVars, blockVars, readVars
  <2>2. InLockstep' /\ Phases'
    BY <1>2
    DEF Halted, Inv, InLockstep, Phases, Running, Active, modeVars, blockVars
  <2> QED
    BY <2>1, <2>2
<1>3. CASE ClearPlaying
  <2>1. TypeOK' /\ BlockInRing'
    BY <1>3
    DEF ClearPlaying, Inv, TypeOK, BlockInRing, modeVars, blockVars, hwVars, readVars
  <2>2. InLockstep' /\ Phases'
    BY <1>3
    DEF ClearPlaying, Inv, InLockstep, Phases, Running, Active, modeVars, blockVars, hwVars
  <2> QED
    BY <2>1, <2>2
<1> QED
  BY <1>1, <1>2, <1>3 DEF Finish

\* A position read, whose last step turns the count into a place of the ring.
LEMMA ReadStep ==
    ASSUME Inv, Read
    PROVE  TypeOK' /\ BlockInRing' /\ InLockstep' /\ Phases' /\ CountOfBlock' /\ PositionHonest'
<1>1. /\ UNCHANGED <<modeVars, blockVars, hwVars, dsp_playing, playing, main>>
  BY DEF Read, DisableInterrupts, ReadCount, ReadRest
<1>2. BlockInRing' /\ InLockstep' /\ Phases'
  BY <1>1
  DEF Inv, BlockInRing, InLockstep, Phases, Running, modeVars, blockVars, hwVars
<1>3. CASE DisableInterrupts
  BY <1>1, <1>2, <1>3
  DEF DisableInterrupts, Inv, TypeOK, CountOfBlock, PositionHonest, modeVars, blockVars, hwVars
<1>4. CASE ReadCount
  <2>1. Pos \in Places
    BY SizeAssumption DEF Inv, TypeOK, BlockInRing, Pos, Places
  <2>2. rd' = "count" /\ count' = left /\ actual' = Pos /\ shown' = shown
    BY <1>4 DEF ReadCount
  <2>3. TypeOK'
    BY <1>1, <2>1, <2>2 DEF Inv, TypeOK, modeVars, blockVars, hwVars
  <2>4. CountOfBlock' /\ PositionHonest'
    BY <1>1, <2>2 DEF Inv, BlockInRing, CountOfBlock, PositionHonest, Pos, blockVars
  <2> QED
    BY <1>2, <2>3, <2>4
<1>5. CASE ReadRest
  <2>1. /\ rd = "count" /\ rd' = "none" /\ shown' = PositionOf(count)
        /\ count' = count /\ actual' = actual
    BY <1>5 DEF ReadRest
  <2>2. PositionOf(count) \in Places
    BY <2>1, SizeAssumption
    DEF Inv, TypeOK, BlockInRing, CountOfBlock, PositionOf, Places
  <2>3. PositionOf(count) = actual \/ R!Succ(PositionOf(count)) = actual
    BY <2>1, SizeAssumption
    DEF Inv, TypeOK, BlockInRing, CountOfBlock, PositionOf, R!Succ, Places
  <2>4. TypeOK'
    BY <1>1, <2>1, <2>2 DEF Inv, TypeOK, modeVars, blockVars, hwVars
  <2>5. CountOfBlock' /\ PositionHonest'
    BY <2>1, <2>3 DEF CountOfBlock, PositionHonest
  <2> QED
    BY <1>2, <2>4, <2>5
<1> QED
  BY <1>3, <1>4, <1>5 DEF Read

\* What does not read the position leaves a read that is under way alone: the
\* handler and the main program wait for _sti, and the card moves the DMA only.
LEMMA ReadUndisturbed ==
    ASSUME Inv, Start \/ Finish \/ IrqHandler \/ Card
    PROVE  CountOfBlock' /\ PositionHonest'
<1>1. UNCHANGED readVars
  BY DEF Start, Prepare, Unprepare, Begin, SetPlaying, Finish, StopDsp, Halted,
         ClearPlaying, IrqHandler, Card, Transfer, OtherCause
<1>2. rd = "count" => UNCHANGED blockVars
  BY DEF Start, Prepare, Unprepare, Begin, SetPlaying, Finish, StopDsp, Halted,
         ClearPlaying, IrqHandler, Card, Transfer, OtherCause, Quiet,
         InterruptsEnabled
<1> QED
  BY <1>1, <1>2 DEF Inv, CountOfBlock, PositionHonest, readVars, blockVars

\* The causes that are pending can be told apart: no other one comes up, and the
\* mode changes only while none is pending.
LEMMA TellingStep == ASSUME Inv, [Next]_vars PROVE Telling'
<1>1. CASE OtherCause
  <2> SUFFICES ASSUME ~Ambiguous, NEW c \in irq'
               PROVE  c = "dsp" \/ (has_reason' /\ Bit(c)' # Bit("dsp")')
    BY DEF Telling
  <2>1. PICK cause : has_reason /\ Bit(cause) # Bit("dsp") /\ irq' = irq \cup {cause}
    BY <1>1 DEF OtherCause
  <2>2. has_reason' = has_reason /\ Bit(c)' = Bit(c) /\ Bit("dsp")' = Bit("dsp")
    BY <1>1 DEF OtherCause, modeVars, Bit
  <2>3. c = "dsp" \/ (has_reason /\ Bit(c) # Bit("dsp"))
    BY <2>1 DEF Inv, Telling
  <2> QED
    BY <2>2, <2>3
<1>2. CASE ~OtherCause
  <2>1. irq' = {} \/ (UNCHANGED <<has_reason, buffer_16bit>> /\ irq' \subseteq irq \cup {"dsp"})
    BY <1>2
    DEF Next, Start, Prepare, Unprepare, Begin, SetPlaying, Finish, StopDsp, Halted, ClearPlaying,
        Read, DisableInterrupts, ReadCount, ReadRest, IrqHandler, Card, Transfer, Quiet, vars,
        modeVars, hwVars
  <2> QED
    BY <2>1 DEF Inv, Telling, Bit
<1> QED
  BY <1>1, <1>2

LEMMA InvStep == Inv /\ [Next]_vars => Inv'
<1> SUFFICES ASSUME Inv, [Next]_vars PROVE Inv'
  OBVIOUS
<1>1. CASE Start
  BY <1>1, StartStep, TellingStep, ReadUndisturbed DEF Inv
<1>2. CASE Finish
  BY <1>2, FinishStep, TellingStep, ReadUndisturbed DEF Inv
<1>3. CASE Read
  BY <1>3, ReadStep, TellingStep DEF Inv
<1>4. CASE IrqHandler
  BY <1>4, HandlerStep, TellingStep, ReadUndisturbed DEF Inv
<1>5. CASE Card
  BY <1>5, CardStep, TellingStep, ReadUndisturbed DEF Inv
<1>6. CASE UNCHANGED vars
  BY <1>6
  DEF vars, modeVars, blockVars, hwVars, readVars, Inv, TypeOK, BlockInRing,
      InLockstep, Phases, Telling, Bit, CountOfBlock, PositionHonest, Running
<1> QED
  BY <1>1, <1>2, <1>3, <1>4, <1>5, <1>6 DEF Next

LEMMA InvIsInductive == Spec => []Inv
  BY InvInit, InvStep, PTL DEF Spec

\* Type correctness: the block the 8237 is programmed with lies inside the ring.
THEOREM TypeCorrect == Spec => []TypeOK
<1>1. Inv => TypeOK
  BY DEF Inv
<1> QED
  BY <1>1, InvIsInductive, PTL

\* A position the main program read is where the DMA was, or one frame behind.
THEOREM PositionsAreHonest == Spec => []PositionHonest
<1>1. Inv => PositionHonest
  BY DEF Inv
<1> QED
  BY <1>1, InvIsInductive, PTL

\* A step of the card's read position: the place after, and only while it runs.
LEMMA TransferAdvances == Inv /\ Transfer => R!Advance
<1> SUFFICES ASSUME Inv, Transfer PROVE R!Advance
  OBVIOUS
<1>1. Running /\ Running' = Running
  BY DEF Inv, Phases, TypeOK, Transfer, Running
<1>2. Pos' = R!Succ(Pos)
  BY SizeAssumption
  DEF Transfer, Inv, TypeOK, BlockInRing, Pos, R!Succ, Places, modeVars, blockVars
<1> QED
  BY <1>1, <1>2 DEF R!Advance

\* The handler programs the next block where the last one ended: the read
\* position does not move.
LEMMA HandlerStaysPut == ~Ambiguous /\ Inv /\ IrqHandler => UNCHANGED <<Pos, Running>>
<1> SUFFICES ASSUME ~Ambiguous, Inv, IrqHandler PROVE Pos' = Pos /\ Running' = Running
  OBVIOUS
<1>1. Running' = Running
  BY DEF IrqHandler, Running
<1>2. CASE playing /\ DspReason /\ dsp_playing /\ ~chose_autoinit_dma
  <2>1. left = 0
    BY <1>2, BlockIsOver
  <2>2. started' = NextStart /\ length' = NextEnd - NextStart /\ left' = length'
    BY <1>2 DEF IrqHandler, NextBlock
  <2>3. Pos = NextStart
    BY <2>1, NextBlockFits DEF Inv, TypeOK, Pos, Places
  <2>4. Pos' = NextStart
    BY <2>2, NextBlockFits, SizeAssumption DEF Inv, Pos, Places
  <2> QED
    BY <1>1, <2>3, <2>4
<1>3. CASE ~(playing /\ DspReason /\ dsp_playing /\ ~chose_autoinit_dma)
  <2>1. UNCHANGED <<started, length, left>>
    BY <1>3 DEF IrqHandler, NextBlock
  <2> QED
    BY <1>1, <2>1 DEF Pos
<1> QED
  BY <1>2, <1>3

LEMMA StepRefines == ~Ambiguous /\ Inv /\ [Next]_vars => [R!Next]_(R!readerVars)
<1> SUFFICES ASSUME ~Ambiguous, Inv, [Next]_vars PROVE R!Next \/ UNCHANGED <<Pos, Running>>
  BY DEF R!readerVars
<1>1. CASE Prepare
  <2>1. ~Running /\ Running' = Running /\ started' = 0 /\ left' = length' /\ length' \in 1 .. Size
    BY <1>1, SizeAssumption DEF Prepare, Interval, FirstLength, Running
  <2>2. \A l \in 1 .. Size : (IF 0 + (l - l) = Size THEN 0 ELSE 0 + (l - l)) = 0
    BY SizeAssumption
  <2>3. Pos' = 0
    BY <2>1, <2>2 DEF Pos
  <2>4. R!Arm
    BY <2>1, <2>3 DEF R!Arm
  <2> QED
    BY <2>4 DEF R!Next
<1>2. CASE Unprepare \/ SetPlaying \/ StopDsp \/ ClearPlaying
  BY <1>2
  DEF Unprepare, SetPlaying, StopDsp, ClearPlaying, Running, Pos, blockVars, hwVars
<1>3. CASE Begin
  <2>1. ~Running /\ Running' /\ UNCHANGED <<started, length, left>>
    BY <1>3 DEF Begin, Running, blockVars
  <2>2. Pos = 0
    BY <1>3, SizeAssumption DEF Begin, Inv, TypeOK, Phases, Pos
  <2>3. Pos' = Pos
    BY <2>1 DEF Pos
  <2> QED
    BY <2>1, <2>2, <2>3 DEF R!Next, R!Start
<1>4. CASE Halted
  <2>1. R!Stop
    BY <1>4 DEF Halted, Running, Pos, blockVars, R!Stop
  <2> QED
    BY <2>1 DEF R!Next
<1>5. CASE Read
  BY <1>5 DEF Read, DisableInterrupts, ReadCount, ReadRest, Running, Pos, blockVars, hwVars
<1>6. CASE IrqHandler
  BY <1>6, HandlerStaysPut
<1>7. CASE Transfer
  BY <1>7, TransferAdvances DEF R!Next
<1>8. CASE OtherCause
  BY <1>8 DEF OtherCause, Running, Pos, blockVars
<1>9. CASE UNCHANGED vars
  BY <1>9 DEF vars, Running, Pos, blockVars, hwVars
<1> QED
  BY <1>1, <1>2, <1>3, <1>4, <1>5, <1>6, <1>7, <1>8, <1>9
  DEF Next, Start, Finish, Card

\* In every mode, and whenever the handler comes, the card reads the ring in
\* order, if it interrupts for nothing that the handler takes for the end of a
\* block, such as MIDI in 8-bit play: SbDma then implements DmaReader.
THEOREM RingReadInOrder == ~Ambiguous => (Spec => ReadsInOrder)
<1> SUFFICES ASSUME ~Ambiguous PROVE Spec => ReadsInOrder
  OBVIOUS
<1>1. Init => R!Init
  BY SizeAssumption DEF Init, R!Init, Pos, Running
<1>2. Inv /\ [Next]_vars => [R!Next]_(R!readerVars)
  BY StepRefines
<1> QED
  BY <1>1, <1>2, InvIsInductive, PTL DEF Spec, ReadsInOrder, R!Spec

=============================================================================
