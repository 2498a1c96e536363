------------------------------- MODULE SbDma -------------------------------
(***************************************************************************)
(* The Sound Blaster's play engine (hw/sndsb, as media/dosamp/sc_sb.c      *)
(* drives it): the 8237 DMA channel that reads the ring buffer, the DSP    *)
(* that asks it for one block after the other, the interrupt it raises at  *)
(* the end of a block and the handler that, in the modes without auto-     *)
(* initialisation, programs the next block; and the main program, which    *)
(* starts and stops play and asks where the DMA is, with the interrupts    *)
(* off, from a count register and two variables the handler rewrites.      *)
(*                                                                         *)
(* Transfer, OtherCause and Halted are the hardware.  A place of the ring  *)
(* is one frame of audio.                                                  *)
(***************************************************************************)
EXTENDS Naturals

CONSTANTS
    Size,           \* frames in the ring: buffer_size
    Ambiguous       \* whether the card interrupts for causes, too, that it
                    \* does not tell from the end of a block

ASSUME SizeAssumption  == Size \in Nat \ {0}
ASSUME CauseAssumption == Ambiguous \in BOOLEAN

VARIABLES
    has_reason,         \* dsp_vmaj >= 4: the card tells why it interrupts
    buffer_16bit,       \* with a reason: the one for 16-bit play is awaited
    chose_autoinit_dma, \* the 8237 starts over at the end of the ring
    chose_autoinit_dsp, \* the DSP starts the next block by itself
    interval,           \* buffer_irq_interval: frames of a block
    started,            \* buffer_dma_started
    length,             \* buffer_dma_started_length
    dsp_playing,        \* sndsb's own flag
    playing,            \* wav_state.playing, dosamp's flag
    left,               \* the 8237's count, plus 1; 0 after terminal count
    dsp,                \* frames the DSP still asks for in this block
    irq,                \* pending causes: "dsp" (end of block), "midi", "mpu"
    main,               \* where the main program is
    rd,                 \* how far a position read is, between cli and sti
    count,              \* the count that read found
    shown,              \* the position it computed
    actual              \* where the DMA was when the count was read

modeVars  == <<has_reason, buffer_16bit, chose_autoinit_dma, chose_autoinit_dsp, interval>>
blockVars == <<started, length>>
hwVars    == <<left, dsp, irq>>
readVars  == <<rd, count, shown, actual>>
vars == <<modeVars, blockVars, hwVars, readVars, dsp_playing, playing, main>>

Places == 0 .. Size - 1
Active == {"begun", "playing"}

\* The place the DMA reads next.
Pos == IF started + (length - left) = Size THEN 0 ELSE started + (length - left)

\* Mutant: the position is read without _cli().
InterruptsEnabledMut == TRUE

\* _cli() lasts from the read of the count to the end of the computation.
InterruptsEnabled == rd = "none"

\* The processor takes a pending interrupt before the next instruction of main.
Quiet == irq = {} /\ InterruptsEnabled

-----------------------------------------------------------------------------
(* The main program: sc_sb.c prepare_play, start_playback, stop_playback.  *)

\* The frames the 8237 is told of first: the ring, or one block of it.
FirstLength(autodma, n) == IF autodma THEN Size ELSE n

\* An interval of 0, or one longer than the ring, means the ring.
Interval(n) == IF n = 0 \/ n > Size THEN Size ELSE n

\* sndsb_prepare_dsp_playback() and sndsb_setup_dma(): which of the three
\* modes is the user's, the card's and the DOS driver's choice.  An ESS plays 16
\* bits, too, but always interrupts as an 8-bit card without a reason.
Prepare ==
    /\ Quiet /\ main = "stopped" /\ ~dsp_playing
    /\ \E autodma, autodsp \in BOOLEAN, n \in 0 .. Size :
          /\ buffer_16bit' \in IF has_reason THEN BOOLEAN ELSE {FALSE}
          /\ chose_autoinit_dma' = autodma
          /\ chose_autoinit_dsp' = (autodma /\ autodsp)
          /\ interval' = Interval(n)
          /\ started' = 0
          /\ length' = FirstLength(autodma, interval')
          /\ left' = length'
    /\ dsp' = 0
    /\ main' = "prepared"
    /\ UNCHANGED <<has_reason, dsp_playing, playing, irq, readVars>>

Unprepare ==
    /\ Quiet /\ main = "prepared"
    /\ main' = "stopped"
    /\ UNCHANGED <<modeVars, blockVars, hwVars, readVars, dsp_playing, playing>>

\* sndsb_begin_dsp_playback(): the command that gives the DSP its first block.
Begin ==
    /\ Quiet /\ main = "prepared" /\ ~dsp_playing
    /\ dsp_playing' = TRUE
    /\ dsp' = interval
    /\ main' = "begun"
    /\ UNCHANGED <<modeVars, blockVars, left, irq, readVars, playing>>

SetPlaying ==
    /\ Quiet /\ main = "begun"
    /\ playing' = TRUE
    /\ main' = "playing"
    /\ UNCHANGED <<modeVars, blockVars, hwVars, readVars, dsp_playing>>

\* sndsb_stop_dsp_playback() up to the command that halts the DSP.
StopDsp ==
    /\ Quiet /\ main = "playing"
    /\ dsp_playing' = FALSE
    /\ main' = "halting"
    /\ UNCHANGED <<modeVars, blockVars, hwVars, readVars, playing>>

ClearPlaying ==
    /\ Quiet /\ main = "halted"
    /\ playing' = FALSE
    /\ main' = "stopped"
    /\ UNCHANGED <<modeVars, blockVars, hwVars, readVars, dsp_playing>>

\* update_wav_dma_position(): _cli(); the DMA goes on, whose count is read
\* first, ...
DisableInterrupts ==
    /\ Quiet /\ main \in {"prepared", "begun", "playing"}
    /\ rd' = "cli"
    /\ UNCHANGED <<modeVars, blockVars, hwVars, dsp_playing, playing, main,
                   count, shown, actual>>

ReadCount ==
    /\ rd = "cli"
    /\ rd' = "count" /\ count' = left /\ actual' = Pos
    /\ UNCHANGED <<modeVars, blockVars, hwVars, dsp_playing, playing, main, shown>>

\* Mutant: the terminal count is not recognised: 0xFFFF is cut to the block's length,
\* and the position is the block's first frame.
PositionOfMut(n) ==
    LET r == IF n = 0 \/ n - 1 >= length THEN length - 1 ELSE n - 1
    IN  (length - (r + 1)) + started

\* ... then turned into a place of the ring: a count past the terminal count
\* reads 0xFFFF and is taken for 0, the last frame of the block.
PositionOf(n) ==
    LET r == IF n = 0 THEN 0 ELSE IF n - 1 >= length THEN length - 1 ELSE n - 1
    IN  (length - (r + 1)) + started

ReadRest ==
    /\ rd = "count"
    /\ shown' = PositionOf(count)
    /\ rd' = "none"
    /\ UNCHANGED <<modeVars, blockVars, hwVars, dsp_playing, playing, main, count, actual>>

-----------------------------------------------------------------------------
(* The interrupt handler: sc_sb.c irq_callback, sndsb_interrupt_reason,    *)
(* sndsb_irq_continue and sndsb_send_buffer_again.                         *)

\* The bit of the reason that a cause sets: the 8-bit DSP shares bit 0 with
\* MIDI, the 16-bit DSP has bit 1 and the MPU-401 bit 2 to itself.
Bit(cause) == IF cause = "mpu" THEN 2
              ELSE IF cause = "dsp" /\ buffer_16bit THEN 1 ELSE 0

\* The bits that are set; a card that cannot tell is taken to mean the DSP.
Reason == IF has_reason THEN {Bit(cause) : cause \in irq} ELSE {0}

\* Mutant: the handler compares the reason instead of testing its bit.
DspReasonMut == Reason = {Bit("dsp")}

\* sndsb_irq_continue()
DspReason == Bit("dsp") \in Reason

NextStart ==
    IF started + length >= Size THEN 0 ELSE started + length

\* Mutant: the last block is not cut at the end of the ring.
NextEndMut ==
    IF started + length >= Size THEN interval ELSE started + length + interval

\* The end of the next block, cut short where the ring ends.
NextEnd ==
    IF started + length >= Size THEN interval
    ELSE IF started + length + interval > Size THEN Size
    ELSE started + length + interval

NextBlock ==
    IF chose_autoinit_dma THEN
        /\ dsp' = IF chose_autoinit_dsp THEN dsp ELSE interval
        /\ UNCHANGED <<started, length, left>>
    ELSE
        /\ started' = NextStart
        /\ length' = NextEnd - NextStart
        /\ left' = NextEnd - NextStart
        /\ dsp' = NextEnd - NextStart

IrqHandler ==
    /\ irq # {} /\ InterruptsEnabled
    /\ irq' = {}
    /\ IF playing /\ DspReason /\ dsp_playing
         THEN NextBlock
         ELSE UNCHANGED <<started, length, left, dsp>>
    /\ UNCHANGED <<modeVars, readVars, dsp_playing, playing, main>>

-----------------------------------------------------------------------------
(* The hardware.                                                           *)

\* A block lasts 1/128 s at least (set_irq_interval): longer than it takes
\* start_playback to set its flag.
BlockOutlastsStart == main = "begun" => dsp > 1

Transfer ==
    /\ dsp > 0 /\ left > 0
    /\ BlockOutlastsStart
    /\ left' = IF left = 1 /\ chose_autoinit_dma THEN length ELSE left - 1
    /\ dsp' = IF dsp = 1 /\ chose_autoinit_dsp THEN interval ELSE dsp - 1
    /\ irq' = IF dsp = 1 THEN irq \cup {"dsp"} ELSE irq
    /\ UNCHANGED <<modeVars, blockVars, readVars, dsp_playing, playing, main>>

\* The card's other interrupt causes; without Ambiguous only those whose bit is
\* not the awaited one: the MPU-401's, and MIDI's in 16-bit play.  What uses
\* the MPU-401 hooked the interrupt before dosamp, which chains to it: it is
\* acknowledged there.
OtherCause ==
    /\ \E cause \in {"midi", "mpu"} :
          /\ Ambiguous \/ (has_reason /\ Bit(cause) # Bit("dsp"))
          /\ irq' = irq \cup {cause}
    /\ UNCHANGED <<modeVars, blockVars, left, dsp, readVars, dsp_playing, playing, main>>

\* sndsb_wait_for_dma_to_stop() has seen the DMA stand still.
Halted ==
    /\ main = "halting" /\ InterruptsEnabled
    /\ dsp' = 0
    /\ main' = "halted"
    /\ UNCHANGED <<modeVars, blockVars, left, irq, readVars, dsp_playing, playing>>

-----------------------------------------------------------------------------
Init ==
    /\ has_reason \in BOOLEAN /\ buffer_16bit = FALSE
    /\ chose_autoinit_dma = FALSE /\ chose_autoinit_dsp = FALSE
    /\ interval = Size
    /\ started = 0 /\ length = Size /\ left = Size
    /\ dsp = 0 /\ irq = {}
    /\ dsp_playing = FALSE /\ playing = FALSE
    /\ main = "stopped"
    /\ rd = "none" /\ count = 0 /\ shown = 0 /\ actual = 0

Start == Prepare \/ Unprepare \/ Begin \/ SetPlaying
Finish == StopDsp \/ Halted \/ ClearPlaying
Read == DisableInterrupts \/ ReadCount \/ ReadRest
Card == Transfer \/ OtherCause

Next == Start \/ Finish \/ Read \/ IrqHandler \/ Card

Spec == Init /\ [][Next]_vars

\* The DMA moves, a pending interrupt is taken, and the main program goes on
\* from one statement to the next however often it is interrupted.
Fairness ==
    /\ WF_vars(Transfer) /\ WF_vars(IrqHandler)
    /\ WF_vars(ReadCount) /\ WF_vars(ReadRest) /\ WF_vars(Halted)
    /\ SF_vars(SetPlaying)

LiveSpec == Spec /\ Fairness

-----------------------------------------------------------------------------
(* Properties.                                                             *)

\* The block being played lies inside the ring, the count inside the block,
\* and a position handed to the program is a place of the ring.
TypeOK ==
    /\ has_reason \in BOOLEAN /\ buffer_16bit \in BOOLEAN
    /\ chose_autoinit_dma \in BOOLEAN /\ chose_autoinit_dsp \in BOOLEAN
    /\ interval \in 1 .. Size
    /\ started \in Places /\ length \in 1 .. Size
    /\ left \in 0 .. Size /\ dsp \in 0 .. Size
    /\ irq \in SUBSET {"dsp", "midi", "mpu"}
    /\ dsp_playing \in BOOLEAN /\ playing \in BOOLEAN
    /\ main \in {"stopped", "prepared", "begun", "playing", "halting", "halted"}
    /\ rd \in {"none", "cli", "count"}
    /\ count \in 0 .. Size /\ shown \in Places /\ actual \in Places

Running == main \in {"begun", "playing", "halting"}

R == INSTANCE DmaReader WITH pos <- Pos, running <- Running

\* Refinement: in every mode the card reads the ring in order, each place
\* once a lap, however the blocks divide the ring and however late the handler
\* comes: sndsb_send_buffer_again neither skips nor repeats a frame.  That needs
\* ~Ambiguous: a MIDI interrupt in 8-bit play starts a block before its time.
ReadsInOrder == R!Spec

\* A position the main program was given is where the DMA was, or one frame
\* behind it, whatever the handler did meanwhile: a read that mixed one block's
\* count with the next block's start would be off by a block.
PositionHonest ==
    rd = "none" => shown = actual \/ R!Succ(shown) = actual

\* Play does not stall: while it runs the DMA leaves every place, so no block
\* end is missed by the handler, not even one that comes with another cause of
\* another bit.
KeepsReading ==
    \A i \in Places : (Running /\ Pos = i) ~> (Pos # i \/ ~Running)

=============================================================================
