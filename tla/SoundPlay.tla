----------------------------- MODULE SoundPlay -----------------------------
(***************************************************************************)
(* The player of media/dosamp: its main loop fills the sound card's ring   *)
(* from a file that starts over at its end (dosamp.c), follows the DMA     *)
(* through the ring and corrects itself after an underrun (sc_sb.c), and   *)
(* works out which part of the file is being heard from the counters and   *)
(* the table of rebase events (trkrbase.c).                                *)
(*                                                                         *)
(* The card is DmaReader, which SbDma implements.  Everything is counted   *)
(* in blocks of one sample for all channels; a block of the file is its    *)
(* number.  The conversion of rate and format is left out: file and card   *)
(* have the same format, and the ring is written to in place (mmap_write). *)
(***************************************************************************)
EXTENDS Integers, Sequences, FiniteSetsExt

CONSTANTS
    Size,           \* blocks in the ring: buffer_size
    MinLoad,        \* wav_play_min_load_size: no more than 1/4 of the ring
    LoadBlock,      \* wav_play_load_block_size: no more than 1/2 of the ring
    FileLen,        \* blocks in the file: wav_data_length
    MaxRebase,      \* MAX_REBASE: places in the table of events
    Span,           \* how far the DMA gets in one turn of the main loop ...
    StallSpan,      \* ... and in a turn in which the disk keeps it waiting
    MaxMishaps,     \* bound: such turns and reads that fail, in one play
    CounterMax      \* bound: the user stops before so much has been written

ASSUME RingAssumption ==
    /\ Size \in Nat /\ LoadBlock \in Nat /\ MinLoad \in 1 .. LoadBlock
    /\ 4 * MinLoad <= Size /\ 2 * LoadBlock <= Size
ASSUME FileAssumption == FileLen \in Nat \ {0}
\* The table has a place for each start of the file and each failed read in a
\* ringful, for the block under the DMA, and one that stays free.
ASSUME EventsAssumption ==
    MaxRebase \in Nat /\ (MaxRebase - 2 - MaxMishaps) * FileLen >= Size - 1
ASSUME PaceAssumption ==
    /\ Span \in Nat \ {0}
    /\ StallSpan \in Nat /\ MaxMishaps \in Nat
    /\ CounterMax \in Nat /\ LoadBlock <= CounterMax

VARIABLES
    pos, running,       \* the card
    last_io,            \* buffer_last_io: where the next block is written
    dma_position,       \* where the card was when it was last asked
    write_counter, play_counter, play_counter_prev, play_empty, playing,
    file_pos,           \* wav_source->file_pos, from the start of the data
    wav_position,       \* where play starts, or what has been read
    events,             \* the live part of wav_rebase_events, oldest first
    wav_play_position,  \* what the user is shown
    stuck_test,         \* the user's key that stops the loading
    pc,                 \* where the main program is
    howmuch, towrite,   \* load_audio_copy(): still to load, in this write
    \* What nobody in the program knows:
    mem,                \* what is in the ring
    gap, solid,         \* from the DMA on: blocks not meant to be heard, and
                        \* the blocks queued behind them, up to ...
    reserved,           \* ... those that mmap_write promised to fill
    seen,               \* what was under the DMA when it was last asked
    since,              \* ... and how many blocks ago it was one of the file
    budget, mishaps

wavState == <<write_counter, play_counter, play_counter_prev, play_empty>>
fileVars == <<file_pos, wav_position, events>>
loadVars == <<howmuch, towrite>>
ringVars == <<mem, gap, solid, reserved>>
userVars == <<wav_play_position, stuck_test>>
paceVars == <<budget, mishaps>>
seenVars == <<seen, since>>
vars == <<pos, running, last_io, dma_position, wavState, playing, fileVars, userVars,
          pc, loadVars, ringVars, seenVars, paceVars>>

Card == INSTANCE DmaReader

Places == 0 .. Size - 1
Place(i) == IF i >= Size THEN i - Size ELSE i
Blocks == 0 .. FileLen - 1

Unknown == -1           \* nothing of the file, or not to be told
Silence == -2           \* what begin_play() fills the ring with, or left over
Garbled == -3           \* what a read that failed leaves behind

Least(a, b) == IF a < b THEN a ELSE b
Most(a, b)  == IF a > b THEN a ELSE b

-----------------------------------------------------------------------------
(* sc_sb.c: how far the DMA is behind the write pointer.                   *)

\* Mutant: an empty distance always means an empty ring.
PlayDelayMut(io, dma, empty) ==
    IF io < dma THEN io - dma + Size ELSE io - dma

\* play_delay_bytes: pointers that meet mean a full ring, unless nothing has
\* been written yet.
PlayDelay(io, dma, empty) ==
    IF io < dma THEN io - dma + Size
    ELSE IF io = dma /\ ~empty THEN Size
    ELSE io - dma

PlayCounter(written, delay) == Most(written - delay, 0)

\* Mutant: the last value instead of the highest.
HighestMut(counter) == counter

Highest(counter) == Most(play_counter_prev, counter)

\* update_wav_play_delay(), from the pointer and counter of this step.
UpdatePlayDelay ==
    /\ play_counter' =
          PlayCounter(write_counter', PlayDelay(last_io', dma_position', play_empty'))
    /\ play_counter_prev' = Highest(play_counter')

\* The block of the file that is under the DMA, if it is one that was queued to
\* be heard now; end is the file position after the last one queued.
UnderDma(end) ==
    IF gap' = 0 /\ solid' + reserved' > 0
    THEN (end + Size * FileLen - (solid' + reserved')) % FileLen
    ELSE Unknown

\* update_wav_dma_position(): SbDma!PositionHonest, without the odd block.
ReadPosition(end) ==
    /\ dma_position' = pos
    /\ seen' = UnderDma(end)
    /\ since' = IF seen' = Unknown THEN since ELSE 0
    /\ UpdatePlayDelay

-----------------------------------------------------------------------------
(* trkrbase.c: which part of the file a counter is about.                  *)

\* Mutant: the oldest event is thrown away one place too early.
RebaseAddMut(at, position) ==
    LET all == Append(events, [event_at |-> at, wav_position |-> position])
    IN  IF Len(all) > MaxRebase - 2 THEN Tail(all) ELSE all

\* rebase_add(): one place of the table stays free.
RebaseAdd(at, position) ==
    LET all == Append(events, [event_at |-> at, wav_position |-> position])
    IN  IF Len(all) > MaxRebase - 1 THEN Tail(all) ELSE all

\* rebase_find() stops at the first event that is later, or at the end.
Later(counter) ==
    { i \in 1 .. Len(events) + 1 : i <= Len(events) => events[i].event_at > counter }

\* update_play_position()
Shown(counter, isplaying, position) ==
    LET i == Min(Later(counter)) - 1
    IN  IF i > 0 THEN (counter - events[i].event_at) + events[i].wav_position
        ELSE IF isplaying THEN 0 ELSE position

-----------------------------------------------------------------------------
(* The card, while the main program does something else.                   *)

\* A block is heard, and of no interest until its place is filled again.  Once
\* the DMA has passed the write pointer, that is a lap
\* ahead again, behind what is left over in the ring.
Advance ==
    /\ Card!Advance
    /\ budget > 0 /\ budget' = budget - 1
    /\ CASE gap > 0      -> gap' = gap - 1 /\ UNCHANGED <<solid, reserved>>
         [] gap = 0 /\ solid > 0 -> solid' = solid - 1 /\ UNCHANGED <<gap, reserved>>
         [] gap = 0 /\ solid = 0 /\ reserved > 0 ->
               reserved' = reserved - 1 /\ UNCHANGED <<gap, solid>>
         [] OTHER        -> gap' = Size - 1 /\ UNCHANGED <<solid, reserved>>
    /\ since' = Least(since + 1, Size)
    /\ mem' = [mem EXCEPT ![pos] = Silence]
    /\ UNCHANGED <<last_io, dma_position, wavState, playing, fileVars, userVars, pc,
                   loadVars, seen, mishaps>>

-----------------------------------------------------------------------------
(* wav_idle() and load_audio_copy(), step by step.                         *)

\* How far the card gets until the next turn.
Pace ==
    \/ budget' = Span /\ mishaps' = mishaps
    \/ mishaps < MaxMishaps /\ mishaps' = mishaps + 1 /\ budget' = StallSpan

Poll ==
    /\ pc = "idle" /\ playing
    /\ write_counter + LoadBlock <= CounterMax
    /\ pc' = "poll"
    /\ UNCHANGED <<write_counter, play_empty, last_io, gap, solid, reserved>>
    /\ ReadPosition(file_pos)
    /\ Pace
    /\ UNCHANGED <<pos, running, playing, fileVars, userVars, loadVars, mem>>

\* update_play_position(), with the counters of this step.
ShowPosition ==
    wav_play_position' = Shown(play_counter', playing', wav_position)

EndTurn ==
    /\ pc' = IF playing THEN "idle" ELSE "start"
    /\ howmuch' = 0 /\ towrite' = 0
    /\ ShowPosition

Stuck ==
    /\ pc = "poll" /\ stuck_test
    /\ UNCHANGED <<pos, running, last_io, dma_position, wavState, playing, fileVars,
                   stuck_test, ringVars, seenVars, paceVars>>
    /\ EndTurn

\* "don't want to incur too much DOS I/O"
WorthIt(n) == n >= MinLoad

\* can_write(), and whether to go on or to end the turn.
CanWrite ==
    /\ pc = "preroll" \/ (pc = "poll" /\ ~stuck_test)
    /\ UNCHANGED <<write_counter, play_empty, last_io, gap, solid, reserved>>
    /\ ReadPosition(file_pos)
    /\ LET avail == Size - PlayDelay(last_io, pos, play_empty)
           n     == Least(LoadBlock, avail)
       IN  IF WorthIt(n)
           THEN pc' = "load" /\ howmuch' = n /\ UNCHANGED <<towrite, wav_play_position>>
           ELSE EndTurn
    /\ UNCHANGED <<pos, running, playing, fileVars, stuck_test, mem, paceVars>>

\* wav_rewind().  That the seek of an open file fails, which ends the load, is
\* left out, here and in ReadFails.
StartOver == file_pos' = 0 /\ wav_position' = 0

\* wav_rewind() and wav_rebase_position_event() at the end of the file.
Rewind ==
    /\ pc = "load" /\ file_pos = FileLen
    /\ StartOver
    /\ events' = RebaseAdd(write_counter, 0)
    /\ UNCHANGED <<pos, running, last_io, dma_position, wavState, playing, userVars, pc,
                   loadVars, ringVars, seenVars, paceVars>>

\* The next n places are queued.  In an underrun the DMA may be among them
\* already: what lies behind it is late by a lap.
Queue(n) ==
    IF gap = 0 \/ gap + solid + n <= Size
    THEN reserved' = n /\ UNCHANGED <<gap, solid>>
    ELSE reserved' = gap + solid + n - Size /\ gap' = 0 /\ solid' = 0

\* mmap_write(): the pointer and the counter are ahead of the contents.
MmapWrite ==
    /\ pc = "load" /\ file_pos < FileLen
    /\ towrite' = Least(Least(FileLen - file_pos, howmuch), Size - last_io)
    /\ Queue(towrite')
    /\ write_counter' = write_counter + towrite'
    /\ last_io' = IF last_io + towrite' >= Size THEN 0 ELSE last_io + towrite'
    /\ play_empty' = FALSE
    /\ ReadPosition(file_pos + towrite')
    /\ pc' = "read"
    /\ UNCHANGED <<pos, running, playing, fileVars, userVars, howmuch, mem, paceVars>>

\* The places mmap_write gave out, of which the DMA may have passed some.
Given == { Place(last_io + Size - k) : k \in 1 .. towrite }

Filled ==
    /\ solid' = solid + reserved /\ reserved' = 0 /\ gap' = gap
    /\ file_pos' = file_pos + towrite
    /\ wav_position' = file_pos'
    /\ howmuch' = howmuch - towrite /\ towrite' = 0
    /\ pc' = IF howmuch' = 0 THEN "clamp" ELSE "load"
    /\ UNCHANGED <<pos, running, last_io, dma_position, wavState, playing, userVars,
                   seenVars, budget>>

ReadFile ==
    /\ pc = "read"
    /\ mem' = [i \in Places |->
                 IF i \in Given
                 THEN file_pos + towrite - (CHOOSE k \in 1 .. towrite : Place(last_io + Size - k) = i)
                 ELSE mem[i]]
    /\ UNCHANGED <<events, mishaps>>
    /\ Filled

\* read() fails: the part is skipped, by a seek that does not fail.
ReadFails ==
    /\ pc = "read" /\ mishaps < MaxMishaps
    /\ mishaps' = mishaps + 1
    /\ mem' = [i \in Places |-> IF i \in Given THEN Garbled ELSE mem[i]]
    /\ events' = RebaseAdd(write_counter, file_pos + towrite)
    /\ Filled

\* Mutant: a delay that has grown is taken for an underrun.
BehindMut(counter) == counter <= play_counter_prev

Behind(counter) == counter < play_counter_prev

\* Forward from where the card was when it was last asked.
Clamped == Place(dma_position + MinLoad)

\* clamp_if_behind(), at the end of a turn in which something was loaded.
Clamp ==
    /\ pc = "clamp"
    /\ UNCHANGED <<write_counter, play_empty, dma_position, mem, reserved>>
    /\ IF Behind(PlayCounter(write_counter, PlayDelay(last_io, dma_position, play_empty)))
         THEN /\ last_io' = Clamped
              /\ gap' = Place(last_io' + Size - pos) /\ solid' = 0
         ELSE UNCHANGED <<last_io, gap, solid>>
    /\ UpdatePlayDelay
    /\ UNCHANGED <<pos, running, playing, fileVars, stuck_test, seenVars, paceVars>>
    /\ EndTurn

-----------------------------------------------------------------------------
(* begin_play(), stop_play() and the keys.                                 *)

\* Nothing of what is left in the ring will be heard.
RingForgotten ==
    /\ mem' = [i \in Places |-> Silence]
    /\ gap' = 0 /\ solid' = 0 /\ reserved' = 0 /\ since' = 0
    /\ budget' = 0 /\ mishaps' = 0

\* The ring is silenced, the card prepared, the counters are reset, and the
\* file is read from wav_position on.
Begin ==
    /\ pc = "off" /\ pc' = "preroll"
    /\ Card!Arm
    /\ RingForgotten
    /\ last_io' = 0 /\ dma_position' = 0
    /\ write_counter' = 0 /\ play_counter' = 0 /\ play_counter_prev' = 0
    /\ play_empty' = TRUE
    /\ file_pos' = wav_position
    /\ events' = <<[event_at |-> 0, wav_position |-> wav_position]>>
    /\ seen' = Unknown
    /\ UNCHANGED <<playing, wav_position, userVars, loadVars>>

Start ==
    /\ pc = "start" /\ pc' = "idle"
    /\ Card!Start
    /\ playing' = TRUE
    /\ Pace
    /\ UNCHANGED <<last_io, dma_position, wavState, fileVars, userVars, loadVars,
                   ringVars, seenVars>>

\* stop_playback() asks the card where it is ...
StopPlay ==
    /\ pc = "idle" /\ playing /\ pc' = "stopping"
    /\ UNCHANGED <<write_counter, play_empty, last_io, gap, solid, reserved>>
    /\ ReadPosition(file_pos)
    /\ UNCHANGED <<pos, running, playing, fileVars, userVars, loadVars, mem, paceVars>>

\* Mutant: play goes on from what has been read, not from what has been heard.
ResumeAtMut(shown) == wav_position

ResumeAt(shown) == shown

\* ... and stops it, some blocks later.
Halt ==
    /\ pc = "stopping" /\ pc' = "off"
    /\ Card!Stop
    /\ playing' = FALSE
    /\ UNCHANGED <<last_io, dma_position, wavState, file_pos, events, stuck_test, loadVars,
                   seen>>
    /\ RingForgotten
    /\ ShowPosition
    /\ wav_position' = ResumeAt(wav_play_position')

\* move_pos(), to anywhere in the file and to its end.
MovePos ==
    /\ pc = "off" /\ ~playing
    /\ events' = <<>>
    /\ wav_position' \in 0 .. FileLen
    /\ wav_play_position' = wav_position'
    /\ seen' = Unknown /\ since' = since
    /\ UNCHANGED <<pos, running, last_io, dma_position, wavState, playing, file_pos,
                   stuck_test, pc, loadVars, ringVars, paceVars>>

ToggleStuck ==
    /\ pc = "idle" /\ stuck_test' = ~stuck_test
    /\ UNCHANGED <<pos, running, last_io, dma_position, wavState, playing, fileVars,
                   wav_play_position, pc, loadVars, ringVars, seenVars, paceVars>>

-----------------------------------------------------------------------------
Init ==
    /\ Card!Init
    /\ last_io = 0 /\ dma_position = 0
    /\ write_counter = 0 /\ play_counter = 0 /\ play_counter_prev = 0
    /\ play_empty = TRUE /\ playing = FALSE
    /\ file_pos = 0 /\ wav_position = 0 /\ events = <<>>
    /\ wav_play_position = 0 /\ stuck_test = FALSE
    /\ pc = "off" /\ howmuch = 0 /\ towrite = 0
    /\ mem = [i \in Places |-> Silence]
    /\ gap = 0 /\ solid = 0 /\ reserved = 0 /\ seen = Unknown /\ since = 0
    /\ budget = 0 /\ mishaps = 0

Turn == Poll \/ Stuck \/ CanWrite \/ Rewind \/ MmapWrite \/ ReadFile \/ Clamp
User == Begin \/ Start \/ StopPlay \/ Halt \/ MovePos \/ ToggleStuck

Next == Turn \/ ReadFails \/ User \/ Advance

Spec == Init /\ [][Next]_vars

-----------------------------------------------------------------------------
(* Properties.                                                             *)

\* The write pointer is where the blocks queued end.
TypeOK ==
    /\ pos \in Places /\ last_io \in Places /\ dma_position \in Places
    /\ running \in BOOLEAN /\ playing \in BOOLEAN /\ play_empty \in BOOLEAN
    /\ write_counter \in 0 .. CounterMax
    /\ play_counter \in 0 .. write_counter /\ play_counter_prev \in 0 .. write_counter
    /\ file_pos \in 0 .. FileLen /\ wav_position \in 0 .. FileLen
    /\ Len(events) < MaxRebase
    /\ mem \in [Places -> Blocks \cup {Silence, Garbled}]
    /\ gap \in Nat /\ solid \in Nat /\ reserved \in Nat /\ since \in 0 .. Size
    /\ gap + solid + reserved <= Size
    /\ pc # "off" => last_io = Place(pos + gap + solid + reserved)

\* What is queued is the file, block after block and from its start again after
\* its end, up to the one that is read next: nothing that is still to be heard
\* is overwritten, skipped or read twice, wherever ring and file end.
QueueInOrder ==
    \A k \in 1 .. solid :
        mem[Place(pos + gap + solid - k)] \in
            {Garbled, (file_pos + Size * FileLen - k) % FileLen}

\* The position that is shown, and from which play goes on after a stop, is the
\* block of the file that was under the DMA when the card was asked.
PositionShown ==
    /\ pc \in {"idle", "start", "off"} /\ seen # Unknown => wav_play_position = seen
    /\ pc = "off" => wav_position = wav_play_position

\* The write pointer is forced forward only in an underrun: no block that is
\* queued behind the one being heard is dropped.
NoSpuriousClamp == [][Clamp /\ last_io' # last_io => seen = Unknown]_vars

\* "force the write pointer forward if underrun to at least ensure the next
\* audio written will be immediately audible": an underrun that a load finds is
\* noticed, and what was loaded or comes next is heard within MinLoad blocks.
\* Only if less than a ring ago the card was seen at a block that was queued,
\* and not at the very first (with play_counter_prev = 0 no counter is behind),
\* and has not got further than MinLoad since it was asked.
SoonAudible ==
    [][Clamp /\ seen = Unknown /\ since < Size /\ play_counter_prev > 0
             /\ Place(pos + Size - dma_position) <= MinLoad
          => gap' <= MinLoad]_vars

=============================================================================
