# doslib verification

DOSLIB is a library of hardware access code for MS-DOS, with the programs that
grew up around it. Most of it is detection code, register access, test programs
and vendored libraries. This project models the part in which concurrency,
failure and ordering are the program's own business: the remote control tool,
`tool/remctl/serial`, and playing sound: the Sound Blaster's play engine,
`hw/sndsb`, and the player on top of it, `media/dosamp`.

## 1. Inventory

### The remote control tool

`remsrv.c` runs on a DOS machine, as a TSR or in the foreground, and obeys
packets that arrive over a serial line. `remctlclient.c` sends them from a modern
machine, one command per run. `proto.h` has the packet: mark, length, sequence
number, type, checksum, data.

| part | state | operations | interacts with |
|---|---|---|---|
| server: handlers | `in_packet_handling`, `halt_system`, `inside_int28`, `cur_pkt_in`, `cur_pkt_out`, the handlers active on the stack | `uart_irq()`, `timer_irq()`, `my_int28()`, `do_check_io()`, `handle_packet()`, `halt_system_loop()` | each other, by interrupting; DOS, by INT 21h |
| server: DOS resources | `open_file_fd`, `saved_psp`, `saved_dta` | the FILE commands | DOS' current PSP, DTA, handles, InDOS and critical error flag |
| server: receiver, transmitter | `cur_pkt_in_write`, `cur_pkt_out_write`, both 8 bits wide | `process_input()`, `do_process_output()` | the UART, the client's flood |
| server: keyboard | none of its own | `do_dos_stuff_bios_keyboard_command()` | the BIOS' ring buffer, INT 9, INT 16h |
| server: sequence numbers | `cur_pkt_in_seq`, `cur_pkt_out_seq` | `inpkt_validate()`, `begin_output_packet()` | the client's |
| client: link | `conn_fd`, `cur_pkt_seq`, `cur_pkt_recv_seq`, patience | `do_send_packet()`, `do_recv_packet()`, `reset_packet_io()`, `do_connect()` | the server, over a line that loses, changes and delays |
| client: commands | what is copied, dumped, listed so far | upload, download, memdump, dir, stuffkey; one-shot commands | the user |

What is hard: interrupt handlers that nest in each other's DOS calls although
DOS is not reentrant; two 8-bit indices into 261-byte buffers; a packet protocol
with retries and sequence numbers that start over; and commands of many packets
that must not lose, double or misplace anything when one of them fails.

What makes it correct: DOS is entered only when it can be, and gets everything
back; no packet or reply is touched by two handlers at once; HALT and UNHALT
work; the receiver recovers from every lost byte; "OK" means that it is done.

### Sound

| part | state | operations | interacts with |
|---|---|---|---|
| `hw/sndsb`: play engine | `buffer_dma_started`, `buffer_dma_started_length`, `buffer_irq_interval`, `chose_autoinit_*`, `dsp_playing`; the 8237's count; the DSP's block | prepare, begin, stop; `sndsb_interrupt_reason()`, `sndsb_irq_continue()`, `sndsb_send_buffer_again()`; `sndsb_read_dma_buffer_position()` | the DMA and the DSP, which go on by themselves; the interrupt handler of `sc_sb.c` |
| dosamp: ring | `buffer_last_io_point`, `write_counter`, `play_counter`, `play_counter_prev`, `play_empty`, `dma_position` | `can_write()`, `mmap_write()`, `clamp_if_behind()`, `poll()` | the DMA, which empties what they fill |
| dosamp: main loop | `file_pos`, `wav_position`, what is loaded in this turn | `wav_idle()`, `load_audio_copy()`, `begin_play()`, `stop_play()`, `move_pos()` | the disk, which is slow or fails; the user |
| dosamp: rebase events | `wav_rebase_events`: from which counter on the ring has which part of the file | `rebase_add()`, `rebase_find()`, `update_play_position()` | the counters |

What is hard: three clocks, the DMA's, the interrupt's and the main program's,
of which the program sees only a position modulo the ring, in which full and
empty look the same; a position composed of a register and two variables that an
interrupt rewrites; a block size that need not divide the ring; a disk that lets
the DMA overtake; a file that starts over in the middle of a load; a table that
drops its oldest entry.

What makes it correct: the card reads every place of the ring once a lap, in
order, in every mode; what is queued is the file, block after block, and is not
overwritten before it is heard; the position that is shown and resumed from is
the one that is heard; an underrun is noticed and corrected, and nothing is dropped
without one.

### The rest of the repository

`PROJECT.json` lists every part with its status. In short: the other `hw/*` are
device libraries without interaction of their own. `fmt`, `tool/linker` and
`lang` are sequential programs over large data. The rest is demonstrations,
samples, build files and vendored code.

`PROJECT.json` also lists the hazards: what can go wrong here that a test would
hardly reach, each at its line, with the properties that would catch it.

## 2. Plan

| order | module | what | status |
|---|---|---|---|
| 1 | `RemServer` | handlers, DOS, halt | checked, proved |
| 2 | `RemRx`, `RemTx` | bytes in, bytes out | checked, proved |
| 3 | `KbdStuff` | the keyboard ring | checked; proved while there is room |
| 4 | `RemLink` | sequence numbers, faults, reconnection; library of 5 and 6 | checked and proved through 5 and 6 |
| 5 | `RemUpload`, `RemDownload`, with the abstract `FileCopy` | file transfer | checked, refinement checked, both proved |
| 6 | `RemMemdump`, `RemDir`; `RemReads` composes them with `RemDownload` | repeated for ever; many replies to one request | checked, proved |
| 7 | `SbDma`, with the abstract `DmaReader` | DMA, DSP and interrupt of the Sound Blaster | checked, refinement checked, both proved |
| 8 | `SoundPlay`, over `DmaReader` | the player's ring, counters and positions | checked, proved |

Left for later: a server that
restarts in the middle of a session, as one more fault of `RemLink`; the
non-mmap write of dosamp, which other sound cards use, and a `begin_play()` that
fails half way.

## 3. The modules

**RemServer.** One CPU. Between two INT 21h calls a handler runs with interrupts
off, so that what it does up to the next call is one step. `stack` has a frame
for each active handler; a new one is pushed only where interrupts are on: in the
foreground, in the delay of `my_int28()`, inside a DOS call. `HandlePacket` is a
packet that does not enter DOS; one that does is `EnterDos`, `FindNext` once for
each directory entry, and `LeaveDos`. `process_output()` may or may not send the
rest of a reply (`ProcessOutputSent`, `ProcessOutputPending`). The foreground
enters and leaves DOS and hits critical errors. The modes of the command line
(TSR or not, `-noint`, `-ic`) are constants.

**RemRx** has the receiver of the server byte by byte with its 8-bit index, the
client's packets, the flood of 300 bytes after a timeout and a line that loses
and changes bytes. **RemTx** has the transmitter and the length a READ gives its
reply.

**KbdStuff** has the BIOS' ring with its true offsets, the server's test and
store, the client's retry, and the BIOS' side of it.

**RemLink** is what both ends do with packets: `Send`, `Received`, `Refused`
(checksum or sequence number), `TimedOut` with `ResetSeqs`, `Reconnected` with
the loss of what had arrived, `Answer`, `RejectRequest`, `AnswerBusy`, and the
faults `Lose` and `Damage`. `Offline` is a reconnection that fails: the next
request is not sent, but `remctl_serial_packet_begin()` has numbered it, so that
its sequence number is used up, which after a `reset_packet_io()` is the 0xFF. A
session begins with a server that has just started or one with any sequence
numbers that those before it can have left.

**RemUpload**, **RemDownload**, **RemMemdump** and **RemDir** extend it, each
with the state of one command of the client and of the server side it needs.
`call` is the request the client is at. A chunk, block or entry is its number.
`r` of RemDir is what `do_begin_dir()` or `do_next_dir()` returned last.
**RemReads** composes the three that read, each over the same variables of the
link and with the faults it can meet; the variable `cmd` is the command line.
**FileCopy** is what a copy promises: it grows by the next chunk only, and is
called good only when it is whole. Upload and download implement it, with the
destination file, the one on the DOS disk or the one the client writes, as
`copy`.

**DmaReader** is what a card promises to a player: it reads the places of the
ring one after the other and never jumps. **SbDma** implements it: `Transfer` is
a frame of audio through 8237 and DSP, `IrqHandler` is `irq_callback()` with all
it calls, `Prepare` to `ClearPlaying` the main program, `DisableInterrupts`,
`ReadCount` and `ReadRest` the read of the position between `_cli()` and `_sti()`
while the DMA goes on. The three modes (8237 and DSP each with or without
auto-initialisation) are variables, chosen anew at every `Prepare`, and so is
`buffer_16bit`: it decides whether the DSP's interrupt sets bit 1 of the reason
(`Reason`), its own, or bit 0, which it shares with MIDI. The constant
`Ambiguous` says whether the card may interrupt for a cause that the handler
takes for the end of a block.

**SoundPlay** is the player over `DmaReader`: one step for each call of
`wav_idle()` and `load_audio_copy()` that asks the card or the disk, with the
DMA's `Advance` between any two of them. `Later` and `Shown` are `rebase_find()`
and `update_play_position()`. Four variables are kept by nobody in the program,
for the properties: what is in the ring (`mem`), and the account of the blocks
from the DMA on (`gap`, of no interest; `solid`, queued; `reserved`, handed out
by `mmap_write()` and not yet filled). `seen` and `since` say what was under the
DMA when it was last asked.

The `MC` modules give values to set- and sequence-valued constants. Operators
whose names end in `Mut` are definitions with a fault built in: with one of them
in the place of its original, a run must fail. They show that the properties
depend on the code they are about.

## 4. The runs

| run | module | shows | bounds |
|---|---|---|---|
| `server_tsr` | RemServer | DOS is not entered twice or in a critical error; PSP and DTA come back; one file handle; three handlers deep at most; packets and replies are not disturbed; a halted machine stays halted; UNHALT is obeyed | TSR with `-ic`: every command, two handles, one packet on the line |
| `server_main` | RemServer | every packet is answered | foreground program with interrupts and polling: six commands |
| `receiver` | RemRx | in step after every flood, packets stored at their place | true sizes, byte values around every comparison |
| `transmitter` | RemTx | length fits its byte; replies that the index can count are sent in order and to their end | true sizes, every READ there is, 0 to 255 bytes |
| `stuffkey` | KbdStuff | keys arrive in order, all of them | true ring; nine stuffed keys, two typed, so that it cannot fill up |
| `upload` | RemUpload | acknowledged means written; implements FileCopy; comes to an end | 4 chunks, a disk for 3, 4 faults, twice BUSY, 16 sequence numbers |
| `reads` | RemReads | download implements FileCopy; blocks of a memory dump are in their place while no reply is late; a listing has no gap after the first entry and `do_next_dir()` returns 0 after the last one only; each comes to an end | download: 3 chunks; memdump: 4 blocks, the last one shorter; dir: 6 entries; for each 4 faults, 3 times BUSY, 8 sequence numbers |
| `sbdma` | SbDma | implements DmaReader in every mode, with blocks that do and do not divide the ring; a position is the DMA's or one frame behind; play does not stall | a ring of 5 frames, blocks of 1 to 5, cards with and without a reason register, 8 and 16 bits; the MPU-401 interrupts at any time, MIDI in 16-bit play (`Ambiguous = FALSE`) |
| `soundplay` | SoundPlay | the account of the ring adds up; the queue is the file in order; the position shown is the one heard; the write pointer is forced only in an underrun, and then far enough | a ring of 4 blocks, loads of 1 and 2, a file of 3, 4 places for rebase events, a DMA of 1 block a turn and 5 in a stall; one stall or failed read in a play; 10 blocks in a play |

Runs that show a disagreement between the code and what it says of itself:

| run | what happens |
|---|---|
| `server_wedge` | FILE command on a halted machine, an interrupt inside its DOS call: `halt_system_loop()` runs on top of the packet and nothing is read any more |
| `stuffkey_lost` | the test for a full ring has head and tail the wrong way round: one key more than it takes empties it |
| `upload_doubled` | a late reply and BUSY: a chunk is written twice, "Upload OK" |

### What the passing runs exclude

Each of the passing runs states its property with the weakest condition under
which the code has it. What is outside of these conditions, and why:

- `Answered`, `Unhalted`: the wedge of `server_wedge`.
- `HaltHoldsMachine` is for the TSR. `do_check_io()` (remsrv.c:1399) never looks
  at `halt_system`: a server started with `-noint` answers HALT and goes on.
- `timer_irq()` (remsrv.c:342) processes packets, and may call DOS, before
  `old_timer_irq()` acknowledges IRQ 0, though `uart_irq()` (line 363) calls the
  other order vital. The module has this order; no property of a passing run
  depends on it.
- `InOrder`, `ReplyEnds`: a READ of 249 to 252 bytes has a reply whose end the
  8-bit `cur_pkt_out_write` (remsrv.c:1391) never reaches. The client asks for at
  most 188.
- `NoKeyLost`: a ring that fills up. The same test (remsrv.c:909) also answers
  FULL when exactly one key waits, which only delays the client.
- `upload`, `download`: a late reply is never BUSY; with it an upload can go
  wrong (`upload_doubled`).
- An upload whose WRITE, or the reply to it, was damaged, as opposed to lost,
  ends with "failed" at the SEEK of its retry: `do_recv_packet()` drops the
  connection without `reset_packet_io()` (remctlclient.c:543), and the two sides
  are out of step. The properties hold; the retry is in vain.
- `memdump` without late replies: `do_memread()` (remctlclient.c:724) compares
  the length of the reply, not its address, and a late reply shifts the rest of
  the dump by a block. And a server that has just started, whose first packet was
  damaged, waits for sequence number 0xFF for ever (remctlclient.c:1679): hence
  the second disjunct of `Finishes`. It is also there for a client that has used
  up its 0xFF on a request it could not send. Against a server that has ever
  accepted a packet, such a try only moves the client one number on, and the two
  meet again.
- `NoGap` begins at the first entry: a client that has received nothing yet
  accepts any sequence number (remctlclient.c:565), so that the loss of the first
  entry is not noticed. FILE FIND uses up a sequence number (remsrv.c:1205), so
  that a `dir` which was answered BUSY ends with "Sequence failure".
- `FinishedMeansToTheEnd` is about what `do_next_dir()` returns. `main()` says
  "* done" and exits with 0 after -1 as well (remctlclient.c:1768-1772), so that a
  listing which a lost, refused or BUSY reply has cut short ends like a whole one;
  only the message that `do_next_dir()` leaves on stderr tells.

- `BlockOutlastsStart`: an interrupt before `start_playback()` has set
  `wav_state.playing` (sc_sb.c:278) is acknowledged and not continued, so that a
  card without auto-initialisation falls silent after one block. The interval
  that `set_irq_interval()` enforces, 1/128 s, is taken to be long enough.
- A DSP older than 4.xx cannot tell why it interrupts, and every interrupt is
  taken for the end of a block (sbirq.c:16): `OtherCause` is for those that can.
- A DSP 4.xx cannot tell either in 8-bit play if the cause is MIDI, which sets the
  same bit 0 (sbirq.c:7 and 29): `sndsb_send_buffer_again()` then starts the next
  block in the middle of this one and skips what is left of it. `Ambiguous =
  FALSE` excludes it; with `TRUE` TLC finds `ReadsInOrder` violated by one such
  interrupt. Nothing in the repository plays MIDI through the DSP.
- An interrupt of the MPU-401 is acknowledged by whoever uses it, which hooked the
  interrupt before dosamp and to which dosamp chains (dosamp.c:172).
- `SoonAudible`: `clamp_if_behind()` sees an underrun because the delay has
  grown. It does not when `play_counter_prev` is 0, in the first ringful of a
  play, nor when the DMA has gone round a whole ring since it was last asked;
  and it counts from the position last asked for, not from where the DMA is by
  then. In these cases what is loaded next is heard up to a lap later, which the
  comment at sc_sb.c:129 means to prevent.
- Whether an underrun ends. The pointer is forced to `wav_play_min_load_size`
  ahead of the DMA. Where a turn of the main loop takes as long as that, the DMA is
  past it again when the next load comes, and it is forced again, for as long as
  the turns take so long. `SoonAudible` is what one correction achieves; no
  property says that there is a last one.
- A seek in the file that fails (dosamp.c:449, 476 and 482): on an open file it
  only sets a number. Were one to fail, `load_audio_copy()` would end early; after
  a failed read it would do so without an event for what it skipped, and the
  position shown would be off by as much.
- `EventsAssumption`: of a file so short that the ring has more than
  `MAX_REBASE - 2` of its starts at once, the event of the block being heard is
  dropped from the table and position 0 is shown.
- A file whose length is not a whole number of blocks: `mmap_write()` returns 0
  for the rest and `load_audio_copy()` gets no further. A file has a whole number
  here.

### Why the bounds are enough

One packet on the line (`RxMax`) is enough in RemServer because the server looks
at one packet at a time and a second handler finds either none or one. Two
handles let an OPEN leak one. Three or four chunks have a first, a last and one
in the middle, and a fault may hit each; after two failures in a row the state of
the link is one that has been seen. What keeps an upload, a download or a dump
right does not depend on the sequence numbers, as the proofs show; that of `dir`
does, and there the 4 faults must be fewer than the 8 numbers, as the 128 of the
code are more than the packets a line loses in a listing. The numbers are few so
that they go round: after a damaged packet the two sides of a memdump come
together again only then.
In `sbdma` the blocks of 2, 3 and 4 leave a shorter one at the end of a ring of
5, those of 1 and 5 do not; a longer ring has no other case. In `soundplay` ring
and file have no common divisor, so that every place of the ring meets every part
of the file within three laps; ten blocks are two and a half laps and four
events, of which the table keeps three; a stall of more than a lap is both the
underrun that is seen and the one that looks like a full ring. `MaxMishaps` and
`CounterMax` are bounds of the model; the 32- and 64-bit counters of the program
do not wrap in a play.
`BusyMax` and `FaultMax` bound what goes wrong: without them no client would have
to end. `TypedMax` and `SentMax` bound environment and history counters.

### Fairness

- RemServer: a handler that is active goes on, DOS calls return, the UART sends
  what it is given. UART and timer interrupts are strongly fair: the CPU accepts
  them again and again, not for ever without a break. Nothing is assumed of the
  foreground.
- RemTx: the UART takes bytes. KbdStuff: the client retries, the program reads.
- The transfers: weak fairness of the client, which always has a next step
  because its patience ends, and of the server, which handles what arrives when
  no handler is active. Faults are not fair. A late reply is a fault and bounded.

- SbDma: the DMA moves, a pending interrupt is taken, a read of the position
  goes on, a halted DSP is seen to stand still. `SetPlaying` is strongly fair:
  interrupts may disable it again and again, not for ever without a break. The
  user need never stop.
- SoundPlay: none; all of its properties are about what a step may do.

### Deadlock

Checked in RemServer, RemRx, SbDma and SoundPlay. Not in the runs of commands that end
(`call = "END"`), of a string that is stuffed, and of `transmitter`, where a reply
that the index cannot count stops at `SentMax`.

## 5. What is proved

`RemServerProofs`, for every set of commands and handles and every mode:
`TypeOK`, `NoDosReentry`, `PspAndDtaRestored`, `OneOpenFile`, `NestingBounded`,
`PacketProtected`, `ReplyNotCutShort`, `ReplyNotOverwritten` and, for the TSR,
`HaltHoldsMachine`. None of them is inductive. What makes them so is the shape
of the stack (`StackShape`: all but the innermost handler wait in the delay of
`my_int28()`, which is always outermost, or inside DOS), that the flags agree with
it (`FlagsMatchStack`: at most one handler is inside DOS, exactly when
`in_packet_handling` is set, and not over a busy DOS unless in INT 28h), what a
packet in hand has switched (`HandlingState`), and that a halted TSR is inside a
handler (`HaltedInHandler`). Depth three follows: a delay, a DOS call, and one
handler on top.

`RemRxProofs`, for every width of the index, header and flood: `TypeOK`, `InStep`,
`Tracking`, `FloodSkipped`, provided that a flood is at least as long as the
index can count (300 >= 256) and the client's packets fit it. The invariant
(`Clean`) says that during a flood either the packet before it is complete or the
index is ahead of what was sent of the flood, so that it must come to its end.

`RemTxProofs`, for every width of the index, header and READ: `TypeOK`, `InOrder`
and `SentWhole`. The invariant adds that the index is back at the mark between
replies. It holds even after a reply that the index cannot count, because such a
one never ends.

The assumptions are those on the constants, named in each module.

`SbDmaProofs`, for a ring of every size: `TypeOK`, `PositionHonest` and,
while the card interrupts for nothing that looks like the end of a block
(`~Ambiguous`), that every behaviour is one of DmaReader (`ReadsInOrder`). The invariant: the block lies in
the ring and, with auto-initialisation, is the ring (`BlockInRing`); without it
DSP and 8237 are at the same frame, so that the DSP's interrupt means that the
8237 is at the end too, and the handler's next block begins where the last one
was left (`InLockstep`); the DSP moves only between begin and halt (`Phases`);
between the read of the count and `_sti()` the handler cannot have changed the
block the count belongs to (`CountOfBlock`); while the causes can be told apart, a
reason with the bit of the DSP means the DSP (`Telling`).

`SoundPlayProofs`, for a ring, file and event table of every size and a card of
every speed: all of its properties. For `TypeOK` and
`NoSpuriousClamp` the invariant is: what each place of
`snd_play_idle()` and `load_audio()` implies (`Phases`); what is still to be
loaded has its place in the ring beside what is queued (`Loading`); the highest
play counter lies behind everything queued, and is the play counter whenever a
block of the file was seen to be heard (`Counters`) - then `can_write()` has
counted what is queued right and nothing is dropped; between two events of the
table, and from the last one on, counter and file have gone the same way
(`EventsAddUp`), which keeps the position to restart from inside the file.
The other three need more, on top of it:

- `QueueInOrder`: the DMA may play places that are handed out and not yet filled,
  but only when it has played everything before them (`KeepsPlace`): a read then
  fills exactly the places behind what is queued. In an underrun, where the DMA is
  among those places, nothing is queued before them.
- `PositionShown`: when a block of the file is seen under the DMA, the play counter
  is as many blocks behind the write counter as are queued (`SeenThere`). From each
  event to now the file has started over at least once for each event after it,
  failed reads aside (`Laps`), and the table begins where play began unless it is
  full (`Table`). So an event that is thrown away is more than a ringful old, and
  `rebase_find()` always finds the one that counts. This is what
  `EventsAssumption` is for.
- `SoonAudible`: as long as the last block seen is less than a ring ago, either no
  more than `wav_play_min_load_size` blocks of silence lie before what is queued,
  or the DMA has lapped the write pointer, and then the play counter of the next
  load falls behind (`Mending`). What a turn loads behind a gap, in one write or
  more, is long enough to be told from it (`LongEnough`): the proof rests on
  `can_write()` loading nothing shorter than `wav_play_min_load_size`.

The invariants were checked with TLC on rings of 4 and 8 blocks before they were
proved.

`RemUploadProofs`, for every number of chunks, sequence numbers and faults:
`AckedIsWritten`, `OkMeansWhole` and that upload implements FileCopy, while no
late reply is BUSY. The sequence numbers play no part in it. A client goes on
after a failed WRITE only by way of a SEEK, and the SEEK ends the command if
anything but its own reply comes back. So it is enough to know what can be on the
line (`OneExchange`): nothing; the one request of the command being carried out,
or its reply; after a failure what is left of a WRITE, and behind it the SEEK or
its reply. `Requests` says that a WRITE still under way, however late, carries the
next chunk to its place or finds it there (`Harmless`); `Replies` that a
reply the client would take for its own is true; `Prefix` that the destination is
what is acknowledged, or one chunk more. `upload_doubled` violates `OkMeansWhole`
once a late reply may be BUSY, so the condition is needed.

`RemReadsProofs`, for every size, every number of sequence numbers and faults:

- Download implements FileCopy, while no late reply is BUSY: the same argument,
  with a file pointer in the place of the file. Another program may cut the file
  short.
- `DumpIsMemory`, while no reply is late: at most one packet is on the line, and
  it is about the block that is asked for (`Block`).
- `NoGap`, while there are fewer faults than sequence numbers (`FewFaults`). The
  entries on the line have no gap and are numbered one after the other (`Stream`,
  `Chained`); they are at most as far ahead of the one the client expects as
  packets were lost (`Listing`), so that the sequence numbers have not come round
  and the next one is taken only if it is the right one. Without the condition it
  is false: when as many entries in a row are lost as there are sequence numbers,
  the gap goes unnoticed.
- `FinishedMeansToTheEnd`, if moreover DOS finds all there is: an error of
  find next looks like the end. It says that no loss is taken for the end of the
  directory; of what `main()` makes of a listing cut short it says nothing.

`KbdStuffProofs`, wherever the ring, head and tail are: `TypeOK`, for any keys;
and `NoKeyLost` for as long as all of them, stuffed and typed, fit the ring
together (`Room`). Without that condition it is false of the code, as the
violation run shows. The invariant (`InRing`): the words from head to tail are
what waits, and there are fewer of them than keys so far.

Only model-checked: liveness under fairness, which is beyond the prover.

## 6. What is not modelled

- The checksum as arithmetic. A damaged packet fails it; `reset_packet_io()`
  notes that a flood could complete a packet with a matching one.
- The TCP connection to DOSBox: closing it drops what is under way, which a tty
  does not.
- The watchdog's reprogramming of the UART, as opposed to its handling of
  packets.
- PC-98 variants, which differ in the UART only.
- DOS' own behaviour beyond what the server reads and sets: handles, PSP, DTA,
  InDOS, critical errors, file pointer.
- Commands of one request and one reply, whose only protocol is `RemLink`'s.
- A restart of the server in the middle of a session.
- `hw/sndsb` other than 8- and 16-bit playback through DMA: recording, backward
  play, direct and Goldplay output, nag mode, the work-around for NTVDM, and the
  ESS' rounding of the block length.
- dosamp's conversion of rate and format, and with it the intermediate buffer. It
  puts the event of a new start of the file at `write_counter`, though blocks
  converted before are written after it (dosamp.c:263-277): the position shown is
  off by as much.
- dosamp's non-mmap write, for other cards. Its failed read puts the event before
  the skipped part, not behind it (dosamp.c:477-487).
- A `begin_play()` that fails half way. It does fail without an interrupt,
  although the comment at dosamp.c:732 says that it does not care.
- `rebase_flush_old()`, which nothing calls.
