----------------------------- MODULE RemServer -----------------------------
(***************************************************************************)
(* REMSRV, the DOS side of the remote control tool                         *)
(* (tool/remctl/serial/remsrv.c), at the level at which it is hard: an     *)
(* interrupt-driven packet handler that calls into a non-reentrant DOS.    *)
(*                                                                         *)
(* One CPU runs everything.  Between two INT 21h calls an interrupt        *)
(* handler runs with IF clear, so what it does up to the next call is one  *)
(* step here.  The handlers that are active are the frames of "stack",     *)
(* innermost last; only the innermost one runs, and a new one is pushed    *)
(* only where the code runs with interrupts enabled: the foreground, the   *)
(* _sti() delay of my_int28(), and the inside of an INT 21h call.          *)
(*                                                                         *)
(* Bytes and sequence numbers are abstracted: a packet is the command it   *)
(* carries, "INVALID" stands for one that inpkt_validate() rejects, and    *)
(* process_output() may or may not find room in the UART for the rest of   *)
(* the reply.  Framing is the subject of RemRx and RemTx, sequence         *)
(* numbers the subject of RemLink.                                         *)
(***************************************************************************)
EXTENDS Integers, Sequences

CONSTANTS
    Commands,       \* the commands that arrive, a subset of AllCommands
    Handles,        \* file handles DOS may return for the server's PSP
    Resident,       \* TRUE: TSR, FALSE: the server sits in mainloop()
    UseInterrupts,  \* FALSE: started with -noint, so it polls
    IcDelay,        \* TRUE: started with -ic <n>, my_int28() waits with _sti()
    RxMax           \* bound: packets that wait on the line

FileOps == {"FIND", "OPEN", "CREATE", "CLOSE", "RDWR", "DIRCMD", "BADFILE"}
AllCommands == {"PING", "HALT", "UNHALT", "BADTYPE", "INVALID"} \cup FileOps

ASSUME CommandsAssumption == Commands \subseteq AllCommands
ASSUME HandlesAssumption  == Handles \subseteq Nat
ASSUME ModeAssumption     == /\ Resident \in BOOLEAN
                             /\ UseInterrupts \in BOOLEAN
                             /\ IcDelay \in BOOLEAN
                             \* mainloop() exits to the TSR only in interrupt mode
                             /\ Resident => UseInterrupts
ASSUME RxMaxAssumption    == RxMax \in Nat

VARIABLES
    rx,                  \* packets on the line and in the UART, not yet read
    cur_pkt_in,          \* the complete packet in cur_pkt_in, or NoPkt
    cur_pkt_out,         \* the reply being built or sent, or NoReply
    in_packet_handling,  \* reentrancy protection
    halt_system,         \* the machine is to be held in an interrupt handler
    inside_int28,        \* within INT 28h
    open_file_fd,        \* the currently open file, -1 if none
    dos_files,           \* (DOS) handles open in the server's PSP
    saved_psp,           \* PSP to switch back to, NoSeg if not switched
    saved_dta,           \* DTA to switch back to, NoSeg if not switched
    psp,                 \* (DOS) the current PSP
    dta,                 \* (DOS) the current DTA
    fg,                  \* what the interrupted program is doing
    stack,               \* active handlers, innermost last
    in_service           \* (8259) timer interrupt not acknowledged yet

vars == <<rx, cur_pkt_in, cur_pkt_out, in_packet_handling, halt_system,
          inside_int28, open_file_fd, dos_files, saved_psp, saved_dta,
          psp, dta, fg, stack, in_service>>

packetVars == <<cur_pkt_in, cur_pkt_out, in_packet_handling, halt_system>>
dosVars    == <<open_file_fd, dos_files, saved_psp, saved_dta, psp, dta>>

NoPkt   == "none"
NoReply == [kind |-> "none", done |-> FALSE]
NoSeg   == "none"

ReplyKinds == {"PING", "HALT", "FILE", "BUSY", "ERROR"}
Replies    == [kind : ReplyKinds, done : BOOLEAN] \cup {NoReply}

Isrs == {"uart", "timer", "int28", "poll"}

\* delay: my_int28() waiting with interrupts on;  in, out: about to run
\* process_input(), process_output();  dos: inside INT 21h for cur_pkt_in.
Pcs    == {"delay", "in", "out", "dos"}
Frames == [isr : Isrs, pc : Pcs]

TypeOK ==
    /\ rx \in Seq(Commands)
    /\ cur_pkt_in \in Commands \cup {NoPkt}
    /\ cur_pkt_out \in Replies
    /\ in_packet_handling \in BOOLEAN
    /\ halt_system \in BOOLEAN
    /\ inside_int28 \in BOOLEAN
    /\ open_file_fd \in Handles \cup {-1}
    /\ dos_files \in SUBSET Handles
    /\ saved_psp \in {NoSeg, "app", "server"}
    /\ saved_dta \in {NoSeg, "app", "server"}
    /\ psp \in {"app", "server"}
    /\ dta \in {"app", "server"}
    /\ fg \in {"app", "dos", "crit"}
    /\ stack \in Seq(Frames)
    /\ in_service \in BOOLEAN

Init ==
    /\ rx = <<>>
    /\ cur_pkt_in = NoPkt
    /\ cur_pkt_out = NoReply
    /\ in_packet_handling = FALSE
    /\ halt_system = FALSE
    /\ inside_int28 = FALSE
    /\ open_file_fd = -1
    /\ dos_files = {}
    /\ saved_psp = NoSeg
    /\ saved_dta = NoSeg
    /\ psp = "app"
    /\ dta = "app"
    /\ fg = "app"
    /\ stack = <<>>
    /\ in_service = FALSE

-----------------------------------------------------------------------------
(* The handler stack and the interrupt flag.                               *)

Top == stack[Len(stack)]
Running(pc) == stack # <<>> /\ Top.pc = pc
InterruptsOn == stack # <<>> => Top.pc \in {"delay", "dos"}

Pushed(isr, pc) == Append(stack, [isr |-> isr, pc |-> pc])
Popped          == SubSeq(stack, 1, Len(stack) - 1)
MovedTo(pc)     == [stack EXCEPT ![Len(stack)].pc = pc]

\* The two flags DOS exports.  INT 21h increments InDOS, the critical error
\* handler (INT 24h) takes it back and sets ErrorMode instead.
InDOSFlag     == fg = "dos" \/ \E i \in DOMAIN stack : stack[i].pc = "dos"
ErrorModeFlag == fg = "crit"

\* Mutant: the critical error flag is not looked at.
SafeToUseDosMut == ~InDOSFlag \/ inside_int28

\* safe_to_use_msdos_fs_io()
SafeToUseDos ==
    /\ ~ErrorModeFlag
    /\ ~InDOSFlag \/ inside_int28

-----------------------------------------------------------------------------
(* Entry of the handlers.                                                  *)

\* A packet reaches the UART.
Receive ==
    /\ Len(rx) < RxMax
    /\ \E c \in Commands : rx' = Append(rx, c)
    /\ UNCHANGED <<packetVars, dosVars, inside_int28, fg, stack, in_service>>

\* uart_irq(): the IRQ is acknowledged before anything else.  The UART raises
\* it for received data and for an empty transmitter, which may be long after
\* the last byte was sent.
UartIrq ==
    /\ UseInterrupts /\ InterruptsOn /\ ~in_service
    /\ stack' = Pushed("uart", "in")
    /\ UNCHANGED <<rx, packetVars, dosVars, inside_int28, fg, in_service>>

\* timer_irq(): every ninth tick with a readable or writable UART runs the
\* watchdog (process_input and process_output), and a halted system enters
\* the halt loop.  IRQ 0 is acknowledged by old_timer_irq(), at the end.
TimerIrq ==
    /\ UseInterrupts /\ InterruptsOn /\ ~in_service
    /\ stack' = Pushed("timer", "in")
    /\ in_service' = TRUE
    /\ UNCHANGED <<rx, packetVars, dosVars, inside_int28, fg>>

\* my_int28(), called by DOS while it waits for console input.  The flag is
\* set after old_int28() has returned.
Int28 ==
    /\ fg # "app" /\ stack = <<>>
    /\ inside_int28' = TRUE
    /\ stack' = Pushed("int28", IF IcDelay THEN "delay" ELSE "in")
    /\ UNCHANGED <<rx, packetVars, dosVars, fg, in_service>>

\* The delay is over: _cli().
Int28Delayed ==
    /\ Running("delay")
    /\ stack' = MovedTo("in")
    /\ UNCHANGED <<rx, packetVars, dosVars, inside_int28, fg, in_service>>

\* do_check_io(), from mainloop(): the server itself is the foreground.
CheckIo ==
    /\ ~Resident
    /\ fg = "app" /\ stack = <<>>
    /\ stack' = Pushed("poll", "in")
    /\ UNCHANGED <<rx, packetVars, dosVars, inside_int28, fg, in_service>>

-----------------------------------------------------------------------------
(* process_input() and process_input_packet().                             *)

\* Mutant: bytes are read although a complete packet is waiting.
ReadPacketMut ==
    /\ Running("in")
    /\ rx # <<>>
    /\ cur_pkt_in' = Head(rx)
    /\ rx' = Tail(rx)
    /\ UNCHANGED <<cur_pkt_out, in_packet_handling, halt_system, dosVars,
                   inside_int28, fg, stack, in_service>>

\* One packet is read from the UART into cur_pkt_in.
ReadPacket ==
    /\ Running("in")
    /\ cur_pkt_in = NoPkt /\ rx # <<>>
    /\ cur_pkt_in' = Head(rx)
    /\ rx' = Tail(rx)
    /\ UNCHANGED <<cur_pkt_out, in_packet_handling, halt_system, dosVars,
                   inside_int28, fg, stack, in_service>>

\* Mutants: one of the two tests of process_input_packet() is missing.
NoReentryTestMut == cur_pkt_out # NoReply
NoOutputTestMut  == in_packet_handling

\* Nothing (more) to read, or the packet cannot be handled now: a reply is
\* still being sent, or another handler is inside handle_packet().
InputBlocked == cur_pkt_out # NoReply \/ in_packet_handling

InputReturns ==
    /\ Running("in")
    /\ \/ cur_pkt_in = NoPkt /\ rx = <<>>
       \/ cur_pkt_in # NoPkt /\ InputBlocked
    /\ stack' = MovedTo("out")
    /\ UNCHANGED <<rx, packetVars, dosVars, inside_int28, fg, in_service>>

\* Mutant: in_packet_handling stays set.
ReleaseMut(reply) ==
    /\ cur_pkt_in' = NoPkt
    /\ in_packet_handling' = TRUE
    /\ cur_pkt_out' \in {reply, NoReply}

\* The end of process_input_packet(): the packet is released and as much of
\* the reply as the UART takes is sent.
Release(reply) ==
    /\ cur_pkt_in' = NoPkt
    /\ in_packet_handling' = FALSE
    /\ cur_pkt_out' \in {reply, NoReply}

Reply(kind) == [kind |-> kind, done |-> TRUE]

\* The packets that are answered without a call into DOS.
AnswerOf(cmd) ==
    CASE cmd = "PING"                -> "PING"
      [] cmd \in {"HALT", "UNHALT"}  -> "HALT"
      [] cmd \in FileOps             -> "BUSY"
      [] OTHER                       -> "ERROR"

HandlePacket ==
    /\ Running("in")
    /\ cur_pkt_in # NoPkt /\ ~InputBlocked
    /\ ~(cur_pkt_in \in FileOps /\ SafeToUseDos)
    /\ halt_system' = CASE cur_pkt_in = "HALT"   -> TRUE
                        [] cur_pkt_in = "UNHALT" -> FALSE
                        [] OTHER                 -> halt_system
    /\ Release(Reply(AnswerOf(cur_pkt_in)))
    /\ UNCHANGED <<rx, dosVars, inside_int28, fg, stack, in_service>>

\* A FILE packet while DOS can be entered: the reply is begun, the PSP is
\* switched, and the first INT 21h turns interrupts on.
EnterDos ==
    /\ Running("in")
    /\ cur_pkt_in \in FileOps /\ ~InputBlocked
    /\ SafeToUseDos
    /\ in_packet_handling' = TRUE
    /\ cur_pkt_out' = [kind |-> "FILE", done |-> FALSE]
    /\ IF saved_psp = NoSeg
         THEN saved_psp' = psp /\ psp' = "server"
         ELSE UNCHANGED <<saved_psp, psp>>
    /\ IF cur_pkt_in = "FIND"
         THEN /\ saved_dta' = IF saved_dta = NoSeg THEN dta ELSE saved_dta
              /\ dta' = "server"
         ELSE UNCHANGED <<saved_dta, dta>>
    /\ stack' = MovedTo("dos")
    /\ UNCHANGED <<rx, cur_pkt_in, halt_system, open_file_fd, dos_files,
                   inside_int28, fg, in_service>>

-----------------------------------------------------------------------------
(* The DOS part of handle_packet().                                        *)

\* send_dta_find(): one directory entry is sent before the next is looked
\* up; the loop on has_output() leaves only when the reply has been sent.
FindNext ==
    /\ Running("dos") /\ cur_pkt_in = "FIND"
    /\ cur_pkt_out' = NoReply
    /\ UNCHANGED <<rx, cur_pkt_in, in_packet_handling, halt_system, dosVars,
                   inside_int28, fg, stack, in_service>>

\* Mutants: the error code in AX is taken for a handle; OPEN and CREATE do not
\* close the prior file.
ErrorCodeMut(cmd) ==
    IF cmd \in {"OPEN", "CREATE"}
      THEN open_file_fd' = 2 /\ dos_files' = dos_files \ {open_file_fd}
      ELSE UNCHANGED <<open_file_fd, dos_files>>

NoCloseMut(cmd) ==
    IF cmd \in {"OPEN", "CREATE"}
      THEN \E h \in Handles \ dos_files :
              open_file_fd' = h /\ dos_files' = dos_files \cup {h}
      ELSE UNCHANGED <<open_file_fd, dos_files>>

\* What the command does to the open file.  OPEN and CREATE close the prior
\* file first and may then fail; the other commands leave it as it is.
FileEffect(cmd) ==
    CASE cmd \in {"OPEN", "CREATE"} ->
            LET left == dos_files \ {open_file_fd}
            IN  \/ open_file_fd' = -1 /\ dos_files' = left
                \/ \E h \in Handles \ left :
                      open_file_fd' = h /\ dos_files' = left \cup {h}
      [] cmd = "CLOSE" ->
            open_file_fd' = -1 /\ dos_files' = dos_files \ {open_file_fd}
      [] OTHER -> UNCHANGED <<open_file_fd, dos_files>>

\* Mutant: restore_dta() is not called.
RestoreDosMut ==
    /\ psp' = IF saved_psp # NoSeg THEN saved_psp ELSE psp
    /\ saved_psp' = NoSeg
    /\ UNCHANGED <<saved_dta, dta>>

\* restore_psp() and restore_dta(), the end of handle_packet()
RestoreDos ==
    /\ psp' = IF saved_psp # NoSeg THEN saved_psp ELSE psp
    /\ dta' = IF saved_dta # NoSeg THEN saved_dta ELSE dta
    /\ saved_psp' = NoSeg
    /\ saved_dta' = NoSeg

LeaveDos ==
    /\ Running("dos")
    /\ FileEffect(cur_pkt_in)
    /\ RestoreDos
    /\ Release(Reply(IF cur_pkt_in = "BADFILE" THEN "ERROR" ELSE "FILE"))
    /\ stack' = MovedTo("in")
    /\ UNCHANGED <<rx, halt_system, inside_int28, fg, in_service>>

-----------------------------------------------------------------------------
(* process_output(), the halt loop and the return from the handlers.       *)

\* Mutant: do_process_output() is called without the test.
OutputSentMut == cur_pkt_out' = NoReply

\* process_output() sends nothing while a packet is being handled.
OutputSent    == ~in_packet_handling /\ cur_pkt_out' = NoReply
OutputPending == UNCHANGED cur_pkt_out

\* Mutant: my_int28() does not look at halt_system.
StaysHaltedMut == halt_system /\ Top.isr \notin {"poll", "int28"}

\* uart_irq(), timer_irq() and my_int28() stay in halt_system_loop() while
\* the system is halted; do_check_io() does not look at halt_system.
StaysHalted == halt_system /\ Top.isr # "poll"

Return ==
    /\ stack' = Popped
    /\ in_service' = (in_service /\ Top.isr # "timer")
    /\ inside_int28' = (inside_int28 /\ Top.isr # "int28")

\* Mutant: the halt loop sends but does not read.
AfterOutputMut ==
    /\ IF StaysHalted
         THEN UNCHANGED <<stack, in_service, inside_int28>>
         ELSE Return
    /\ UNCHANGED <<rx, cur_pkt_in, in_packet_handling, halt_system, dosVars, fg>>

AfterOutput ==
    /\ IF StaysHalted
         THEN stack' = MovedTo("in") /\ UNCHANGED <<in_service, inside_int28>>
         ELSE Return
    /\ UNCHANGED <<rx, cur_pkt_in, in_packet_handling, halt_system, dosVars, fg>>

ProcessOutputSent    == Running("out") /\ OutputSent /\ AfterOutput
ProcessOutputPending == Running("out") /\ OutputPending /\ AfterOutput

-----------------------------------------------------------------------------
(* The interrupted program: enters and leaves DOS, may hit a critical      *)
(* error.  It runs only when no handler is active.                         *)

Foreground ==
    /\ stack = <<>>
    /\ fg' \in CASE fg = "app"  -> {"dos"}
                 [] fg = "dos"  -> {"app", "crit"}
                 [] fg = "crit" -> {"dos"}
    /\ UNCHANGED <<rx, packetVars, dosVars, inside_int28, stack, in_service>>

Handler ==
    \/ Int28Delayed
    \/ ReadPacket
    \/ InputReturns
    \/ HandlePacket
    \/ EnterDos
    \/ FindNext
    \/ LeaveDos
    \/ ProcessOutputSent
    \/ ProcessOutputPending

Interrupt == UartIrq \/ TimerIrq \/ Int28 \/ CheckIo

Next == Receive \/ Interrupt \/ Handler \/ Foreground

Spec == Init /\ [][Next]_vars

\* A handler that runs goes on to its end, a DOS call returns and the UART
\* takes the bytes it is given.  A UART with something to read or to send
\* interrupts, and the timer ticks: both are delivered if the CPU accepts
\* interrupts again and again.  Nothing is assumed of the foreground or of
\* the client.
UartWaits == rx # <<>> \/ cur_pkt_out # NoReply

Fairness ==
    /\ WF_vars(Handler)
    /\ SF_vars(LeaveDos)
    /\ SF_vars(ProcessOutputSent)
    /\ SF_vars(UartWaits /\ UartIrq)
    /\ SF_vars(TimerIrq)

LiveSpec == Spec /\ Fairness

-----------------------------------------------------------------------------
(* Safety.                                                                 *)

DosFrames == {i \in DOMAIN stack : stack[i].pc = "dos"}
Int28Active == \E i \in DOMAIN stack : stack[i].isr = "int28"

\* handle_packet() calls DOS only where DOS can be entered: never twice at
\* once, never under a critical error, and over a busy DOS only from within
\* its INT 28h idle call (safe_to_use_msdos_fs_io, in_packet_handling).
NoDosReentry ==
    /\ \A i, j \in DosFrames : i = j
    /\ DosFrames # {} => fg = "app" \/ (fg = "dos" /\ Int28Active)

\* Whenever no packet is being handled DOS has the PSP and the DTA of the
\* interrupted program, and file handles are used only under the server's
\* own PSP (save_and_switch_psp, restore_psp, save_dta, restore_dta).
PspAndDtaRestored ==
    /\ ~in_packet_handling => psp = "app" /\ dta = "app"
    /\ DosFrames # {} => psp = "server"
    /\ DosFrames # {} /\ cur_pkt_in = "FIND" => dta = "server"

\* README: "the REMSRV.EXE program only allows one open file at a time".
\* No handle of the server's PSP is ever left open behind open_file_fd.
OneOpenFile ==
    dos_files = IF open_file_fd = -1 THEN {} ELSE {open_file_fd}

\* Interrupt handlers nest at most three deep: INT 28h delaying, a handler
\* inside DOS, and one that can only find in_packet_handling set.  The
\* handlers run on the stack of whatever they interrupted.
NestingBounded == Len(stack) <= 3

\* The packet being handled stays in cur_pkt_in until it is released, however
\* many handlers run meanwhile (process_input does not read over it).
PacketProtected ==
    [][in_packet_handling /\ in_packet_handling' => cur_pkt_in' = cur_pkt_in]_vars

\* A reply that is still being built is never sent or changed by a handler
\* that interrupted its construction (process_output).
ReplyNotCutShort ==
    [][~cur_pkt_out.done /\ cur_pkt_out' # cur_pkt_out
         => cur_pkt_out = NoReply \/ Running("dos")]_vars

\* A finished reply is sent to its last byte before the next one is begun
\* (the first test of process_input_packet).
ReplyNotOverwritten ==
    [][cur_pkt_out.done /\ cur_pkt_out' # cur_pkt_out => cur_pkt_out' = NoReply]_vars

\* remctlclient: "halt             Halt the system".  A machine that has
\* acknowledged HALT does not run the interrupted program before UNHALT.
HaltHoldsMachine == [][halt_system => fg' = fg]_vars

\* A halted machine can still be released: no handler spins in
\* halt_system_loop() on top of a packet that is half handled.
HaltLoopCanEnd ==
    halt_system /\ stack # <<>> /\ Top.pc \in {"in", "out"} => ~in_packet_handling

-----------------------------------------------------------------------------
(* Liveness.                                                               *)

\* Every packet that was received is handled and released, unless the server
\* ends up in a halt loop that nothing can end.
Answered == (cur_pkt_in # NoPkt) ~> (cur_pkt_in = NoPkt \/ ~HaltLoopCanEnd)

\* proto.h: "halt/un-halt system".  An UNHALT that waits on the line of a
\* halted machine is read and releases it, with the same exception.
Unhalted ==
    (halt_system /\ rx # <<>> /\ Head(rx) = "UNHALT")
        ~> (~halt_system \/ ~HaltLoopCanEnd)
=============================================================================
