-------------------------- MODULE RemServerProofs --------------------------
(***************************************************************************)
(* Proofs about RemServer, for every set of commands and handles and every *)
(* mode the server can be started in: its safety invariants and, from the  *)
(* same inductive invariant, what a step may never do.                     *)
(***************************************************************************)
EXTENDS RemServer, SequenceTheorems, TLAPS

-----------------------------------------------------------------------------
(* The inductive invariant.                                                *)

Frame(i) == i \in 1..Len(stack)
InDos(i) == Frame(i) /\ stack[i].pc = "dos"

\* Only the innermost handler is between two calls; the others wait in the
\* delay of my_int28(), which is always the outermost, or inside DOS.
StackShape ==
    /\ \A i : Frame(i) /\ i < Len(stack) => stack[i].pc \in {"delay", "dos"}
    /\ \A i : Frame(i) /\ stack[i].pc = "delay" => i = 1
    /\ \A i : Frame(i) /\ stack[i].isr = "int28" => i = 1

\* The flags agree with the handlers that are active.
FlagsMatchStack ==
    /\ \A i, j : InDos(i) /\ InDos(j) => i = j
    /\ in_packet_handling <=> \E i : InDos(i)
    /\ inside_int28 <=> \E i : Frame(i) /\ stack[i].isr = "int28"
    /\ in_packet_handling => fg = "app" \/ (fg = "dos" /\ inside_int28)

\* A resident server polls nowhere and is halted only inside a handler.
HaltedInHandler ==
    /\ Resident => \A i : Frame(i) => stack[i].isr # "poll"
    /\ Resident /\ halt_system => stack # <<>>

\* What a packet that is being handled has switched, and what it keeps.
HandlingState ==
    /\ in_packet_handling => cur_pkt_in \in FileOps /\ ~cur_pkt_out.done
    /\ ~in_packet_handling => cur_pkt_out.done \/ cur_pkt_out = NoReply
    /\ IF in_packet_handling
         THEN psp = "server" /\ saved_psp = "app"
         ELSE psp = "app" /\ saved_psp = NoSeg
    /\ IF in_packet_handling /\ cur_pkt_in = "FIND"
         THEN dta = "server" /\ saved_dta = "app"
         ELSE dta = "app" /\ saved_dta = NoSeg

StackInv == StackShape /\ FlagsMatchStack /\ HaltedInHandler

IInv ==
    /\ TypeOK
    /\ StackInv
    /\ HandlingState
    /\ OneOpenFile

-----------------------------------------------------------------------------
(* The stack operations.                                                   *)

LEMMA PushedFacts ==
    ASSUME stack \in Seq(Frames), NEW isr \in Isrs, NEW pc \in Pcs
    PROVE  /\ Pushed(isr, pc) \in Seq(Frames)
           /\ Pushed(isr, pc) # <<>>
           /\ Len(Pushed(isr, pc)) = Len(stack) + 1
           /\ \A i \in 1..Len(stack) : Pushed(isr, pc)[i] = stack[i]
           /\ Pushed(isr, pc)[Len(stack) + 1].isr = isr
           /\ Pushed(isr, pc)[Len(stack) + 1].pc = pc
<1>1. [isr |-> isr, pc |-> pc] \in Frames
  BY DEF Frames
<1> QED
  BY <1>1, AppendProperties DEF Pushed

LEMMA TopFacts ==
    ASSUME stack \in Seq(Frames), stack # <<>>
    PROVE  Len(stack) \in 1..Len(stack) /\ Top \in Frames
BY EmptySeq, LenProperties, ElementOfSeq DEF Top

LEMMA MovedToFacts ==
    ASSUME stack \in Seq(Frames), stack # <<>>, NEW pc \in Pcs
    PROVE  /\ MovedTo(pc) \in Seq(Frames)
           /\ MovedTo(pc) # <<>>
           /\ Len(MovedTo(pc)) = Len(stack)
           /\ \A i \in 1..Len(stack) :
                 /\ MovedTo(pc)[i].isr = stack[i].isr
                 /\ MovedTo(pc)[i].pc = IF i = Len(stack) THEN pc ELSE stack[i].pc
<1> DEFINE f == [Top EXCEPT !.pc = pc]
<1>1. Len(stack) \in 1..Len(stack) /\ Top \in Frames
  BY TopFacts
<1>2. f \in Frames /\ f.isr = Top.isr /\ f.pc = pc
  BY <1>1 DEF Frames
<1>3. MovedTo(pc) = [stack EXCEPT ![Len(stack)] = f]
  BY DEF MovedTo, Top
<1> HIDE DEF f
<1>4. /\ MovedTo(pc) \in Seq(Frames)
      /\ Len(MovedTo(pc)) = Len(stack)
      /\ \A i \in 1..Len(stack) :
            MovedTo(pc)[i] = IF i = Len(stack) THEN f ELSE stack[i]
  BY <1>1, <1>2, <1>3, ExceptSeq
<1>5. MovedTo(pc) # <<>>
  BY <1>1, <1>4
<1> QED
  BY <1>1, <1>2, <1>4, <1>5 DEF Top

LEMMA PrefixFacts ==
    ASSUME NEW S, NEW s \in Seq(S), NEW n \in Nat, n < Len(s)
    PROVE  /\ SubSeq(s, 1, n) \in Seq(S)
           /\ Len(SubSeq(s, 1, n)) = n
           /\ \A i \in 1..n : SubSeq(s, 1, n)[i] = s[i]
<1> DEFINE p == SubSeq(s, 1, n)
<1>1. Len(s) \in Nat /\ \A i \in 1..n : s[i] \in S
  BY LenProperties, ElementOfSeq
<1>2. /\ p \in Seq(S)
      /\ Len(p) = IF 1 <= n THEN n - 1 + 1 ELSE 0
      /\ \A i \in 1..(n - 1 + 1) : p[i] = s[1 + i - 1]
  BY <1>1, SubSeqProperties
<1> HIDE DEF p
<1>3. n - 1 + 1 = n /\ (~(1 <= n) => n = 0)
  OBVIOUS
<1>4. \A i \in 1..n : 1 + i - 1 = i
  OBVIOUS
<1> QED
  BY <1>2, <1>3, <1>4

LEMMA PoppedFacts ==
    ASSUME stack \in Seq(Frames), stack # <<>>
    PROVE  /\ Popped \in Seq(Frames)
           /\ Len(Popped) = Len(stack) - 1
           /\ \A i \in 1..(Len(stack) - 1) : Popped[i] = stack[i]
<1>1. Len(stack) - 1 \in Nat /\ Len(stack) - 1 < Len(stack)
  BY TopFacts, LenProperties
<1> QED
  BY <1>1, PrefixFacts DEF Popped
-----------------------------------------------------------------------------
(* What the handlers do to the stack keeps its shape and the flags.        *)

\* Entry of an interrupt handler.
LEMMA PushedStep ==
    ASSUME TypeOK, StackInv, InterruptsOn,
           NEW isr \in {"uart", "timer"}, stack' = Pushed(isr, "in"),
           UNCHANGED <<in_packet_handling, inside_int28, fg>>,
           UNCHANGED halt_system
    PROVE  StackInv'
<1> DEFINE n == Len(stack)
<1>1. /\ stack' # <<>> /\ Len(stack') = n + 1
      /\ \A i \in 1..n : stack'[i] = stack[i]
      /\ stack'[n + 1].isr = isr /\ stack'[n + 1].pc = "in"
  BY PushedFacts DEF TypeOK, Isrs, Pcs
<1>2. n \in Nat /\ (n # 0 => stack[n].pc \in {"delay", "dos"})
  BY LenProperties, EmptySeq DEF TypeOK, InterruptsOn, Top
<1> HIDE DEF n
<1>3. \A i : i \in 1..(n + 1) <=> i \in 1..n \/ i = n + 1
  BY <1>2
<1>4. StackShape'
  BY <1>1, <1>2, <1>3 DEF StackInv, StackShape, Frame, n
<1>5. FlagsMatchStack'
  BY <1>1, <1>2, <1>3 DEF StackInv, FlagsMatchStack, Frame, InDos, n
<1>6. HaltedInHandler'
  BY <1>1, <1>2, <1>3 DEF StackInv, HaltedInHandler, Frame, n
<1> QED
  BY <1>4, <1>5, <1>6 DEF StackInv

\* A handler goes on to process_input() or process_output().
LEMMA MovedToStep ==
    ASSUME TypeOK, StackInv, stack # <<>>, Top.pc # "dos",
           NEW pc \in {"in", "out"}, stack' = MovedTo(pc),
           UNCHANGED <<in_packet_handling, inside_int28, fg>>,
           UNCHANGED halt_system
    PROVE  StackInv'
<1> DEFINE n == Len(stack)
<1>1. /\ stack' # <<>> /\ Len(stack') = n
      /\ \A i \in 1..n : /\ stack'[i].isr = stack[i].isr
                         /\ stack'[i].pc = IF i = n THEN pc ELSE stack[i].pc
  BY MovedToFacts DEF TypeOK, Pcs
<1>2. n \in 1..n /\ n \in Nat /\ stack[n].pc # "dos"
  BY TopFacts, LenProperties DEF TypeOK, Top
<1> HIDE DEF n
<1>3. StackShape'
  BY <1>1, <1>2 DEF StackInv, StackShape, Frame, n
<1>4. FlagsMatchStack'
  BY <1>1, <1>2 DEF StackInv, FlagsMatchStack, Frame, InDos, n
<1>5. HaltedInHandler'
  BY <1>1, <1>2 DEF StackInv, HaltedInHandler, Frame, n
<1> QED
  BY <1>3, <1>4, <1>5 DEF StackInv

\* The innermost handler returns.
LEMMA ReturnStep ==
    ASSUME TypeOK, StackInv, stack # <<>>, Top.pc = "out", ~StaysHalted, Return,
           UNCHANGED <<in_packet_handling, fg, halt_system>>
    PROVE  StackInv'
<1> DEFINE n == Len(stack)
<1>1. /\ Len(stack') = n - 1 /\ stack' \in Seq(Frames)
      /\ \A i \in 1..(n - 1) : stack'[i] = stack[i]
  BY PoppedFacts DEF TypeOK, Return
<1>2. n \in 1..n /\ n \in Nat /\ stack[n].pc = "out"
  BY TopFacts, LenProperties DEF TypeOK, Top
<1>3. inside_int28' = (inside_int28 /\ stack[n].isr # "int28")
  BY DEF Return, Top
<1>4. Resident /\ halt_system => FALSE
  BY <1>2 DEF StaysHalted, Top, StackInv, HaltedInHandler, Frame
<1> HIDE DEF n
<1>5. \A i : i \in 1..n <=> i \in 1..(n - 1) \/ i = n
  BY <1>2
<1>6. StackShape'
  BY <1>1, <1>2, <1>5 DEF StackInv, StackShape, Frame, n
<1>7. FlagsMatchStack'
  <2>1. /\ \A i, j : InDos(i)' /\ InDos(j)' => i = j
        /\ in_packet_handling' <=> \E i : InDos(i)'
    BY <1>1, <1>2, <1>5 DEF StackInv, FlagsMatchStack, Frame, InDos, n
  <2>2. stack[n].isr = "int28" => n = 1
    BY <1>2 DEF StackInv, StackShape, Frame, n
  <2>3. inside_int28' <=> \E i : Frame(i)' /\ stack'[i].isr = "int28"
    <3>1. (inside_int28 <=> \E i \in 1..n : stack[i].isr = "int28")
      BY DEF StackInv, FlagsMatchStack, Frame, n
    <3>2. CASE stack[n].isr = "int28"
      <4>1. \A i : ~Frame(i)'
        BY <1>1, <2>2, <3>2 DEF Frame
      <4> QED
        BY <1>3, <3>2, <4>1
    <3>3. CASE stack[n].isr # "int28"
      <4>1. (\E i : Frame(i)' /\ stack'[i].isr = "int28")
              <=> \E i \in 1..n : stack[i].isr = "int28"
        BY <1>1, <1>2, <1>5, <3>3 DEF Frame
      <4> QED
        BY <1>3, <3>1, <3>3, <4>1
    <3> QED
      BY <3>2, <3>3
  <2>4. in_packet_handling' => n # 1
    BY <1>1, <1>2, <2>1 DEF InDos, Frame
  <2>5. in_packet_handling' => fg' = "app" \/ (fg' = "dos" /\ inside_int28')
    BY <1>3, <2>2, <2>4 DEF StackInv, FlagsMatchStack
  <2> QED
    BY <2>1, <2>3, <2>5 DEF FlagsMatchStack
<1>8. HaltedInHandler'
  BY <1>1, <1>2, <1>4, <1>5 DEF StackInv, HaltedInHandler, Frame, n
<1> QED
  BY <1>6, <1>7, <1>8 DEF StackInv
-----------------------------------------------------------------------------
(* The invariant is inductive.                                             *)

LEMMA InitIInv == Init => IInv
<1> SUFFICES ASSUME Init PROVE IInv
  OBVIOUS
<1>1. stack = <<>> /\ Len(stack) = 0 /\ stack \in Seq(Frames) /\ rx \in Seq(Commands)
  BY DEF Init
<1>2. TypeOK
  BY <1>1 DEF Init, TypeOK, Replies, NoReply
<1>3. \A i : ~Frame(i)
  BY <1>1 DEF Frame
<1>4. StackInv
  BY <1>1, <1>3 DEF Init, StackInv, StackShape, FlagsMatchStack, HaltedInHandler, InDos
<1>5. HandlingState /\ OneOpenFile
  BY DEF Init, HandlingState, OneOpenFile
<1> QED
  BY <1>2, <1>4, <1>5 DEF IInv

\* Who runs now: what the program counter of the innermost handler says
\* about in_packet_handling.
LEMMA RunningFacts ==
    ASSUME TypeOK, StackInv, stack # <<>>
    PROVE  /\ Top.pc = "dos" => in_packet_handling
           /\ Frame(Len(stack)) /\ Top \in Frames
<1>1. Len(stack) \in 1..Len(stack) /\ Top \in Frames
  BY TopFacts DEF TypeOK
<1> QED
  BY <1>1 DEF StackInv, FlagsMatchStack, InDos, Frame, Top

LEMMA TypeStep == ASSUME TypeOK, [Next]_vars PROVE TypeOK'
<1> USE DEF packetVars, dosVars
<1>1. CASE Receive
  BY <1>1 DEF TypeOK, Receive
<1>2. CASE Interrupt
  <2>1. \A isr \in Isrs, pc \in Pcs : Pushed(isr, pc) \in Seq(Frames)
    BY PushedFacts DEF TypeOK
  <2>2. stack' \in Seq(Frames)
    BY <1>2, <2>1 DEF Interrupt, UartIrq, TimerIrq, Int28, CheckIo, Isrs, Pcs
  <2>3. /\ inside_int28' \in BOOLEAN /\ in_service' \in BOOLEAN
        /\ fg' = fg
    <3>1. CASE UartIrq
      BY <3>1 DEF TypeOK, UartIrq
    <3>2. CASE TimerIrq
      BY <3>2 DEF TypeOK, TimerIrq
    <3>3. CASE Int28
      BY <3>3 DEF TypeOK, Int28
    <3>4. CASE CheckIo
      BY <3>4 DEF TypeOK, CheckIo
    <3> QED
      BY <1>2, <3>1, <3>2, <3>3, <3>4 DEF Interrupt
  <2>4. UNCHANGED <<rx, packetVars, dosVars>>
    BY <1>2 DEF Interrupt, UartIrq, TimerIrq, Int28, CheckIo
  <2> QED
    BY <2>2, <2>3, <2>4 DEF TypeOK
<1>3. CASE Handler
  <2>1. stack # <<>>
    BY <1>3 DEF Handler, Running, Int28Delayed, ReadPacket, InputReturns,
                HandlePacket, EnterDos, FindNext, LeaveDos,
                ProcessOutputSent, ProcessOutputPending
  <2>2. \A pc \in Pcs : MovedTo(pc) \in Seq(Frames)
    BY <2>1, MovedToFacts DEF TypeOK
  <2>3. MovedTo("in") \in Seq(Frames) /\ MovedTo("out") \in Seq(Frames)
        /\ MovedTo("dos") \in Seq(Frames)
    BY <2>2 DEF Pcs
  <2>4. \A k \in ReplyKinds : Reply(k) \in Replies
    BY DEF Reply, Replies
  <2>5. NoReply \in Replies
    BY DEF Replies
  <2>6. CASE Int28Delayed
    BY <2>3, <2>6 DEF TypeOK, Int28Delayed
  <2>7. CASE ReadPacket
    <3>1. Head(rx) \in Commands /\ Tail(rx) \in Seq(Commands)
      BY <2>7, HeadTailProperties DEF ReadPacket, TypeOK
    <3> QED
      BY <2>7, <3>1 DEF TypeOK, ReadPacket
  <2>8. CASE InputReturns
    BY <2>3, <2>8 DEF TypeOK, InputReturns
  <2>9. CASE HandlePacket
    <3>1. AnswerOf(cur_pkt_in) \in ReplyKinds
      BY DEF AnswerOf, ReplyKinds
    <3>2. cur_pkt_out' \in Replies
      BY <2>4, <2>5, <2>9, <3>1 DEF HandlePacket, Release
    <3>3. halt_system' \in BOOLEAN
      BY <2>9 DEF HandlePacket, TypeOK
    <3> QED
      BY <2>9, <3>2, <3>3 DEF TypeOK, HandlePacket, Release
  <2>10. CASE EnterDos
    <3>1. cur_pkt_out' \in Replies
      BY <2>10 DEF EnterDos, Replies, ReplyKinds
    <3> QED
      BY <2>3, <2>10, <3>1 DEF TypeOK, EnterDos
  <2>11. CASE FindNext
    BY <2>5, <2>11 DEF TypeOK, FindNext
  <2>12. CASE LeaveDos
    <3>1. cur_pkt_out' \in Replies
      BY <2>4, <2>5, <2>12 DEF LeaveDos, Release, ReplyKinds
    <3>2. open_file_fd' \in Handles \cup {-1} /\ dos_files' \in SUBSET Handles
      BY <2>12 DEF TypeOK, LeaveDos, FileEffect
    <3> QED
      BY <2>3, <2>12, <3>1, <3>2 DEF TypeOK, LeaveDos, Release, RestoreDos
  <2>13. CASE ProcessOutputSent \/ ProcessOutputPending
    <3>1. cur_pkt_out' \in Replies
      BY <2>5, <2>13 DEF TypeOK, ProcessOutputSent, ProcessOutputPending,
                         OutputSent, OutputPending
    <3>2. AfterOutput
      BY <2>13 DEF ProcessOutputSent, ProcessOutputPending
    <3>3. /\ stack' \in Seq(Frames)
          /\ in_service' \in BOOLEAN /\ inside_int28' \in BOOLEAN
      BY <2>1, <2>3, <3>2, PoppedFacts DEF TypeOK, AfterOutput, Return
    <3> QED
      BY <3>1, <3>2, <3>3 DEF TypeOK, AfterOutput
  <2> QED
    BY <1>3, <2>6, <2>7, <2>8, <2>9, <2>10, <2>11, <2>12, <2>13 DEF Handler
<1>4. CASE Foreground
  <2>1. fg' \in {"app", "dos", "crit"}
    BY <1>4 DEF Foreground, TypeOK
  <2> QED
    BY <1>4, <2>1 DEF TypeOK, Foreground
<1>5. CASE UNCHANGED vars
  BY <1>5 DEF TypeOK, vars
<1> QED
  BY <1>1, <1>2, <1>3, <1>4, <1>5 DEF Next

LEMMA StackStep == ASSUME TypeOK, StackInv, [Next]_vars PROVE StackInv'
<1> USE DEF packetVars, dosVars
<1>1. CASE Receive
  BY <1>1 DEF Receive, StackInv, StackShape, FlagsMatchStack, HaltedInHandler,
              Frame, InDos
<1>2. CASE UartIrq \/ TimerIrq
  BY <1>2, PushedStep DEF UartIrq, TimerIrq
<1>3. CASE Int28 \/ CheckIo
  <2> PICK isr \in {"int28", "poll"}, pc \in {"delay", "in"} : stack' = Pushed(isr, pc)
    BY <1>3 DEF Int28, CheckIo
  <2>1. stack = <<>> /\ Len(stack) = 0
    BY <1>3 DEF Int28, CheckIo
  <2>2. /\ stack' # <<>> /\ Len(stack') = 1
        /\ stack'[1].isr = isr /\ stack'[1].pc = pc
    BY <2>1, PushedFacts DEF TypeOK, Isrs, Pcs
  <2>3. /\ \A i : Frame(i)' <=> i = 1
        /\ \A i : ~Frame(i)
    BY <2>1, <2>2 DEF Frame
  <2>4. StackShape'
    BY <2>2, <2>3 DEF StackShape
  <2>5. FlagsMatchStack'
    <3>1. ~in_packet_handling /\ ~inside_int28
      BY <2>3 DEF StackInv, FlagsMatchStack, InDos
    <3>2. ~in_packet_handling' /\ \A i : ~InDos(i)'
      BY <1>3, <2>2, <2>3, <3>1 DEF Int28, CheckIo, InDos
    <3>3. inside_int28' <=> isr = "int28"
      BY <1>3, <2>1, <2>2, <3>1, PushedFacts DEF Int28, CheckIo, TypeOK, Isrs, Pcs
    <3> QED
      BY <2>2, <2>3, <3>2, <3>3 DEF FlagsMatchStack
  <2>6. HaltedInHandler'
    <3>1. Resident => isr = "int28"
      BY <1>3, <2>1, <2>2, PushedFacts DEF Int28, CheckIo, TypeOK, Isrs, Pcs
    <3> QED
      BY <2>2, <2>3, <3>1 DEF HaltedInHandler
  <2> QED
    BY <2>4, <2>5, <2>6 DEF StackInv
<1>4. CASE Int28Delayed \/ InputReturns
  BY <1>4, MovedToStep DEF Int28Delayed, InputReturns, Running
<1>5. CASE ReadPacket \/ FindNext
  BY <1>5 DEF ReadPacket, FindNext, StackInv, StackShape, FlagsMatchStack,
              HaltedInHandler, Frame, InDos
<1>6. CASE HandlePacket
  <2>1. stack' = stack /\ stack # <<>> /\ fg' = fg /\ inside_int28' = inside_int28
        /\ ~in_packet_handling /\ ~in_packet_handling'
    BY <1>6 DEF HandlePacket, Running, InputBlocked, Release
  <2> QED
    BY <2>1 DEF StackInv, StackShape, FlagsMatchStack, HaltedInHandler, Frame, InDos
<1>7. CASE EnterDos
  <2> DEFINE n == Len(stack)
  <2>1. stack # <<>> /\ Top.pc = "in" /\ ~in_packet_handling /\ in_packet_handling'
    BY <1>7 DEF EnterDos, Running, InputBlocked
  <2>2. stack' = MovedTo("dos") /\ halt_system' = halt_system /\ fg' = fg
        /\ inside_int28' = inside_int28
    BY <1>7 DEF EnterDos
  <2>3. n \in 1..n /\ n \in Nat
    BY <2>1, TopFacts, LenProperties DEF TypeOK
  <2>4. /\ stack' # <<>> /\ Len(stack') = n
        /\ \A i \in 1..n : /\ stack'[i].isr = stack[i].isr
                           /\ stack'[i].pc = IF i = n THEN "dos" ELSE stack[i].pc
    BY <2>1, <2>2, MovedToFacts DEF TypeOK, Pcs
  <2>5. fg # "crit" /\ (fg # "dos" \/ inside_int28)
    BY <1>7 DEF EnterDos, SafeToUseDos, ErrorModeFlag, InDOSFlag
  <2>6. fg = "app" \/ (fg = "dos" /\ inside_int28)
    BY <2>5 DEF TypeOK
  <2>7. \A i : Frame(i)' <=> i \in 1..n
    BY <2>4 DEF Frame
  <2>8. \A i : ~InDos(i)
    BY <2>1 DEF StackInv, FlagsMatchStack
  <2>9. \A i : InDos(i)' <=> i = n
    BY <2>3, <2>4, <2>7, <2>8 DEF InDos, Frame
  <2>10. StackShape'
    BY <2>3, <2>4 DEF StackInv, StackShape, Frame
  <2>11. inside_int28' <=> \E i : Frame(i)' /\ stack'[i].isr = "int28"
    BY <2>2, <2>4 DEF StackInv, FlagsMatchStack, Frame
  <2>12. FlagsMatchStack'
    BY <2>1, <2>2, <2>6, <2>9, <2>11 DEF FlagsMatchStack
  <2>13. HaltedInHandler'
    BY <2>4, <2>7 DEF StackInv, HaltedInHandler, Frame
  <2> QED
    BY <2>10, <2>12, <2>13 DEF StackInv
<1>8. CASE LeaveDos
  <2> DEFINE n == Len(stack)
  <2>1. stack # <<>> /\ Top.pc = "dos" /\ in_packet_handling /\ ~in_packet_handling'
    BY <1>8, RunningFacts DEF LeaveDos, Running, Release
  <2>2. stack' = MovedTo("in") /\ halt_system' = halt_system /\ fg' = fg
        /\ inside_int28' = inside_int28
    BY <1>8 DEF LeaveDos
  <2>3. n \in 1..n /\ n \in Nat /\ InDos(n)
    BY <2>1, TopFacts, LenProperties DEF TypeOK, InDos, Frame, Top
  <2>4. /\ stack' # <<>> /\ Len(stack') = n
        /\ \A i \in 1..n : /\ stack'[i].isr = stack[i].isr
                           /\ stack'[i].pc = IF i = n THEN "in" ELSE stack[i].pc
    BY <2>1, <2>2, MovedToFacts DEF TypeOK, Pcs
  <2>5. \A i : InDos(i) => i = n
    BY <2>3 DEF StackInv, FlagsMatchStack
  <2>6. \A i : ~InDos(i)'
    BY <2>4, <2>5 DEF InDos, Frame
  <2>7. StackShape'
    BY <2>3, <2>4 DEF StackInv, StackShape, Frame
  <2>8. inside_int28' <=> \E i : Frame(i)' /\ stack'[i].isr = "int28"
    BY <2>2, <2>4 DEF StackInv, FlagsMatchStack, Frame
  <2>9. FlagsMatchStack'
    BY <2>1, <2>6, <2>8 DEF FlagsMatchStack
  <2>10. HaltedInHandler'
    BY <2>4 DEF StackInv, HaltedInHandler, Frame
  <2> QED
    BY <2>7, <2>9, <2>10 DEF StackInv
<1>9. CASE ProcessOutputSent \/ ProcessOutputPending
  <2>1. /\ Running("out") /\ AfterOutput
        /\ UNCHANGED <<in_packet_handling, fg, halt_system>>
    BY <1>9 DEF ProcessOutputSent, ProcessOutputPending, AfterOutput
  <2>2. stack # <<>> /\ Top.pc = "out"
    BY <2>1 DEF Running
  <2>3. CASE StaysHalted
    BY <2>1, <2>2, <2>3, MovedToStep DEF AfterOutput
  <2>4. CASE ~StaysHalted
    BY <2>1, <2>2, <2>4, ReturnStep DEF AfterOutput
  <2> QED
    BY <2>3, <2>4
<1>10. CASE Foreground
  <2>1. stack = <<>> /\ stack' = stack /\ in_packet_handling' = in_packet_handling
        /\ halt_system' = halt_system /\ inside_int28' = inside_int28
    BY <1>10 DEF Foreground
  <2>2. \A i : ~Frame(i)
    BY <2>1 DEF Frame
  <2> QED
    BY <2>1, <2>2 DEF StackInv, StackShape, FlagsMatchStack, HaltedInHandler, Frame, InDos
<1>11. CASE UNCHANGED vars
  BY <1>11 DEF vars, StackInv, StackShape, FlagsMatchStack, HaltedInHandler, Frame, InDos
<1> QED
  BY <1>1, <1>2, <1>3, <1>4, <1>5, <1>6, <1>7, <1>8, <1>9, <1>10, <1>11
     DEF Next, Interrupt, Handler

LEMMA HandlingStep ==
    ASSUME TypeOK, StackInv, HandlingState, [Next]_vars
    PROVE  HandlingState'
<1> USE DEF packetVars, dosVars
<1>1. CASE Receive \/ Interrupt \/ Int28Delayed \/ InputReturns \/ Foreground
           \/ UNCHANGED vars
  BY <1>1 DEF Receive, Interrupt, UartIrq, TimerIrq, Int28, CheckIo, Int28Delayed,
              InputReturns, Foreground, vars, HandlingState
<1>2. CASE ReadPacket
  \* A packet that is being handled is still in cur_pkt_in.
  <2>1. ~in_packet_handling
    BY <1>2 DEF ReadPacket, HandlingState, FileOps, NoPkt
  <2> QED
    BY <1>2, <2>1 DEF ReadPacket, HandlingState
<1>3. CASE HandlePacket
  BY <1>3 DEF HandlePacket, InputBlocked, Release, Reply, HandlingState
<1>4. CASE EnterDos
  BY <1>4 DEF EnterDos, InputBlocked, HandlingState, NoSeg
<1>5. CASE FindNext
  <2>1. in_packet_handling
    BY <1>5, RunningFacts DEF FindNext, Running
  <2> QED
    BY <1>5, <2>1 DEF FindNext, HandlingState, NoReply
<1>6. CASE LeaveDos
  <2>1. in_packet_handling
    BY <1>6, RunningFacts DEF LeaveDos, Running
  <2>2. psp' = "app" /\ saved_psp' = NoSeg /\ dta' = "app" /\ saved_dta' = NoSeg
    BY <1>6, <2>1 DEF LeaveDos, RestoreDos, HandlingState, NoSeg
  <2> QED
    BY <1>6, <2>2 DEF LeaveDos, Release, Reply, HandlingState
<1>7. CASE ProcessOutputSent \/ ProcessOutputPending
  BY <1>7 DEF ProcessOutputSent, ProcessOutputPending, OutputSent, OutputPending,
              AfterOutput, HandlingState
<1> QED
  BY <1>1, <1>2, <1>3, <1>4, <1>5, <1>6, <1>7 DEF Next, Handler

LEMMA OneOpenFileStep ==
    ASSUME TypeOK, OneOpenFile, [Next]_vars
    PROVE  OneOpenFile'
<1> USE DEF packetVars, dosVars
<1>1. CASE LeaveDos
  <2>1. \A h \in Handles : h # -1
    BY HandlesAssumption
  <2>2. dos_files \ {open_file_fd} = {}
    BY DEF OneOpenFile
  <2>3. FileEffect(cur_pkt_in)
    BY <1>1 DEF LeaveDos
  <2> QED
    BY <2>1, <2>2, <2>3 DEF FileEffect, OneOpenFile
<1>2. CASE ~LeaveDos
  <2>1. UNCHANGED <<open_file_fd, dos_files>>
    BY <1>2 DEF Next, vars, Receive, Interrupt, UartIrq, TimerIrq, Int28, CheckIo,
                Handler, Int28Delayed, ReadPacket, InputReturns, HandlePacket,
                EnterDos, FindNext, ProcessOutputSent, ProcessOutputPending,
                AfterOutput, Foreground
  <2> QED
    BY <2>1 DEF OneOpenFile
<1> QED
  BY <1>1, <1>2

THEOREM Inductive == Spec => []IInv
<1>1. IInv /\ [Next]_vars => IInv'
  BY TypeStep, StackStep, HandlingStep, OneOpenFileStep DEF IInv
<1> QED
  BY InitIInv, <1>1, PTL DEF Spec

-----------------------------------------------------------------------------
(* The safety properties.                                                  *)

\* Every variable keeps its type.
THEOREM TypeCorrect == Spec => []TypeOK
<1>1. IInv => TypeOK
  BY DEF IInv
<1> QED
  BY <1>1, Inductive, PTL

\* handle_packet() enters DOS at most once at a time, and only where DOS can
\* be entered: in_packet_handling and the tests of safe_to_use_msdos_fs_io()
\* are enough for every nesting of handlers.
THEOREM DosNotReentered == Spec => []NoDosReentry
<1>1. IInv => NoDosReentry
  <2> SUFFICES ASSUME IInv PROVE NoDosReentry
    OBVIOUS
  <2>1. \A i : i \in DosFrames <=> InDos(i)
    BY LenProperties DEF IInv, TypeOK, DosFrames, InDos, Frame
  <2>2. Int28Active <=> inside_int28
    BY LenProperties DEF IInv, TypeOK, StackInv, FlagsMatchStack, Int28Active, Frame
  <2> QED
    BY <2>1, <2>2 DEF IInv, StackInv, FlagsMatchStack, NoDosReentry
<1> QED
  BY <1>1, Inductive, PTL

\* DOS has the interrupted program's PSP and DTA whenever no packet is being
\* handled, and the server's own while one is.
THEOREM PspAndDtaComeBack == Spec => []PspAndDtaRestored
<1>1. IInv => PspAndDtaRestored
  <2> SUFFICES ASSUME IInv PROVE PspAndDtaRestored
    OBVIOUS
  <2>1. DosFrames # {} => in_packet_handling
    BY LenProperties DEF IInv, TypeOK, StackInv, FlagsMatchStack, DosFrames, InDos, Frame
  <2> QED
    BY <2>1 DEF IInv, HandlingState, PspAndDtaRestored
<1> QED
  BY <1>1, Inductive, PTL

\* No file handle is left open behind open_file_fd.
THEOREM NoHandleLeaks == Spec => []OneOpenFile
<1>1. IInv => OneOpenFile
  BY DEF IInv
<1> QED
  BY <1>1, Inductive, PTL

\* However the handlers interrupt each other, there are never more than three.
THEOREM NestingIsBounded == Spec => []NestingBounded
<1>1. IInv => NestingBounded
  <2> SUFFICES ASSUME IInv, ~NestingBounded PROVE FALSE
    OBVIOUS
  <2>1. Len(stack) \in Nat /\ Len(stack) > 3
    BY LenProperties DEF IInv, TypeOK, NestingBounded
  <2>2. Frame(2) /\ Frame(3) /\ 2 < Len(stack) /\ 3 < Len(stack)
    BY <2>1 DEF Frame
  <2>3. InDos(2) /\ InDos(3)
    BY <2>2 DEF IInv, StackInv, StackShape, InDos
  <2> QED
    BY <2>3 DEF IInv, StackInv, FlagsMatchStack
<1> QED
  BY <1>1, Inductive, PTL

\* What holds of every step, from the invariant: the packet that is being
\* handled stays, a reply is neither sent before it is complete nor replaced
\* before it is sent.
THEOREM PacketIsProtected == Spec => PacketProtected
<1>1. IInv /\ [Next]_vars
        => [in_packet_handling /\ in_packet_handling' => cur_pkt_in' = cur_pkt_in]_vars
  <2> SUFFICES ASSUME IInv, [Next]_vars, in_packet_handling, in_packet_handling'
               PROVE  cur_pkt_in' = cur_pkt_in
    OBVIOUS
  <2>1. cur_pkt_in # NoPkt /\ InputBlocked
    BY DEF IInv, HandlingState, FileOps, NoPkt, InputBlocked
  <2> QED
    BY <2>1 DEF Next, vars, packetVars, Receive, Interrupt, UartIrq, TimerIrq, Int28,
                CheckIo, Handler, Int28Delayed, ReadPacket, InputReturns,
                HandlePacket, EnterDos, FindNext, LeaveDos, Release,
                ProcessOutputSent, ProcessOutputPending, AfterOutput, Foreground
<1> QED
  BY <1>1, Inductive, PTL DEF Spec, PacketProtected

THEOREM ReplyIsNotCutShort == Spec => ReplyNotCutShort
<1>1. IInv /\ [Next]_vars
        => [~cur_pkt_out.done /\ cur_pkt_out' # cur_pkt_out
              => cur_pkt_out = NoReply \/ Running("dos")]_vars
  <2> SUFFICES ASSUME IInv, [Next]_vars, ~cur_pkt_out.done, ~Running("dos"),
                      cur_pkt_out # NoReply
               PROVE  cur_pkt_out' = cur_pkt_out
    OBVIOUS
  <2>1. in_packet_handling /\ InputBlocked
    BY DEF IInv, HandlingState, InputBlocked
  <2> QED
    BY <2>1 DEF Next, vars, packetVars, Receive, Interrupt, UartIrq, TimerIrq, Int28,
                CheckIo, Handler, Int28Delayed, ReadPacket, InputReturns,
                HandlePacket, EnterDos, FindNext, LeaveDos, ProcessOutputSent,
                ProcessOutputPending, OutputSent, OutputPending, Foreground
<1> QED
  BY <1>1, Inductive, PTL DEF Spec, ReplyNotCutShort

THEOREM ReplyIsNotOverwritten == Spec => ReplyNotOverwritten
<1>1. IInv /\ [Next]_vars
        => [cur_pkt_out.done /\ cur_pkt_out' # cur_pkt_out => cur_pkt_out' = NoReply]_vars
  <2> SUFFICES ASSUME IInv, [Next]_vars, cur_pkt_out.done, cur_pkt_out' # NoReply
               PROVE  cur_pkt_out' = cur_pkt_out
    OBVIOUS
  <2>1. cur_pkt_out # NoReply /\ InputBlocked
    BY DEF NoReply, InputBlocked
  <2>2. stack # <<>> => Top.pc # "dos"
    BY RunningFacts DEF IInv, HandlingState
  <2> QED
    BY <2>1, <2>2 DEF Next, vars, packetVars, Receive, Interrupt, UartIrq, TimerIrq,
                Int28, CheckIo, Handler, Int28Delayed, ReadPacket, InputReturns,
                HandlePacket, EnterDos, FindNext, LeaveDos, Running, ProcessOutputSent,
                ProcessOutputPending, OutputSent, OutputPending, Foreground
<1> QED
  BY <1>1, Inductive, PTL DEF Spec, ReplyNotOverwritten

\* A resident server that is halted does not let the interrupted program run.
\* For a polling one this is false: see the run server_noint.
THEOREM HaltHoldsResidentMachine == Resident /\ Spec => HaltHoldsMachine
<1>1. Resident /\ IInv /\ [Next]_vars => [halt_system => fg' = fg]_vars
  <2> SUFFICES ASSUME Resident, IInv, [Next]_vars, halt_system
               PROVE  fg' = fg
    OBVIOUS
  <2>1. stack # <<>>
    BY DEF IInv, StackInv, HaltedInHandler
  <2> QED
    BY <2>1 DEF Next, vars, Receive, Interrupt, UartIrq, TimerIrq, Int28,
                CheckIo, Handler, Int28Delayed, ReadPacket, InputReturns,
                HandlePacket, EnterDos, FindNext, LeaveDos, ProcessOutputSent,
                ProcessOutputPending, AfterOutput, Foreground
<1>2. CASE Resident
  BY <1>1, <1>2, Inductive, PTL DEF Spec, HaltHoldsMachine
<1>3. CASE ~Resident
  BY <1>3
<1> QED
  BY <1>2, <1>3
=============================================================================
