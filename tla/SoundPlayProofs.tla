-------------------------- MODULE SoundPlayProofs --------------------------
(***************************************************************************)
(* What SoundPlay promises for a ring, a file and a table of every size    *)
(* and a card of every speed: the accounts of the ring add up, what is     *)
(* queued is the file in order, the position shown is the block heard, the *)
(* write pointer is forced forward in an underrun only and an underrun is  *)
(* mended soon.                                                            *)
(***************************************************************************)
EXTENDS SoundPlay, WellFoundedInduction, TLAPS

\* What the main program has done so far.
Phases ==
    /\ pc \in {"off", "preroll", "start", "idle", "poll", "load", "read", "clamp",
               "stopping"}
    /\ running <=> playing
    /\ pc \in {"idle", "poll", "stopping"} => playing
    /\ pc \in {"off", "preroll", "start"} => ~playing
    /\ pc = "preroll" => play_empty
    /\ play_empty => /\ pc \in {"off", "preroll", "load"} /\ ~playing
                     /\ write_counter = 0 /\ gap = 0 /\ solid = 0 /\ reserved = 0

\* What is still to be loaded has its place in the ring.
Loading ==
    /\ pc # "read" => reserved = 0
    /\ pc = "poll" => write_counter + LoadBlock <= CounterMax
    /\ pc = "load" =>
          /\ howmuch \in 1 .. LoadBlock
          /\ solid + howmuch <= Size
          /\ write_counter + howmuch <= CounterMax
    /\ pc = "read" =>
          /\ howmuch \in 1 .. LoadBlock /\ towrite \in 1 .. howmuch
          /\ reserved <= towrite
          /\ solid + reserved + (howmuch - towrite) <= Size
          /\ file_pos + towrite <= FileLen
          /\ write_counter + (howmuch - towrite) <= CounterMax

\* The highest play counter is behind everything that is queued, and when a
\* block of the file was seen to be heard, the counter was the highest.
Counters ==
    /\ pc # "off" => play_counter_prev + solid + reserved <= write_counter
    /\ play_counter =
          PlayCounter(write_counter, PlayDelay(last_io, dma_position, play_empty))
    /\ play_counter <= play_counter_prev
    /\ seen # Unknown => play_counter >= play_counter_prev

Event == [event_at : Nat, wav_position : 0 .. FileLen]

\* Between two events of the table the file is read on, not past its end.
ReadOn(es) ==
    \A i \in 1 .. Len(es) - 1 :
        /\ es[i].event_at <= es[i + 1].event_at
        /\ (es[i + 1].event_at - es[i].event_at) + es[i].wav_position <= FileLen

\* From the last event on, the counter and the file have gone the same way.
LastIs(es, counter, position) ==
    /\ es # <<>>
    /\ es[Len(es)].event_at <= counter
    /\ (counter - es[Len(es)].event_at) + es[Len(es)].wav_position = position

EventsAddUp ==
    /\ events \in Seq(Event)
    /\ ReadOn(events)
    /\ pc = "read" => LastIs(events, write_counter, file_pos + towrite)
    /\ pc \notin {"off", "read"} => LastIs(events, write_counter, file_pos)

Inv == TypeOK /\ Phases /\ Loading /\ Counters /\ EventsAddUp

-----------------------------------------------------------------------------
(* Arithmetic.                                                             *)

\* A set of natural numbers has a least element.
LEMMA MinOfNats ==
    ASSUME NEW T \in SUBSET Nat, T # {}
    PROVE  Min(T) \in T /\ \A n \in T : Min(T) <= n
<1>1. \E m \in T : \A n \in T : ~(<<n, m>> \in {ss \in Nat \X Nat : ss[1] < ss[2]})
  <2> DEFINE Less == {ss \in Nat \X Nat : ss[1] < ss[2]}
  <2>1. IsWellFoundedOn(Less, Nat)
    BY NatLessThanWellFounded, Zenon DEF OpToRel
  <2>2. T \subseteq Nat
    OBVIOUS
  <2> HIDE DEF Less
  <2>3. \E m \in T : \A n \in T : ~(<<n, m>> \in Less)
    BY <2>1, <2>2, WFMin
  <2> QED
    BY <2>3 DEF Less
<1>2. PICK m \in T : \A n \in T : ~(<<n, m>> \in {ss \in Nat \X Nat : ss[1] < ss[2]})
  BY <1>1
<1>3. ASSUME NEW n \in T PROVE m <= n
  <2>1. ~(<<n, m>> \in {ss \in Nat \X Nat : ss[1] < ss[2]}) /\ m \in Nat /\ n \in Nat
    BY <1>2
  <2>2. ~(n < m)
    BY <2>1
  <2> QED
    BY <2>1, <2>2
<1> QED
  BY <1>3 DEF Min

\* A ring takes two loads and has room for the events.
LEMMA Sizes ==
    /\ Size \in Nat /\ MinLoad \in Nat \ {0} /\ LoadBlock \in Nat
    /\ MinLoad <= LoadBlock /\ 2 * LoadBlock <= Size /\ 4 * MinLoad <= Size
    /\ FileLen \in Nat \ {0}
    /\ CounterMax \in Nat /\ LoadBlock <= CounterMax
    /\ MaxRebase \in Nat /\ MaxRebase >= 3
<1>1. MaxRebase \in Nat /\ MaxMishaps \in Nat /\ Size >= 4
  BY RingAssumption, EventsAssumption, PaceAssumption
<1>2. ASSUME MaxRebase - 2 - MaxMishaps <= 0 PROVE FALSE
  <2> DEFINE room == MaxRebase - 2 - MaxMishaps
  <2>1. room \in Int /\ room <= 0 /\ FileLen \in Nat /\ Size \in Nat
    BY <1>1, <1>2, FileAssumption, RingAssumption
  <2>2. room * FileLen >= Size - 1
    BY EventsAssumption
  <2> HIDE DEF room
  <2>3. room * FileLen <= 0
    BY <2>1
  <2> QED
    BY <1>1, <2>1, <2>2, <2>3
<1> QED
  BY <1>1, <1>2, RingAssumption, FileAssumption, PaceAssumption

\* Where the pointers meet, the delay is taken for the whole ring.
LEMMA DelayIsTotal ==
    ASSUME NEW p \in Places, NEW total \in 0 .. Size, NEW e \in BOOLEAN,
           e => total = 0
    PROVE  /\ Place(p + total) \in Places
           /\ PlayDelay(Place(p + total), p, e) =
                 IF total = 0 THEN (IF e THEN 0 ELSE Size) ELSE total
  BY Sizes DEF Place, Places, PlayDelay

-----------------------------------------------------------------------------
(* Asking the card where it is.                                            *)

\* When the card has been asked, the counters are right: nothing queued has
\* been played, and if a block of the file is heard, nothing is behind.
LEMMA AskStep ==
    ASSUME NEW g \in Nat, NEW s \in Nat, NEW r \in Nat, NEW w \in Nat,
           g + s + r <= Size, NEW e \in BOOLEAN,
           e => g = 0 /\ s = 0 /\ r = 0 /\ w = 0,
           pos \in Places, since \in 0 .. Size,
           play_counter_prev \in Nat, play_counter_prev + s + r <= w,
           gap' = g, solid' = s, reserved' = r, write_counter' = w,
           play_empty' = e, last_io' = Place(pos + g + s + r),
           NEW end, ReadPosition(end)
    PROVE  /\ dma_position' \in Places /\ since' \in 0 .. Size
           /\ play_counter' \in 0 .. w /\ play_counter_prev' \in 0 .. w
           /\ Counters'
<1> DEFINE total == g + s + r
           d     == PlayDelay(Place(pos + g + s + r), pos, e)
           c     == PlayCounter(w, d)
<1>1. /\ c \in 0 .. w
      /\ Most(play_counter_prev, c) \in 0 .. w
      /\ Most(play_counter_prev, c) + s + r <= w
      /\ c <= Most(play_counter_prev, c)
      /\ g = 0 /\ s + r > 0 => c >= Most(play_counter_prev, c)
  <2>1. /\ total \in 0 .. Size /\ pos + total = pos + g + s + r
        /\ total = g + s + r
        /\ e => total = 0
    BY Sizes DEF Places
  <2>2. d = IF total = 0 THEN (IF e THEN 0 ELSE Size) ELSE total
    BY <2>1, DelayIsTotal
  <2> HIDE DEF total, d
  <2> QED
    BY <2>1, <2>2, Sizes DEF PlayCounter, Most
<1>2. /\ dma_position' = pos
      /\ play_counter' = c
      /\ play_counter_prev' = Most(play_counter_prev, c)
  BY DEF ReadPosition, UpdatePlayDelay, Highest
<1>3. since' \in 0 .. Size
  BY Sizes DEF ReadPosition
<1>4. seen' # Unknown => g = 0 /\ s + r > 0
  BY DEF ReadPosition, UnderDma
<1>5. /\ pc' # "off" => play_counter_prev' + s + r <= w
      /\ play_counter' = PlayCounter(w, PlayDelay(last_io', dma_position', e))
      /\ play_counter' <= play_counter_prev'
      /\ seen' # Unknown => play_counter' >= play_counter_prev'
  <2>1. play_counter' = PlayCounter(w, PlayDelay(last_io', dma_position', e))
    BY <1>2
  <2> HIDE DEF c
  <2> QED
    BY <2>1, <1>1, <1>2, <1>4
<1>6. Counters'
  BY <1>5 DEF Counters
<1> QED
  BY <1>1, <1>2, <1>3, <1>6

-----------------------------------------------------------------------------
(* The table of events.                                                    *)

\* Adding an event where the counter and the file have come keeps the table in
\* order, whether or not the oldest one has to go.
LEMMA EventAdded ==
    ASSUME NEW at \in Nat, NEW position \in 0 .. FileLen, NEW end \in 0 .. FileLen,
           events \in Seq(Event), Len(events) < MaxRebase, ReadOn(events),
           LastIs(events, at, end),
           NEW es, es = RebaseAdd(at, position)
    PROVE  /\ es \in Seq(Event) /\ Len(es) < MaxRebase /\ ReadOn(es)
           /\ LastIs(es, at, position)
<1> DEFINE new == [event_at |-> at, wav_position |-> position]
           all == Append(events, new)
<1>1. new \in Event /\ new.event_at = at /\ new.wav_position = position
  BY DEF Event
<1>2. /\ all \in Seq(Event) /\ Len(all) = Len(events) + 1
      /\ Len(all) <= MaxRebase
      /\ Len(events) \in Nat \ {0}
      /\ all[Len(all)] = new
      /\ \A i \in 1 .. Len(events) : all[i] = events[i]
  BY <1>1, Sizes DEF LastIs
<1>3. ReadOn(all)
  <2> SUFFICES ASSUME NEW i \in 1 .. Len(all) - 1
               PROVE  /\ all[i].event_at <= all[i + 1].event_at
                      /\ (all[i + 1].event_at - all[i].event_at)
                            + all[i].wav_position <= FileLen
    BY DEF ReadOn
  <2>1. CASE i < Len(events)
    <3>1. i \in 1 .. Len(events) - 1 /\ all[i] = events[i] /\ all[i + 1] = events[i + 1]
      BY <1>2, <2>1
    <3> QED
      BY <3>1 DEF ReadOn
  <2>2. CASE i = Len(events)
    <3>1. all[i] = events[Len(events)] /\ all[i + 1] = new
      BY <1>2, <2>2
    <3>2. /\ events[Len(events)].event_at <= at
          /\ (at - events[Len(events)].event_at)
                + events[Len(events)].wav_position <= FileLen
      BY Sizes DEF LastIs
    <3> QED
      BY <1>1, <3>1, <3>2
  <2> QED
    BY <1>2, <2>1, <2>2
<1> HIDE DEF new, all
<1>4. CASE es = all /\ Len(all) <= MaxRebase - 1
  <2>1. es # <<>> /\ es[Len(es)] = new
    BY <1>2, <1>4
  <2>2. LastIs(es, at, position)
    BY <1>1, <2>1 DEF LastIs
  <2>3. Len(es) < MaxRebase
    BY <1>2, <1>4, Sizes
  <2> QED
    BY <1>2, <1>3, <1>4, <2>2, <2>3
<1>5. CASE es = Tail(all) /\ Len(all) > MaxRebase - 1
  <2>1. /\ Len(all) \in Nat /\ Len(all) >= 3
        /\ all # <<>>
    BY <1>2, <1>5, Sizes
  <2>2. /\ es \in Seq(Event) /\ Len(es) = Len(all) - 1
        /\ \A i \in 1 .. Len(es) : es[i] = all[i + 1]
    BY <1>2, <1>5, <2>1
  <2>3. es # <<>> /\ es[Len(es)] = new
    BY <1>2, <2>1, <2>2
  <2>4. LastIs(es, at, position)
    BY <1>1, <2>3 DEF LastIs
  <2>5. ReadOn(es)
    <3> SUFFICES ASSUME NEW i \in 1 .. Len(es) - 1
                 PROVE  /\ es[i].event_at <= es[i + 1].event_at
                        /\ (es[i + 1].event_at - es[i].event_at)
                              + es[i].wav_position <= FileLen
      BY DEF ReadOn
    <3>1. /\ es[i] = all[i + 1] /\ es[i + 1] = all[i + 1 + 1]
          /\ i + 1 \in 1 .. Len(all) - 1
      BY <2>1, <2>2
    <3> QED
      BY <1>3, <3>1 DEF ReadOn
  <2>6. Len(es) < MaxRebase
    BY <1>2, <2>1, <2>2, Sizes
  <2> QED
    BY <2>2, <2>4, <2>5, <2>6
<1>6. es = IF Len(all) > MaxRebase - 1 THEN Tail(all) ELSE all
  BY DEF RebaseAdd, all, new
<1> QED
  BY <1>2, <1>4, <1>5, <1>6, Sizes

\* A counter that has not passed the write counter is shown as a place in the
\* file.
LEMMA ShownInFile ==
    ASSUME NEW counter \in Nat, NEW written \in Nat, counter <= written,
           NEW end \in 0 .. FileLen, NEW position \in 0 .. FileLen,
           NEW isplaying \in BOOLEAN,
           events \in Seq(Event), ReadOn(events), LastIs(events, written, end)
    PROVE  Shown(counter, isplaying, position) \in 0 .. FileLen
<1> DEFINE later == Later(counter)
           i     == Min(later) - 1
<1>1. Len(events) \in Nat \ {0} /\ \A k \in 1 .. Len(events) : events[k] \in Event
  BY DEF LastIs
<1>2. later \subseteq Nat /\ Len(events) + 1 \in later
  BY <1>1 DEF Later
<1>3. Min(later) \in later /\ \A k \in later : Min(later) <= k
  BY <1>2, MinOfNats
<1>4. i \in 0 .. Len(events) /\ Min(later) = i + 1
  BY <1>1, <1>3 DEF Later
<1>5. i \notin later
  BY <1>1, <1>3, <1>4 DEF Later
<1>6. i + 1 \in later
  BY <1>3, <1>4
<1>7. Shown(counter, isplaying, position)
        = IF i > 0 THEN (counter - events[i].event_at) + events[i].wav_position
          ELSE IF isplaying THEN 0 ELSE position
  BY DEF Shown
<1> HIDE DEF later, i
<1>8. CASE i = 0
  BY <1>7, <1>8, Sizes
<1>9. CASE i > 0
  <2>1. i \in 1 .. Len(events) /\ events[i] \in Event
    BY <1>1, <1>4, <1>9
  <2>2. events[i].event_at \in Nat /\ events[i].wav_position \in 0 .. FileLen
    BY <2>1 DEF Event
  <2>3. events[i].event_at <= counter
    BY <1>1, <1>5, <2>1, <2>2 DEF later, Later
  <2>4. (counter - events[i].event_at) + events[i].wav_position <= FileLen
    <3>1. CASE i = Len(events)
      BY <3>1, <2>2, <2>3, Sizes DEF LastIs
    <3>2. CASE i < Len(events)
      <4>1. i \in 1 .. Len(events) - 1 /\ i + 1 \in 1 .. Len(events)
        BY <1>1, <2>1, <3>2
      <4>2. events[i + 1].event_at > counter /\ events[i + 1].event_at \in Nat
        BY <1>1, <1>6, <4>1 DEF later, Later, Event
      <4>3. (events[i + 1].event_at - events[i].event_at) + events[i].wav_position
               <= FileLen
        BY <4>1 DEF ReadOn
      <4> DEFINE a == events[i].event_at
                 b == events[i + 1].event_at
                 q == events[i].wav_position
      <4>4. /\ a \in Nat /\ b \in Nat /\ q \in Nat /\ a <= counter /\ counter < b
            /\ (b - a) + q <= FileLen
        BY <2>2, <2>3, <4>2, <4>3, Sizes
      <4> HIDE DEF a, b, q
      <4>5. (counter - a) + q <= FileLen
        BY <4>4, Sizes
      <4> QED
        BY <4>5 DEF a, q
    <3> QED
      BY <1>1, <2>1, <3>1, <3>2
  <2>5. (counter - events[i].event_at) + events[i].wav_position \in 0 .. FileLen
    <3>1. PICK a \in Nat : a = counter - events[i].event_at
      BY <2>2, <2>3
    <3>2. PICK q \in Nat : q = events[i].wav_position
      BY <2>2, Sizes
    <3>3. a + q <= FileLen
      BY <2>4, <3>1, <3>2
    <3>4. a + q \in 0 .. FileLen
      BY <3>3, Sizes
    <3> QED
      BY <3>1, <3>2, <3>4
  <2> QED
    BY <1>7, <1>9, <2>5
<1> QED
  BY <1>1, <1>4, <1>8, <1>9

-----------------------------------------------------------------------------
(* The write pointer.                                                      *)

\* The DMA has moved by one place.
LEMMA PlaceAfterAdvance ==
    ASSUME NEW p \in Places, NEW n \in 1 .. Size
    PROVE  /\ Card!Succ(p) \in Places
           /\ Place(Card!Succ(p) + (n - 1)) = Place(p + n)
           /\ Place(p + Size) = Place(p)
  BY Sizes DEF Card!Succ, Place, Places

\* n more places have been handed out, at most up to the end of the ring.
LEMMA PlaceAfterWrite ==
    ASSUME NEW p \in Places, NEW t \in 0 .. Size, NEW n \in Nat \ {0},
           NEW io, io = Place(p + t), n <= Size - io,
           NEW io2, io2 = IF io + n >= Size THEN 0 ELSE io + n
    PROVE  /\ io2 \in Places
           /\ t + n <= Size => io2 = Place(p + (t + n))
           /\ t + n > Size => io2 = Place(p + (t + n - Size))
  BY Sizes DEF Place, Places

\* Wherever the write pointer is forced to, it is a distance from the DMA.
LEMMA PlaceAfterClamp ==
    ASSUME NEW p \in Places, NEW io \in Places
    PROVE  /\ Place(io + Size - p) \in Places
           /\ io = Place(p + Place(io + Size - p))
  BY Sizes DEF Place, Places

-----------------------------------------------------------------------------
LEMMA InvInit == Init => Inv
<1> SUFFICES ASSUME Init PROVE Inv
  OBVIOUS
<1>1. TypeOK
  <2>1. 0 \in Places /\ 0 \in 0 .. CounterMax /\ 0 \in 0 .. FileLen /\ 0 \in 0 .. Size
    BY Sizes DEF Places
  <2>2. Len(events) < MaxRebase /\ gap + solid + reserved <= Size
    BY Sizes DEF Init
  <2>3. mem \in [Places -> Blocks \cup {Silence, Garbled}]
    BY DEF Init
  <2> QED
    BY <2>1, <2>2, <2>3 DEF Init, Card!Init, TypeOK
<1>2. Phases /\ Loading
  BY DEF Init, Card!Init, Phases, Loading
<1>3. Counters
  <2>1. PlayDelay(0, 0, TRUE) = 0 /\ PlayCounter(0, 0) = 0 /\ 0 <= 0
    BY DEF PlayDelay, PlayCounter, Most
  <2> QED
    BY <2>1 DEF Init, Counters
<1>4. EventsAddUp
  BY DEF Init, EventsAddUp, ReadOn
<1> QED
  BY <1>1, <1>2, <1>3, <1>4 DEF Inv

\* The DMA plays a block, which may be the last that was queued.
LEMMA AdvanceStep ==
    ASSUME Inv, Advance
    PROVE  Inv'
<1>1. /\ running /\ playing /\ ~play_empty
      /\ pos' = Card!Succ(pos)
      /\ mem' = [mem EXCEPT ![pos] = Silence]
      /\ since' = Least(since + 1, Size)
      /\ UNCHANGED <<running, last_io, dma_position, wavState, playing, fileVars, userVars,
                     pc, loadVars, seen>>
  BY DEF Advance, Card!Advance, Inv, Phases
<1>2. PICK g \in Nat, s \in Nat, r \in Nat :
         /\ gap' = g /\ solid' = s /\ reserved' = r
         /\ g + s + r <= Size /\ s <= solid /\ r <= reserved
         /\ \/ g + s + r + 1 = gap + solid + reserved
            \/ gap + solid + reserved = 0 /\ g + s + r + 1 = Size
  <2>1. gap \in Nat /\ solid \in Nat /\ reserved \in Nat /\ gap + solid + reserved <= Size
    BY DEF Inv, TypeOK
  <2>2. CASE gap > 0
    <3>1. gap' = gap - 1 /\ solid' = solid /\ reserved' = reserved
      BY <2>2 DEF Advance
    <3> gap - 1 \in Nat /\ solid \in Nat /\ reserved \in Nat
      BY <2>1, <2>2, Sizes
    <3> WITNESS gap - 1 \in Nat, solid \in Nat, reserved \in Nat
    <3> QED
      BY <2>1, <2>2, <3>1, Sizes
  <2>3. CASE gap = 0 /\ solid > 0
    <3>1. gap' = gap /\ solid' = solid - 1 /\ reserved' = reserved
      BY <2>3 DEF Advance
    <3> gap \in Nat /\ solid - 1 \in Nat /\ reserved \in Nat
      BY <2>1, <2>3, Sizes
    <3> WITNESS gap \in Nat, solid - 1 \in Nat, reserved \in Nat
    <3> QED
      BY <2>1, <2>3, <3>1, Sizes
  <2>4. CASE gap = 0 /\ solid = 0 /\ reserved > 0
    <3>1. gap' = gap /\ solid' = solid /\ reserved' = reserved - 1
      BY <2>4 DEF Advance
    <3> gap \in Nat /\ solid \in Nat /\ reserved - 1 \in Nat
      BY <2>1, <2>4, Sizes
    <3> WITNESS gap \in Nat, solid \in Nat, reserved - 1 \in Nat
    <3> QED
      BY <2>1, <2>4, <3>1, Sizes
  <2>5. CASE gap = 0 /\ solid = 0 /\ reserved = 0
    <3>1. gap' = Size - 1 /\ solid' = solid /\ reserved' = reserved
      BY <2>5 DEF Advance
    <3> Size - 1 \in Nat /\ solid \in Nat /\ reserved \in Nat
      BY <2>1, <2>5, Sizes
    <3> WITNESS Size - 1 \in Nat, solid \in Nat, reserved \in Nat
    <3> QED
      BY <2>1, <2>5, <3>1, Sizes
  <2> QED
    BY <2>1, <2>2, <2>3, <2>4, <2>5
<1>3. pos' \in Places /\ last_io = Place(pos' + (g + s + r))
  <2>1. pos \in Places /\ last_io = Place(pos + (gap + solid + reserved))
    <3>1. pos + gap + solid + reserved = pos + (gap + solid + reserved) /\ pc # "off"
      BY <1>1, Sizes DEF Inv, TypeOK, Phases, Places
    <3> QED
      BY <3>1 DEF Inv, TypeOK
  <2>2. gap + solid + reserved \in 0 .. Size
    BY Sizes DEF Inv, TypeOK
  <2>3. CASE g + s + r + 1 = gap + solid + reserved
    <3>1. g + s + r = (gap + solid + reserved) - 1 /\ gap + solid + reserved \in 1 .. Size
      BY <2>2, <2>3
    <3> QED
      BY <1>1, <2>1, <3>1, PlaceAfterAdvance
  <2>4. CASE gap + solid + reserved = 0 /\ g + s + r + 1 = Size
    <3>1. g + s + r = Size - 1 /\ Size \in 1 .. Size /\ pos + 0 = pos
      BY <2>1, <2>4, Sizes DEF Places
    <3> QED
      BY <1>1, <2>1, <2>4, <3>1, PlaceAfterAdvance
  <2> QED
    BY <1>2, <2>3, <2>4
<1>4. pos' + (g + s + r) = pos' + g + s + r
  BY <1>3, Sizes DEF Places
<1>5. TypeOK'
  <2>1. mem' \in [Places -> Blocks \cup {Silence, Garbled}]
    BY <1>1 DEF Inv, TypeOK
  <2>2. since' \in 0 .. Size
    BY <1>1, Sizes DEF Inv, TypeOK, Least
  <2> QED
    BY <1>1, <1>2, <1>3, <1>4, <2>1, <2>2
    DEF Inv, TypeOK, wavState, fileVars
<1>6. Phases'
  BY <1>1 DEF Inv, Phases, wavState
<1>7. Loading'
  <2>1. CASE pc = "read"
    <3>1. /\ howmuch \in 1 .. LoadBlock /\ towrite \in 1 .. howmuch
          /\ r <= towrite /\ s + r + (howmuch - towrite) <= Size
      <4>1. /\ howmuch \in 1 .. LoadBlock /\ towrite \in 1 .. howmuch
            /\ reserved <= towrite /\ solid + reserved + (howmuch - towrite) <= Size
        BY <2>1 DEF Inv, Loading
      <4>2. solid \in Nat /\ reserved \in Nat
        BY DEF Inv, TypeOK
      <4>3. howmuch \in Nat /\ towrite \in Nat
        BY <4>1, Sizes
      <4>4. r <= towrite
        BY <1>2, <4>1, <4>2, <4>3
      <4>5. s + r <= solid + reserved
        BY <1>2, <4>2
      <4>6. s + r + (howmuch - towrite) <= Size
        BY <1>2, <4>1, <4>2, <4>3, <4>5, Sizes
      <4> QED
        BY <4>1, <4>4, <4>6
    <3> QED
      BY <1>1, <1>2, <2>1, <3>1 DEF Inv, Loading, wavState, fileVars, loadVars
  <2>2. CASE pc # "read"
    <3>1. r = 0 /\ (pc = "load" => s + howmuch <= Size)
      BY <1>2, <2>2, Sizes DEF Inv, TypeOK, Loading
    <3> QED
      BY <1>1, <1>2, <2>2, <3>1 DEF Inv, Loading, wavState, fileVars, loadVars
  <2> QED
    BY <2>1, <2>2
<1>8. Counters'
  BY <1>1, <1>2 DEF Inv, TypeOK, Counters, wavState
<1>9. EventsAddUp'
  BY <1>1 DEF Inv, EventsAddUp, wavState, fileVars, loadVars
<1> QED
  BY <1>5, <1>6, <1>7, <1>8, <1>9 DEF Inv

-----------------------------------------------------------------------------
(* The steps of the main loop.                                             *)

\* Asking and nothing else.
LEMMA AskKeeps ==
    ASSUME Inv, pc # "off", NEW end, ReadPosition(end),
           UNCHANGED <<write_counter, play_empty, last_io, gap, solid, reserved>>
    PROVE  /\ dma_position' \in Places /\ since' \in 0 .. Size
           /\ play_counter' \in 0 .. write_counter
           /\ play_counter_prev' \in 0 .. write_counter
           /\ Counters'
<1>1. /\ gap \in Nat /\ solid \in Nat /\ reserved \in Nat /\ write_counter \in Nat
      /\ gap + solid + reserved <= Size /\ play_empty \in BOOLEAN
      /\ pos \in Places /\ since \in 0 .. Size /\ play_counter_prev \in Nat
  BY Sizes DEF Inv, TypeOK
<1>2. play_empty => gap = 0 /\ solid = 0 /\ reserved = 0 /\ write_counter = 0
  BY DEF Inv, Phases
<1>3. play_counter_prev + solid + reserved <= write_counter
  BY DEF Inv, Counters
<1>4. last_io = Place(pos + gap + solid + reserved)
  BY DEF Inv, TypeOK
<1> QED
  BY <1>1, <1>2, <1>3, <1>4, AskStep

LEMMA PollStep == ASSUME Inv, Poll PROVE Inv'
<1>1. /\ pc = "idle" /\ pc' = "poll" /\ playing
      /\ write_counter + LoadBlock <= CounterMax
      /\ UNCHANGED <<write_counter, play_empty, last_io, gap, solid, reserved, pos,
                     running, playing, fileVars, userVars, loadVars, mem>>
      /\ ReadPosition(file_pos)
  BY DEF Poll
<1>2. /\ dma_position' \in Places /\ since' \in 0 .. Size
      /\ play_counter' \in 0 .. write_counter
      /\ play_counter_prev' \in 0 .. write_counter
      /\ Counters'
  BY <1>1, AskKeeps
<1>3. TypeOK'
  BY <1>1, <1>2 DEF Inv, TypeOK, fileVars
<1>4. Phases'
  BY <1>1 DEF Inv, Phases
<1>5. Loading'
  BY <1>1 DEF Inv, Loading
<1>6. EventsAddUp'
  BY <1>1 DEF Inv, EventsAddUp, fileVars
<1> QED
  BY <1>2, <1>3, <1>4, <1>5, <1>6 DEF Inv

LEMMA StopPlayStep == ASSUME Inv, StopPlay PROVE Inv'
<1>1. /\ pc = "idle" /\ pc' = "stopping" /\ playing
      /\ UNCHANGED <<write_counter, play_empty, last_io, gap, solid, reserved, pos,
                     running, playing, fileVars, userVars, loadVars, mem>>
      /\ ReadPosition(file_pos)
  BY DEF StopPlay
<1>2. /\ dma_position' \in Places /\ since' \in 0 .. Size
      /\ play_counter' \in 0 .. write_counter
      /\ play_counter_prev' \in 0 .. write_counter
      /\ Counters'
  BY <1>1, AskKeeps
<1>3. TypeOK'
  BY <1>1, <1>2 DEF Inv, TypeOK, fileVars
<1>4. Phases'
  BY <1>1 DEF Inv, Phases
<1>5. Loading'
  BY <1>1 DEF Inv, Loading
<1>6. EventsAddUp'
  BY <1>1 DEF Inv, EventsAddUp, fileVars
<1> QED
  BY <1>2, <1>3, <1>4, <1>5, <1>6 DEF Inv

LEMMA StuckStep == ASSUME Inv, Stuck PROVE Inv'
<1>1. /\ pc = "poll" /\ pc' = "idle" /\ playing
      /\ UNCHANGED <<pos, running, last_io, dma_position, wavState, playing, fileVars,
                     ringVars, seenVars>>
  BY DEF Stuck, EndTurn, Inv, Phases
<1>2. TypeOK'
  BY <1>1 DEF Inv, TypeOK, wavState, fileVars, ringVars, seenVars
<1>3. Phases' /\ Loading'
  BY <1>1 DEF Inv, Phases, Loading, wavState, ringVars
<1>4. Counters'
  BY <1>1 DEF Inv, Counters, wavState, ringVars, seenVars
<1>5. EventsAddUp'
  BY <1>1 DEF Inv, EventsAddUp, wavState, fileVars
<1> QED
  BY <1>2, <1>3, <1>4, <1>5 DEF Inv

\* What is to be loaded has room behind what is queued.
LEMMA CanWriteStep == ASSUME Inv, CanWrite PROVE Inv'
<1> DEFINE avail == Size - PlayDelay(last_io, pos, play_empty)
           n     == Least(LoadBlock, avail)
<1>1. /\ pc \in {"preroll", "poll"}
      /\ UNCHANGED <<write_counter, play_empty, last_io, gap, solid, reserved, pos,
                     running, playing, fileVars, mem>>
      /\ ReadPosition(file_pos)
      /\ IF WorthIt(n) THEN pc' = "load" /\ howmuch' = n ELSE EndTurn
  BY DEF CanWrite
<1>2. /\ dma_position' \in Places /\ since' \in 0 .. Size
      /\ play_counter' \in 0 .. write_counter
      /\ play_counter_prev' \in 0 .. write_counter
      /\ Counters'
  BY <1>1, AskKeeps
<1>3. TypeOK'
  BY <1>1, <1>2 DEF Inv, TypeOK, fileVars
<1>4. EventsAddUp'
  <2>1. pc' \in {"load", "idle", "start"}
    BY <1>1 DEF EndTurn
  <2> QED
    BY <1>1, <2>1 DEF Inv, EventsAddUp, fileVars
<1>5. PICK d \in 0 .. Size :
         /\ d = PlayDelay(last_io, pos, play_empty)
         /\ solid <= d
         /\ play_empty => d = 0
  <2> DEFINE total == gap + solid + reserved
  <2>1. /\ gap \in Nat /\ solid \in Nat /\ reserved \in Nat /\ total \in 0 .. Size
        /\ pos \in Places /\ play_empty \in BOOLEAN /\ solid <= total
        /\ pos + total = pos + gap + solid + reserved
        /\ last_io = Place(pos + gap + solid + reserved)
    BY <1>1, Sizes DEF Inv, TypeOK, Places
  <2>2. play_empty => total = 0
    BY DEF Inv, Phases
  <2> HIDE DEF total
  <2>3. PlayDelay(last_io, pos, play_empty)
           = IF total = 0 THEN (IF play_empty THEN 0 ELSE Size) ELSE total
    BY <2>1, <2>2, DelayIsTotal
  <2> QED
    BY <2>1, <2>2, <2>3, Sizes
<1>6. /\ n \in Int /\ n <= LoadBlock /\ n <= Size - d
      /\ play_empty => n = LoadBlock
      /\ n = Least(LoadBlock, Size - d)
  BY <1>5, Sizes DEF Least
<1> HIDE DEF n, avail
<1>7. CASE WorthIt(n)
  <2>1. /\ pc' = "load" /\ howmuch' = n /\ n \in 1 .. LoadBlock /\ solid + n <= Size
    BY <1>1, <1>5, <1>6, <1>7, Sizes DEF WorthIt, Inv, TypeOK
  <2>2. write_counter + n <= CounterMax
    <3>1. CASE pc = "preroll"
      <4>1. write_counter = 0
        BY <3>1 DEF Inv, Phases
      <4> QED
        BY <2>1, <4>1, Sizes
    <3>2. CASE pc = "poll"
      <4>1. write_counter + LoadBlock <= CounterMax /\ write_counter \in Nat
        BY <3>2 DEF Inv, TypeOK, Loading
      <4> QED
        BY <2>1, <4>1, Sizes
    <3> QED
      BY <1>1, <3>1, <3>2
  <2>3. Loading'
    BY <1>1, <2>1, <2>2 DEF Inv, Loading
  <2>4. Phases'
    BY <1>1, <2>1 DEF Inv, Phases
  <2> QED
    BY <1>2, <1>3, <1>4, <2>3, <2>4 DEF Inv
<1>8. CASE ~WorthIt(n)
  <2>1. ~play_empty
    BY <1>6, <1>8, Sizes DEF WorthIt
  <2>2. pc' = "idle" /\ playing
    BY <1>1, <1>8, <2>1 DEF EndTurn, Inv, Phases
  <2>3. Phases' /\ Loading'
    BY <1>1, <2>2, <2>1 DEF Inv, Phases, Loading
  <2> QED
    BY <1>2, <1>3, <1>4, <2>3 DEF Inv
<1> QED
  BY <1>7, <1>8

LEMMA RewindStep == ASSUME Inv, Rewind PROVE Inv'
<1>1. /\ pc = "load" /\ file_pos = FileLen
      /\ file_pos' = 0 /\ wav_position' = 0
      /\ events' = RebaseAdd(write_counter, 0)
      /\ UNCHANGED <<pos, running, last_io, dma_position, wavState, playing, pc,
                     loadVars, ringVars, seenVars>>
  BY DEF Rewind, StartOver
<1>2. /\ events' \in Seq(Event) /\ Len(events') < MaxRebase /\ ReadOn(events')
      /\ LastIs(events', write_counter, 0)
  <2>1. /\ write_counter \in Nat /\ 0 \in 0 .. FileLen /\ FileLen \in 0 .. FileLen
        /\ Len(events) < MaxRebase
        /\ events \in Seq(Event) /\ ReadOn(events)
    BY Sizes DEF Inv, TypeOK, EventsAddUp
  <2>2. LastIs(events, write_counter, FileLen)
    BY <1>1 DEF Inv, EventsAddUp
  <2> QED
    BY <1>1, <2>1, <2>2, EventAdded
<1>3. TypeOK'
  BY <1>1, <1>2, Sizes DEF Inv, TypeOK, wavState, ringVars, seenVars
<1>4. Phases' /\ Loading'
  BY <1>1 DEF Inv, Phases, Loading, wavState, ringVars, loadVars
<1>5. Counters'
  BY <1>1 DEF Inv, Counters, wavState, ringVars, seenVars
<1>6. EventsAddUp'
  <2>1. LastIs(events', write_counter', file_pos') /\ pc' = "load"
    BY <1>1, <1>2 DEF wavState
  <2> QED
    BY <1>2, <2>1 DEF EventsAddUp
<1> QED
  BY <1>3, <1>4, <1>5, <1>6 DEF Inv

\* Handing out the next places, in an underrun too.
LEMMA MmapWriteStep == ASSUME Inv, MmapWrite PROVE Inv'
<1>1. /\ pc = "load" /\ pc' = "read"
      /\ towrite' = Least(Least(FileLen - file_pos, howmuch), Size - last_io)
      /\ write_counter' = write_counter + towrite'
      /\ last_io' = IF last_io + towrite' >= Size THEN 0 ELSE last_io + towrite'
      /\ play_empty' = FALSE
      /\ Queue(towrite')
      /\ ReadPosition(file_pos + towrite')
      /\ UNCHANGED <<pos, running, playing, fileVars, howmuch, mem>>
  BY DEF MmapWrite
<1>2. /\ gap \in Nat /\ solid \in Nat /\ reserved = 0 /\ gap + solid <= Size
      /\ pos \in Places /\ last_io \in Places
      /\ last_io = Place(pos + (gap + solid))
      /\ howmuch \in 1 .. LoadBlock /\ solid + howmuch <= Size
      /\ write_counter \in Nat /\ write_counter + howmuch <= CounterMax
      /\ play_counter_prev \in Nat /\ play_counter_prev + solid <= write_counter
      /\ file_pos \in 0 .. FileLen /\ file_pos < FileLen
      /\ since \in 0 .. Size
  <2>1. /\ reserved = 0 /\ howmuch \in 1 .. LoadBlock /\ solid + howmuch <= Size
        /\ write_counter + howmuch <= CounterMax
    BY <1>1 DEF Inv, Loading
  <2>2. play_counter_prev + solid <= write_counter
    BY <1>1, <2>1 DEF Inv, TypeOK, Counters
  <2>3. file_pos < FileLen
    BY DEF MmapWrite
  <2>4. last_io = Place(pos + (gap + solid))
    <3>1. pos + gap + solid + reserved = pos + (gap + solid)
      BY <2>1, Sizes DEF Inv, TypeOK, Places
    <3> QED
      BY <1>1, <3>1 DEF Inv, TypeOK
  <2> QED
    BY <2>1, <2>2, <2>3, <2>4, Sizes DEF Inv, TypeOK
<1>3. PICK n : n = towrite'
  OBVIOUS
<1>4. /\ n \in 1 .. howmuch /\ n <= Size - last_io /\ file_pos + n <= FileLen
  BY <1>1, <1>2, <1>3, Sizes DEF Least, Places
<1>5. PICK g \in Nat, s \in Nat, r \in Nat :
         /\ gap' = g /\ solid' = s /\ reserved' = r
         /\ g + s + r <= Size /\ r <= n
         /\ s + r + (howmuch - n) <= Size
         /\ play_counter_prev + s + r <= write_counter + n
         /\ \/ gap + solid + n <= Size /\ g + s + r = gap + solid + n
            \/ gap + solid + n > Size /\ g + s + r = gap + solid + n - Size
  <2>1. CASE gap = 0 \/ gap + solid + n <= Size
    <3>1. gap' = gap /\ solid' = solid /\ reserved' = n
      BY <1>1, <1>3, <2>1 DEF Queue
    <3>  gap \in Nat /\ solid \in Nat /\ n \in Nat
      BY <1>2, <1>4, Sizes
    <3>2. gap + solid + n <= Size
      BY <1>2, <1>4, <2>1, Sizes
    <3> WITNESS gap \in Nat, solid \in Nat, n \in Nat
    <3> QED
      BY <1>2, <1>4, <3>1, <3>2, Sizes
  <2>2. CASE ~(gap = 0 \/ gap + solid + n <= Size)
    <3> DEFINE late == gap + solid + n - Size
    <3>1. gap' = 0 /\ solid' = 0 /\ reserved' = late
      BY <1>1, <1>3, <2>2 DEF Queue
    <3>  0 \in Nat /\ late \in Nat
      BY <1>2, <1>4, <2>2, Sizes
    <3> WITNESS 0 \in Nat, 0 \in Nat, late \in Nat
    <3> QED
      BY <1>2, <1>4, <2>2, <3>1, Sizes
  <2> QED
    BY <2>1, <2>2
<1>6. last_io' \in Places /\ last_io' = Place(pos + g + s + r)
  <2>1. /\ gap + solid \in 0 .. Size /\ n \in Nat \ {0}
        /\ pos + g + s + r = pos + (g + s + r)
    BY <1>2, <1>4, <1>5, Sizes DEF Places
  <2>2. last_io' = IF last_io + n >= Size THEN 0 ELSE last_io + n
    BY <1>1, <1>3
  <2>3. /\ last_io' \in Places
        /\ gap + solid + n <= Size => last_io' = Place(pos + (gap + solid + n))
        /\ gap + solid + n > Size => last_io' = Place(pos + (gap + solid + n - Size))
    BY <1>2, <1>4, <2>1, <2>2, PlaceAfterWrite
  <2> QED
    BY <1>5, <2>1, <2>3
<1>7. PICK w \in Nat : w = write_counter + n /\ write_counter' = w
  BY <1>1, <1>2, <1>3, <1>4, Sizes
<1>8. /\ dma_position' \in Places /\ since' \in 0 .. Size
      /\ play_counter' \in 0 .. w /\ play_counter_prev' \in 0 .. w
      /\ Counters'
  <2>1. /\ play_counter_prev \in Nat /\ play_counter_prev + s + r <= w
        /\ pos \in Places /\ since \in 0 .. Size /\ g + s + r <= Size
    BY <1>2, <1>5, <1>7
  <2>2. /\ gap' = g /\ solid' = s /\ reserved' = r /\ write_counter' = w
        /\ play_empty' = FALSE /\ last_io' = Place(pos + g + s + r)
        /\ ReadPosition(file_pos + towrite')
    BY <1>1, <1>5, <1>6, <1>7
  <2> QED
    BY <2>1, <2>2, AskStep
<1>9. TypeOK'
  <2>1. w \in 0 .. CounterMax
    BY <1>2, <1>4, <1>7, Sizes
  <2>2. play_empty' \in BOOLEAN
    BY <1>1
  <2> QED
    BY <1>1, <1>5, <1>6, <1>7, <1>8, <2>1, <2>2 DEF Inv, TypeOK, fileVars
<1>10. Phases'
  BY <1>1 DEF Inv, Phases
<1>11. Loading'
  <2>1. w + (howmuch - n) <= CounterMax
    BY <1>2, <1>4, <1>7, Sizes
  <2> QED
    BY <1>1, <1>2, <1>3, <1>4, <1>5, <1>7, <2>1 DEF Loading, fileVars
<1>12. EventsAddUp'
  <2>1. LastIs(events, write_counter, file_pos) /\ events \in Seq(Event) /\ ReadOn(events)
    BY <1>1 DEF Inv, EventsAddUp
  <2>2. PICK last \in Event : last = events[Len(events)]
    <3>1. Len(events) \in 1 .. Len(events)
      BY <2>1 DEF LastIs
    <3>2. events[Len(events)] \in Event
      BY <2>1, <3>1
    <3> QED
      BY <3>2
  <2>3. LastIs(events, w, file_pos + n)
    <3>1. /\ last.event_at \in Nat /\ last.wav_position \in Nat
          /\ last.event_at <= write_counter
          /\ (write_counter - last.event_at) + last.wav_position = file_pos
      BY <2>1, <2>2, Sizes DEF LastIs, Event
    <3>2. /\ last.event_at <= w
          /\ (w - last.event_at) + last.wav_position = file_pos + n
      BY <1>2, <1>4, <1>7, <3>1
    <3> QED
      BY <2>1, <2>2, <3>2 DEF LastIs
  <2>4. LastIs(events', write_counter', file_pos' + towrite') /\ events' = events
    BY <1>1, <1>3, <1>7, <2>3 DEF fileVars
  <2> QED
    BY <1>1, <2>1, <2>4 DEF EventsAddUp
<1> QED
  BY <1>8, <1>9, <1>10, <1>11, <1>12 DEF Inv

\* The places handed out are filled, whether the disk can be read or not.
LEMMA FilledStep ==
    ASSUME Inv, pc = "read", Filled,
           mem' \in [Places -> Blocks \cup {Silence, Garbled}],
           events' \in Seq(Event), Len(events') < MaxRebase, ReadOn(events'),
           LastIs(events', write_counter, file_pos + towrite)
    PROVE  Inv'
<1>1. PICK s \in Nat, h \in Nat, f \in Nat :
         /\ s = solid + reserved /\ solid' = s
         /\ h = howmuch - towrite /\ howmuch' = h
         /\ f = file_pos + towrite /\ file_pos' = f /\ wav_position' = f
         /\ f <= FileLen /\ h <= LoadBlock /\ s + h <= Size
         /\ write_counter + h <= CounterMax
  <2>1. /\ solid \in Nat /\ reserved \in Nat /\ file_pos \in Nat /\ write_counter \in Nat
        /\ howmuch \in 1 .. LoadBlock /\ towrite \in 1 .. howmuch
        /\ solid + reserved + (howmuch - towrite) <= Size
        /\ file_pos + towrite <= FileLen
        /\ write_counter + (howmuch - towrite) <= CounterMax
    BY Sizes DEF Inv, TypeOK, Loading
  <2>2. /\ solid' = solid + reserved /\ howmuch' = howmuch - towrite
        /\ file_pos' = file_pos + towrite /\ wav_position' = file_pos + towrite
    BY DEF Filled
  <2>3. solid + reserved \in Nat /\ howmuch - towrite \in Nat /\ file_pos + towrite \in Nat
    BY <2>1, Sizes
  <2> QED
    BY <2>1, <2>2, <2>3, Sizes
<1>2. /\ reserved' = 0 /\ gap' = gap
      /\ pc' = IF h = 0 THEN "clamp" ELSE "load"
      /\ UNCHANGED <<pos, running, last_io, dma_position, wavState, playing, seenVars>>
  BY <1>1 DEF Filled
<1>3. TypeOK'
  <2>1. /\ gap \in Nat /\ gap + s + 0 <= Size
        /\ pos + gap + s + 0 = pos + gap + solid + reserved
    BY <1>1, Sizes DEF Inv, TypeOK, Places
  <2>2. last_io' = Place(pos' + gap' + solid' + reserved')
    BY <1>1, <1>2, <2>1 DEF Inv, TypeOK
  <2>3. file_pos' \in 0 .. FileLen /\ wav_position' \in 0 .. FileLen
    BY <1>1, Sizes
  <2> QED
    BY <1>1, <1>2, <2>1, <2>2, <2>3 DEF Inv, TypeOK, wavState, seenVars
<1>4. Phases'
  BY <1>2 DEF Inv, Phases, wavState
<1>5. Loading'
  <2>1. h # 0 => h \in 1 .. LoadBlock
    BY <1>1, Sizes
  <2> QED
    BY <1>1, <1>2, <2>1 DEF Loading, wavState
<1>6. Counters'
  <2>1. play_counter_prev + s + 0 <= write_counter
    BY <1>1, Sizes DEF Inv, TypeOK, Counters
  <2> QED
    BY <1>1, <1>2, <2>1 DEF Inv, Counters, wavState, seenVars
<1>7. EventsAddUp'
  <2>1. LastIs(events', write_counter', file_pos') /\ pc' # "read"
    BY <1>1, <1>2 DEF wavState
  <2> QED
    BY <2>1 DEF EventsAddUp
<1> QED
  BY <1>3, <1>4, <1>5, <1>6, <1>7 DEF Inv

LEMMA ReadFileStep == ASSUME Inv, ReadFile PROVE Inv'
<1>1. pc = "read" /\ Filled /\ events' = events
  BY DEF ReadFile
<1>2. mem' \in [Places -> Blocks \cup {Silence, Garbled}]
  <2>1. /\ file_pos \in Nat /\ towrite \in Nat /\ file_pos + towrite <= FileLen
    BY <1>1, Sizes DEF Inv, TypeOK, Loading
  <2>2. \A k \in 1 .. towrite : file_pos + towrite - k \in Blocks
    BY <2>1, Sizes DEF Blocks
  <2>3. ASSUME NEW i \in Given
        PROVE  (CHOOSE k \in 1 .. towrite : Place(last_io + Size - k) = i) \in 1 .. towrite
    BY DEF Given
  <2>4. mem \in [Places -> Blocks \cup {Silence, Garbled}]
    BY DEF Inv, TypeOK
  <2> QED
    BY <2>2, <2>3, <2>4 DEF ReadFile
<1>3. /\ events' \in Seq(Event) /\ Len(events') < MaxRebase /\ ReadOn(events')
      /\ LastIs(events', write_counter, file_pos + towrite)
  BY <1>1 DEF Inv, TypeOK, EventsAddUp
<1> QED
  BY <1>1, <1>2, <1>3, FilledStep

LEMMA ReadFailsStep == ASSUME Inv, ReadFails PROVE Inv'
<1>1. /\ pc = "read" /\ Filled
      /\ events' = RebaseAdd(write_counter, file_pos + towrite)
      /\ mem' = [i \in Places |-> IF i \in Given THEN Garbled ELSE mem[i]]
  BY DEF ReadFails
<1>2. mem' \in [Places -> Blocks \cup {Silence, Garbled}]
  BY <1>1 DEF Inv, TypeOK
<1>3. /\ events' \in Seq(Event) /\ Len(events') < MaxRebase /\ ReadOn(events')
      /\ LastIs(events', write_counter, file_pos + towrite)
  <2>1. /\ write_counter \in Nat /\ file_pos + towrite \in 0 .. FileLen
        /\ Len(events) < MaxRebase
    <3>1. /\ file_pos \in Nat /\ towrite \in Nat /\ file_pos + towrite <= FileLen
      BY <1>1, Sizes DEF Inv, TypeOK, Loading
    <3>2. write_counter \in Nat /\ Len(events) < MaxRebase
      BY Sizes DEF Inv, TypeOK
    <3> QED
      BY <3>1, <3>2, Sizes
  <2>2. /\ events \in Seq(Event) /\ ReadOn(events)
        /\ LastIs(events, write_counter, file_pos + towrite)
    BY <1>1 DEF Inv, EventsAddUp
  <2> QED
    BY <1>1, <2>1, <2>2, EventAdded
<1> QED
  BY <1>1, <1>2, <1>3, FilledStep

\* The write pointer is moved only if the counter is behind.
LEMMA ClampStep == ASSUME Inv, Clamp PROVE Inv'
<1>1. /\ pc = "clamp" /\ ~play_empty /\ reserved = 0
      /\ UNCHANGED <<write_counter, play_empty, dma_position, mem, reserved, pos, running,
                     playing, fileVars, seenVars>>
      /\ UpdatePlayDelay
      /\ pc' = IF playing THEN "idle" ELSE "start"
  BY DEF Clamp, EndTurn, Inv, Phases, Loading
<1>2. /\ pos \in Places /\ dma_position \in Places
      /\ write_counter \in 0 .. CounterMax
      /\ play_counter_prev \in 0 .. write_counter
      /\ play_counter \in 0 .. write_counter
      /\ play_counter_prev + solid <= write_counter /\ solid \in Nat
  BY <1>1, Sizes DEF Inv, TypeOK, Counters
<1>3. PICK c : c = play_counter'
  OBVIOUS
<1>4. /\ c = PlayCounter(write_counter, PlayDelay(last_io', dma_position, play_empty))
      /\ play_counter_prev' = Most(play_counter_prev, c)
  BY <1>1, <1>3 DEF UpdatePlayDelay, Highest
<1>5. CASE Behind(PlayCounter(write_counter, PlayDelay(last_io, dma_position, play_empty)))
  <2>1. /\ last_io' = Clamped
        /\ gap' = Place(last_io' + Size - pos) /\ solid' = 0
    BY <1>5 DEF Clamp
  <2>2. last_io' \in Places
    BY <2>1, <1>2, Sizes DEF Clamped, Place, Places
  <2>3. PICK g \in Places : gap' = g /\ last_io' = Place(pos + g)
    BY <1>2, <2>1, <2>2, PlaceAfterClamp
  <2>4. seen' = Unknown
    BY <1>1, <1>2, <1>5, Sizes DEF Behind, Inv, Counters, seenVars
  <2>5. c \in 0 .. write_counter /\ Most(play_counter_prev, c) \in 0 .. write_counter
    <3>1. PICK d : d = PlayDelay(last_io', dma_position, play_empty)
      OBVIOUS
    <3>2. d \in 0 .. Size
      <4>1. PICK io \in Places : io = last_io'
        BY <2>2
      <4>2. d = IF io < dma_position THEN io - dma_position + Size
                ELSE IF io = dma_position THEN Size
                ELSE io - dma_position
        BY <1>1, <3>1, <4>1 DEF PlayDelay
      <4> QED
        BY <1>2, <4>2, Sizes DEF Places
    <3> QED
      BY <1>2, <1>4, <3>1, <3>2, Sizes DEF PlayCounter, Most
  <2>6. TypeOK'
    <3>1. g \in Nat /\ g + 0 + 0 <= Size /\ pos + g + 0 + 0 = pos + g
      BY <1>2, Sizes DEF Places
    <3> QED
      BY <1>1, <1>3, <1>4, <2>1, <2>2, <2>3, <2>5, <3>1 DEF Inv, TypeOK, fileVars, seenVars
  <2>7. Counters'
    <3>1. PICK m \in 0 .. write_counter : m = play_counter_prev'
      BY <1>4, <2>5
    <3>2. m + 0 + 0 <= write_counter /\ c <= m
      BY <1>2, <1>4, <2>5, <3>1, Sizes DEF Most
    <3> QED
      BY <1>1, <1>3, <1>4, <2>1, <2>4, <3>1, <3>2 DEF Counters
  <2> QED
    BY <2>1, <2>6, <2>7, <1>1 DEF Inv, Phases, Loading, EventsAddUp, fileVars
<1>6. CASE ~Behind(PlayCounter(write_counter, PlayDelay(last_io, dma_position, play_empty)))
  <2>1. UNCHANGED <<last_io, gap, solid>>
    BY <1>6 DEF Clamp
  <2>2. c = play_counter /\ play_counter_prev' = c /\ c >= play_counter_prev
    <3>1. c = play_counter
      BY <1>4, <2>1 DEF Inv, Counters
    <3>2. c >= play_counter_prev
      BY <1>2, <1>4, <1>6, <2>1, <3>1, Sizes DEF Behind
    <3> QED
      BY <1>2, <1>4, <3>1, <3>2, Sizes DEF Most
  <2>3. TypeOK'
    BY <1>1, <1>2, <1>3, <2>1, <2>2 DEF Inv, TypeOK, fileVars, seenVars
  <2>4. Counters'
    <3>1. c + solid + 0 <= write_counter /\ c <= c
      BY <1>2, <2>2, Sizes DEF Inv, Counters
    <3> QED
      BY <1>1, <1>3, <1>4, <2>1, <2>2, <3>1 DEF Counters
  <2> QED
    BY <2>1, <2>3, <2>4, <1>1 DEF Inv, Phases, Loading, EventsAddUp, fileVars
<1> QED
  BY <1>5, <1>6

-----------------------------------------------------------------------------
(* The user.                                                               *)

LEMMA BeginStep == ASSUME Inv, Begin PROVE Inv'
<1>1. /\ pc = "off" /\ pc' = "preroll" /\ ~running /\ running' = running
      /\ pos' = 0 /\ last_io' = 0 /\ dma_position' = 0
      /\ write_counter' = 0 /\ play_counter' = 0 /\ play_counter_prev' = 0
      /\ play_empty' = TRUE /\ gap' = 0 /\ solid' = 0 /\ reserved' = 0
      /\ since' = 0 /\ seen' = Unknown
      /\ file_pos' = wav_position /\ UNCHANGED <<playing, wav_position>>
      /\ mem' = [i \in Places |-> Silence]
      /\ events' = <<[event_at |-> 0, wav_position |-> wav_position]>>
  BY DEF Begin, Card!Arm, RingForgotten
<1>2. [event_at |-> 0, wav_position |-> wav_position] \in Event
  BY DEF Inv, TypeOK, Event
<1>3. /\ events' \in Seq(Event) /\ Len(events') = 1
      /\ LastIs(events', 0, wav_position)
      /\ ReadOn(events')
  BY <1>1, <1>2, Sizes DEF LastIs, ReadOn, Inv, TypeOK
<1>4. TypeOK'
  <2>1. /\ 0 \in Places /\ 0 \in 0 .. CounterMax /\ 0 \in 0 .. Size /\ 0 \in 0 .. 0
        /\ 0 \in Nat /\ 0 + 0 + 0 <= Size /\ Place(0 + 0 + 0 + 0) = 0
    BY Sizes DEF Places, Place
  <2>2. mem' \in [Places -> Blocks \cup {Silence, Garbled}]
    BY <1>1
  <2>3. Len(events') < MaxRebase
    BY <1>3, Sizes
  <2>4. play_empty' \in BOOLEAN
    BY <1>1
  <2> QED
    BY <1>1, <2>1, <2>2, <2>3, <2>4 DEF Inv, TypeOK
<1>5. Phases'
  BY <1>1 DEF Inv, Phases
<1>6. Loading'
  BY <1>1 DEF Loading
<1>7. Counters'
  <2>1. PlayDelay(0, 0, TRUE) = 0 /\ PlayCounter(0, 0) = 0 /\ 0 + 0 + 0 <= 0 /\ 0 <= 0
    BY DEF PlayDelay, PlayCounter, Most
  <2>2. play_counter' = PlayCounter(write_counter', PlayDelay(last_io', dma_position', play_empty'))
    BY <1>1, <2>1
  <2> QED
    BY <1>1, <2>1, <2>2 DEF Counters
<1>8. EventsAddUp'
  BY <1>1, <1>3 DEF EventsAddUp
<1> QED
  BY <1>4, <1>5, <1>6, <1>7, <1>8 DEF Inv

LEMMA StartStep == ASSUME Inv, Start PROVE Inv'
<1>1. /\ pc = "start" /\ pc' = "idle" /\ ~play_empty /\ running' = TRUE /\ playing' = TRUE
      /\ UNCHANGED <<pos, last_io, dma_position, wavState, fileVars, ringVars, seenVars>>
  BY DEF Start, Card!Start, Inv, Phases
<1>2. TypeOK'
  BY <1>1 DEF Inv, TypeOK, wavState, fileVars, ringVars, seenVars
<1>3. Phases' /\ Loading'
  BY <1>1 DEF Inv, Phases, Loading, wavState, ringVars
<1>4. Counters'
  BY <1>1 DEF Inv, Counters, wavState, ringVars, seenVars
<1>5. EventsAddUp'
  BY <1>1 DEF Inv, EventsAddUp, wavState, fileVars
<1> QED
  BY <1>2, <1>3, <1>4, <1>5 DEF Inv

\* Play will go on from a place in the file.
LEMMA HaltStep == ASSUME Inv, Halt PROVE Inv'
<1>1. /\ pc = "stopping" /\ pc' = "off" /\ ~play_empty
      /\ pos' = pos /\ running' = FALSE /\ playing' = FALSE
      /\ UNCHANGED <<last_io, dma_position, wavState, file_pos, events, seen>>
      /\ mem' = [i \in Places |-> Silence]
      /\ gap' = 0 /\ solid' = 0 /\ reserved' = 0 /\ since' = 0
      /\ wav_position' = Shown(play_counter, FALSE, wav_position)
  BY DEF Halt, Card!Stop, RingForgotten, ShowPosition, ResumeAt, wavState, Inv, Phases
<1>2. wav_position' \in 0 .. FileLen
  <2>1. /\ play_counter \in Nat /\ write_counter \in Nat /\ play_counter <= write_counter
        /\ file_pos \in 0 .. FileLen /\ wav_position \in 0 .. FileLen
    BY Sizes DEF Inv, TypeOK
  <2>2. /\ events \in Seq(Event) /\ ReadOn(events)
        /\ LastIs(events, write_counter, file_pos)
    BY <1>1 DEF Inv, EventsAddUp
  <2> QED
    BY <1>1, <2>1, <2>2, ShownInFile
<1>3. TypeOK'
  <2>1. 0 + 0 + 0 <= Size /\ 0 \in Nat /\ 0 \in 0 .. Size
    BY Sizes
  <2>2. mem' \in [Places -> Blocks \cup {Silence, Garbled}]
    BY <1>1
  <2> QED
    BY <1>1, <1>2, <2>1, <2>2 DEF Inv, TypeOK, wavState
<1>4. Phases' /\ Loading'
  BY <1>1 DEF Inv, Phases, Loading, wavState
<1>5. Counters'
  BY <1>1 DEF Inv, Counters, wavState
<1>6. EventsAddUp'
  BY <1>1 DEF Inv, EventsAddUp, wavState
<1> QED
  BY <1>2, <1>3, <1>4, <1>5, <1>6 DEF Inv

LEMMA MovePosStep == ASSUME Inv, MovePos PROVE Inv'
<1>1. /\ pc = "off" /\ events' = <<>> /\ wav_position' \in 0 .. FileLen
      /\ seen' = Unknown /\ since' = since
      /\ UNCHANGED <<pos, running, last_io, dma_position, wavState, playing, file_pos,
                     pc, loadVars, ringVars>>
  BY DEF MovePos
<1>2. TypeOK'
  <2>1. Len(events') < MaxRebase
    BY <1>1, Sizes
  <2> QED
    BY <1>1, <2>1 DEF Inv, TypeOK, wavState, ringVars
<1>3. Phases' /\ Loading'
  BY <1>1 DEF Inv, Phases, Loading, wavState, loadVars, ringVars
<1>4. Counters'
  BY <1>1 DEF Inv, Counters, wavState, ringVars
<1>5. EventsAddUp'
  BY <1>1 DEF Inv, EventsAddUp, ReadOn
<1> QED
  BY <1>2, <1>3, <1>4, <1>5 DEF Inv

\* What changes nothing that the invariant is about.
LEMMA OtherSteps == ASSUME Inv, ToggleStuck \/ UNCHANGED vars PROVE Inv'
<1>1. UNCHANGED <<pos, running, last_io, dma_position, wavState, playing, fileVars,
                  pc, loadVars, ringVars, seenVars>>
  BY DEF ToggleStuck, vars
<1>2. TypeOK'
  BY <1>1 DEF Inv, TypeOK, wavState, fileVars, ringVars, seenVars
<1>3. Phases' /\ Loading'
  BY <1>1 DEF Inv, Phases, Loading, wavState, fileVars, loadVars, ringVars
<1>4. Counters'
  BY <1>1 DEF Inv, Counters, wavState, ringVars, seenVars
<1>5. EventsAddUp'
  BY <1>1 DEF Inv, EventsAddUp, wavState, fileVars, loadVars
<1> QED
  BY <1>2, <1>3, <1>4, <1>5 DEF Inv

-----------------------------------------------------------------------------
LEMMA InvNext == Inv /\ [Next]_vars => Inv'
<1> SUFFICES ASSUME Inv, [Next]_vars PROVE Inv'
  OBVIOUS
<1>1. CASE Turn
  BY <1>1, PollStep, StuckStep, CanWriteStep, RewindStep, MmapWriteStep, ReadFileStep,
     ClampStep DEF Turn
<1>2. CASE ReadFails
  BY <1>2, ReadFailsStep
<1>3. CASE User
  BY <1>3, BeginStep, StartStep, StopPlayStep, HaltStep, MovePosStep, OtherSteps DEF User
<1>4. CASE Advance
  BY <1>4, AdvanceStep
<1>5. CASE UNCHANGED vars
  BY <1>5, OtherSteps
<1> QED
  BY <1>1, <1>2, <1>3, <1>4, <1>5 DEF Next

LEMMA InvAlways == Spec => []Inv
BY InvInit, InvNext, PTL DEF Spec

\* The account of the ring adds up: the write pointer is where what is queued
\* ends, never more than a ring ahead of the DMA, also after an underrun; and
\* the position that play starts from is a place in the file.
THEOREM TypeCorrect == Spec => []TypeOK
<1>1. Inv => TypeOK
  BY DEF Inv
<1> QED
  BY <1>1, InvAlways, PTL

\* The write pointer is forced forward in an underrun only: nothing that is
\* queued behind the block being heard is dropped.
THEOREM ClampedInUnderrunOnly == Spec => NoSpuriousClamp
<1>1. Inv => (Clamp /\ last_io' # last_io => seen = Unknown)
  <2> SUFFICES ASSUME Inv, Clamp, last_io' # last_io PROVE seen = Unknown
    OBVIOUS
  <2>1. Behind(PlayCounter(write_counter, PlayDelay(last_io, dma_position, play_empty)))
    BY DEF Clamp
  <2>2. play_counter < play_counter_prev
    BY <2>1 DEF Behind, Inv, Counters
  <2> QED
    BY <2>2, Sizes DEF Inv, TypeOK, Counters
<1> QED
  BY <1>1, InvAlways, PTL DEF NoSpuriousClamp

-----------------------------------------------------------------------------
(* The file, which starts over at its end.                                 *)

\* The k-th block before a position in the file.
BlockBefore(end, k) == (end + Size * FileLen - k) % FileLen

\* What division leaves.
LEMMA Remainder ==
    ASSUME NEW n \in Nat \ {0}, NEW q \in Int, NEW r \in 0 .. n - 1
    PROVE  (q * n + r) % n = r
  OBVIOUS

LEMMA RemainderOfNext ==
    ASSUME NEW n \in Nat \ {0}, NEW a \in Int
    PROVE  (a + n) % n = a % n
<1>1. PICK q \in Int, r \in 0 .. n - 1 : a = q * n + r
  <2>1. a \div n \in Int /\ a % n \in 0 .. n - 1
    OBVIOUS
  <2>2. a = (a \div n) * n + (a % n)
    OBVIOUS
  <2> QED
    BY <2>1, <2>2
<1>2. a % n = r
  BY <1>1, Remainder
<1>3. a + n = (q + 1) * n + r /\ q + 1 \in Int
  BY <1>1
<1>4. (a + n) % n = r
  BY <1>3, Remainder
<1> QED
  BY <1>2, <1>4

\* Counting back from a place that is further on, from the file's end as from
\* its start, and within the part that was read last.
LEMMA BlockBeforeLater ==
    ASSUME NEW end \in Int, NEW n \in Int, NEW k \in Int
    PROVE  BlockBefore(end + n, k + n) = BlockBefore(end, k)
<1>1. PICK m \in Int : m = Size * FileLen
  BY Sizes
<1>2. end + n + m - (k + n) = end + m - k
  BY <1>1
<1> QED
  BY <1>1, <1>2, Zenon DEF BlockBefore

LEMMA BlockBeforeStart ==
    ASSUME NEW k \in Int
    PROVE  BlockBefore(FileLen, k) = BlockBefore(0, k)
<1>1. PICK m \in Int : m = Size * FileLen
  BY Sizes
<1>2. FileLen + m - k = (0 + m - k) + FileLen /\ 0 + m - k \in Int
  BY <1>1, Sizes
<1>3. (0 + m - k + FileLen) % FileLen = (0 + m - k) % FileLen
  BY <1>2, Sizes, RemainderOfNext
<1> QED
  BY <1>1, <1>2, <1>3, Zenon DEF BlockBefore

LEMMA BlockBeforeRead ==
    ASSUME NEW end \in 0 .. FileLen, NEW k \in 1 .. end
    PROVE  BlockBefore(end, k) = end - k
<1>1. PICK m \in Int : m = Size * FileLen
  BY Sizes
<1>2. end + m - k = m + (end - k) /\ end - k \in 0 .. FileLen - 1
  BY <1>1, Sizes
<1>3. (Size * FileLen + (end - k)) % FileLen = end - k
  BY <1>2, Sizes, Remainder
<1> QED
  BY <1>1, <1>2, <1>3, Zenon DEF BlockBefore

-----------------------------------------------------------------------------
(* The order of what is queued.                                            *)

\* Until the places that were handed out are filled, the DMA only gets to them
\* when everything before them has been played.
KeepsPlace == pc = "read" /\ solid > 0 => reserved = towrite

InOrder == QueueInOrder /\ KeepsPlace

\* Places are told apart within a ring.
LEMMA PlacesDiffer ==
    ASSUME NEW p \in Places, NEW n \in 1 .. Size - 1
    PROVE  Place(p + n) \in Places /\ Place(p + n) # p
  BY Sizes DEF Place, Places

LEMMA PlacesBack ==
    ASSUME NEW io \in Places, NEW j \in 1 .. Size, NEW k \in 1 .. Size,
           Place(io + Size - j) = Place(io + Size - k)
    PROVE  j = k
  BY Sizes DEF Place, Places

\* Counting back from the write pointer and on from the DMA.
LEMMA PlaceFromDma ==
    ASSUME NEW p \in Places, NEW t \in 0 .. Size, NEW k \in 1 .. t
    PROVE  /\ Place(Place(p + t) + Size - k) = Place(p + t - k)
           /\ Place(p + t - k) \in Places
  BY Sizes DEF Place, Places

LEMMA OrderAfterAdvance == ASSUME Inv, InOrder, Advance PROVE InOrder'
<1>1. /\ pos \in Places /\ gap \in Nat /\ solid \in Nat /\ gap + solid <= Size
      /\ pos' = Card!Succ(pos)
      /\ mem' = [mem EXCEPT ![pos] = Silence]
      /\ mem \in [Places -> Blocks \cup {Silence, Garbled}]
      /\ UNCHANGED <<pc, file_pos, towrite>>
  <2>1. /\ pos \in Places /\ gap \in Nat /\ solid \in Nat /\ reserved \in Nat
        /\ gap + solid + reserved <= Size
        /\ mem \in [Places -> Blocks \cup {Silence, Garbled}]
    BY DEF Inv, TypeOK
  <2>2. gap + solid <= Size
    BY <2>1, Sizes
  <2>3. /\ pos' = Card!Succ(pos) /\ mem' = [mem EXCEPT ![pos] = Silence]
        /\ UNCHANGED <<pc, file_pos, towrite>>
    BY DEF Advance, Card!Advance, fileVars, loadVars
  <2> QED
    BY <2>1, <2>2, <2>3
<1>2. CASE solid' = 0
  BY <1>2 DEF InOrder, QueueInOrder, KeepsPlace
<1>3. CASE solid' # 0
  <2>1. PICK g \in Nat, s \in Nat :
           /\ gap' = g /\ solid' = s /\ reserved' = reserved
           /\ s <= solid /\ solid > 0 /\ s # 0
           /\ g + s = gap + solid - 1
    <3>1. CASE gap > 0
      <4>1. gap' = gap - 1 /\ solid' = solid /\ reserved' = reserved
        BY <3>1 DEF Advance
      <4>2. gap - 1 + solid = gap + solid - 1
        BY <1>1, <3>1
      <4> gap - 1 \in Nat /\ solid \in Nat
        BY <1>1, <3>1
      <4> WITNESS gap - 1 \in Nat, solid \in Nat
      <4> QED
        BY <1>1, <1>3, <4>1, <4>2
    <3>2. CASE gap = 0 /\ solid > 0
      <4>1. gap' = gap /\ solid' = solid - 1 /\ reserved' = reserved
        BY <3>2 DEF Advance
      <4>2. gap + (solid - 1) = gap + solid - 1
        BY <1>1, <3>2
      <4> gap \in Nat /\ solid - 1 \in Nat
        BY <1>1, <3>2
      <4> WITNESS gap \in Nat, solid - 1 \in Nat
      <4> QED
        BY <1>1, <1>3, <3>2, <4>1, <4>2
    <3>3. CASE gap = 0 /\ solid = 0
      <4>1. solid' = solid
        BY <3>3 DEF Advance
      <4> QED
        BY <1>3, <3>3, <4>1
    <3> QED
      BY <1>1, <3>1, <3>2, <3>3
  <2>2. ASSUME NEW k \in 1 .. s
        PROVE  mem'[Place(pos' + g + s - k)] \in {Garbled, BlockBefore(file_pos, k)}
    <3>1. k \in 1 .. solid /\ gap + solid - k \in 1 .. Size - 1
      BY <1>1, <2>1, Sizes
    <3>2. PICK n \in 1 .. Size - 1 : n = gap + solid - k
      BY <3>1
    <3>3. Place(pos' + (n - 1)) = Place(pos + n)
      <4>1. n \in 1 .. Size
        BY <3>2, Sizes
      <4> QED
        BY <1>1, <4>1, PlaceAfterAdvance
    <3>4. pos' + g + s - k = pos' + (n - 1) /\ pos + gap + solid - k = pos + n
      <4>1. pos' \in Nat /\ pos \in Nat
        BY <1>1, Sizes DEF Card!Succ, Places
      <4> QED
        BY <1>1, <2>1, <3>2, <4>1
    <3>5. Place(pos + n) \in Places /\ Place(pos + n) # pos
      BY <1>1, PlacesDiffer
    <3>6. mem[Place(pos + gap + solid - k)] \in {Garbled, BlockBefore(file_pos, k)}
      BY <3>1 DEF InOrder, QueueInOrder, BlockBefore
    <3>7. mem'[Place(pos + n)] = mem[Place(pos + n)]
      BY <1>1, <3>5, Zenon
    <3> QED
      BY <3>3, <3>4, <3>6, <3>7, Zenon
  <2>3. QueueInOrder'
    <3> SUFFICES ASSUME NEW k \in 1 .. s
                 PROVE mem'[Place(pos' + g + s - k)]
                         \in {Garbled, (file_pos + Size * FileLen - k) % FileLen}
      BY <1>1, <2>1 DEF QueueInOrder
    <3> QED
      BY <2>2 DEF BlockBefore
  <2>4. KeepsPlace'
    BY <1>1, <2>1 DEF InOrder, KeepsPlace
  <2> QED
    BY <2>3, <2>4 DEF InOrder
<1> QED
  BY <1>2, <1>3

LEMMA OrderAfterRewind == ASSUME Inv, InOrder, Rewind PROVE InOrder'
<1>1. /\ pc = "load" /\ pc' = "load" /\ file_pos = FileLen /\ file_pos' = 0
      /\ UNCHANGED <<pos, mem, gap, solid>> /\ solid \in Nat
  BY DEF Rewind, StartOver, ringVars, Inv, TypeOK
<1>2. ASSUME NEW k \in 1 .. solid
      PROVE  mem[Place(pos + gap + solid - k)] \in {Garbled, BlockBefore(0, k)}
  <2>1. mem[Place(pos + gap + solid - k)] \in {Garbled, BlockBefore(FileLen, k)}
    BY <1>1 DEF InOrder, QueueInOrder, BlockBefore
  <2>2. k \in Int
    BY <1>1
  <2> QED
    BY <2>1, <2>2, BlockBeforeStart
<1>3. QueueInOrder'
  BY <1>1, <1>2 DEF QueueInOrder, BlockBefore
<1> QED
  BY <1>1, <1>3 DEF InOrder, KeepsPlace

LEMMA OrderAfterWrite == ASSUME Inv, InOrder, MmapWrite PROVE InOrder'
<1>1. UNCHANGED <<pos, mem, file_pos>> /\ Queue(towrite')
  BY DEF MmapWrite, fileVars
<1>2. CASE gap = 0 \/ gap + solid + towrite' <= Size
  <2>1. UNCHANGED <<gap, solid>> /\ reserved' = towrite'
    BY <1>1, <1>2 DEF Queue
  <2> QED
    BY <1>1, <2>1 DEF InOrder, QueueInOrder, KeepsPlace
<1>3. CASE ~(gap = 0 \/ gap + solid + towrite' <= Size)
  <2>1. solid' = 0
    BY <1>1, <1>3 DEF Queue
  <2> QED
    BY <2>1 DEF InOrder, QueueInOrder, KeepsPlace
<1> QED
  BY <1>2, <1>3

\* The places of one read are filled with what was read, the others are kept.
LEMMA OrderAfterFilled ==
    ASSUME Inv, InOrder, pc = "read", Filled,
           \A k \in 1 .. towrite :
              mem'[Place(last_io + Size - k)] \in {Garbled, file_pos + towrite - k},
           \A i \in Places \ Given : mem'[i] = mem[i]
    PROVE  InOrder'
<1>1. /\ pos \in Places /\ gap \in Nat /\ solid \in Nat /\ reserved \in Nat
      /\ gap + solid + reserved <= Size /\ reserved <= towrite /\ towrite \in Nat
      /\ file_pos \in Nat /\ file_pos + towrite <= FileLen
      /\ last_io \in Places /\ towrite <= Size
      /\ solid > 0 => reserved = towrite
  <2>1. howmuch \in 1 .. LoadBlock /\ towrite \in 1 .. howmuch
    BY DEF Inv, Loading
  <2>2. towrite \in Nat /\ towrite <= Size
    BY <2>1, Sizes
  <2> QED
    BY <2>2, Sizes DEF Inv, TypeOK, Loading, InOrder, KeepsPlace
<1>2. last_io = Place(pos + (gap + solid + reserved))
  <2>1. pos + gap + solid + reserved = pos + (gap + solid + reserved)
    BY <1>1, Sizes DEF Places
  <2> QED
    BY <2>1 DEF Inv, TypeOK
<1>3. /\ solid' = solid + reserved /\ gap' = gap /\ pos' = pos
      /\ file_pos' = file_pos + towrite /\ pc' # "read"
  BY DEF Filled
<1>4. PICK t \in 0 .. Size : t = gap + solid + reserved
  BY <1>1, Sizes
<1>5. ASSUME NEW k \in 1 .. solid + reserved
      PROVE  mem'[Place(pos + gap + (solid + reserved) - k)]
                \in {Garbled, BlockBefore(file_pos + towrite, k)}
  <2>1. k \in 1 .. t /\ k \in 1 .. Size
        /\ pos + gap + (solid + reserved) - k = pos + t - k
    BY <1>1, <1>4, Sizes DEF Places
  <2>2. PICK i \in Places : /\ i = Place(pos + t - k)
                            /\ i = Place(last_io + Size - k)
    BY <1>1, <1>2, <1>4, <2>1, PlaceFromDma
  <2>3. CASE k <= towrite
    <3>1. mem'[i] \in {Garbled, file_pos + towrite - k}
      BY <1>1, <2>1, <2>2, <2>3
    <3> DEFINE end == file_pos + towrite
    <3>2. end \in 0 .. FileLen /\ k \in 1 .. end
      BY <1>1, <2>1, <2>3, Sizes
    <3>3. mem'[i] \in {Garbled, end - k}
      <4>1. file_pos + towrite - k = end - k
        BY <1>1, <2>1
      <4> QED
        BY <3>1, <4>1, Zenon
    <3> HIDE DEF end
    <3>4. BlockBefore(end, k) = end - k
      BY <3>2, BlockBeforeRead
    <3>5. mem'[i] \in {Garbled, BlockBefore(end, k)}
      BY <3>3, <3>4
    <3> QED
      BY <2>1, <2>2, <3>5 DEF end
  <2>4. CASE k > towrite
    <3>1. reserved = towrite /\ k - towrite \in 1 .. solid
      BY <1>1, <2>1, <2>4
    <3>2. i \notin Given
      <4> SUFFICES ASSUME NEW j \in 1 .. towrite, i = Place(last_io + Size - j)
                   PROVE FALSE
        BY DEF Given
      <4>1. j \in 1 .. Size /\ j # k
        BY <1>1, <2>1, <2>4, Sizes
      <4> QED
        BY <1>1, <2>1, <2>2, <4>1, PlacesBack
    <3>3. mem'[i] = mem[i]
      BY <2>2, <3>2
    <3>4. mem[Place(pos + gap + solid - (k - towrite))]
             \in {Garbled, BlockBefore(file_pos, k - towrite)}
      BY <3>1 DEF InOrder, QueueInOrder, BlockBefore
    <3>5. pos + gap + solid - (k - towrite) = pos + t - k
      BY <1>1, <1>4, <2>1, <3>1, Sizes DEF Places
    <3>6. BlockBefore(file_pos + towrite, k) = BlockBefore(file_pos, k - towrite)
      <4>1. PICK j \in Int : j = k - towrite /\ k = j + towrite
        BY <1>1, <2>1
      <4>2. file_pos \in Int /\ towrite \in Int
        BY <1>1
      <4>3. BlockBefore(file_pos + towrite, j + towrite) = BlockBefore(file_pos, j)
        BY <4>2, BlockBeforeLater
      <4> QED
        BY <4>1, <4>3
    <3> QED
      BY <2>1, <2>2, <3>3, <3>4, <3>5, <3>6
  <2> QED
    BY <1>1, <2>1, <2>3, <2>4
<1>6. QueueInOrder'
  BY <1>3, <1>5 DEF QueueInOrder, BlockBefore
<1> QED
  BY <1>3, <1>6 DEF InOrder, KeepsPlace

LEMMA OrderAfterReadFile == ASSUME Inv, InOrder, ReadFile PROVE InOrder'
<1>1. /\ pc = "read" /\ Filled /\ last_io \in Places /\ towrite \in Nat
      /\ towrite <= Size
  <2>1. pc = "read" /\ Filled
    BY DEF ReadFile
  <2>2. howmuch \in 1 .. LoadBlock /\ towrite \in 1 .. howmuch /\ last_io \in Places
    BY <2>1 DEF Inv, Loading, TypeOK
  <2> QED
    BY <2>1, <2>2, Sizes
<1>2. mem' = [i \in Places |->
                 IF i \in Given
                 THEN file_pos + towrite - (CHOOSE k \in 1 .. towrite : Place(last_io + Size - k) = i)
                 ELSE mem[i]]
  BY DEF ReadFile
<1>3. ASSUME NEW k \in 1 .. towrite
      PROVE  mem'[Place(last_io + Size - k)] = file_pos + towrite - k
  <2>1. k \in 1 .. Size /\ 1 .. towrite \subseteq 1 .. Size
    BY <1>1, Sizes
  <2>2. PICK i \in Places : i = Place(last_io + Size - k)
    <3>1. Place(last_io + Size - k) \in Places
      BY <1>1, <2>1, Sizes DEF Place, Places
    <3> QED
      BY <3>1
  <2>3. i \in Given
    BY <2>2 DEF Given
  <2>4. PICK j : j = CHOOSE k0 \in 1 .. towrite : Place(last_io + Size - k0) = i
    OBVIOUS
  <2>5. j \in 1 .. towrite /\ Place(last_io + Size - j) = i
    BY <2>2, <2>4
  <2>6. j = k
    BY <1>1, <2>1, <2>2, <2>5, PlacesBack
  <2>7. mem'[i] = file_pos + towrite - j
    BY <1>2, <2>3, <2>4
  <2> QED
    BY <2>2, <2>6, <2>7
<1>4. \A i \in Places \ Given : mem'[i] = mem[i]
  BY <1>2
<1> QED
  BY <1>1, <1>3, <1>4, OrderAfterFilled

LEMMA OrderAfterReadFails == ASSUME Inv, InOrder, ReadFails PROVE InOrder'
<1>1. /\ pc = "read" /\ Filled /\ last_io \in Places /\ towrite \in Nat
      /\ towrite <= Size
      /\ mem' = [i \in Places |-> IF i \in Given THEN Garbled ELSE mem[i]]
  <2>1. /\ pc = "read" /\ Filled
        /\ mem' = [i \in Places |-> IF i \in Given THEN Garbled ELSE mem[i]]
    BY DEF ReadFails
  <2>2. howmuch \in 1 .. LoadBlock /\ towrite \in 1 .. howmuch /\ last_io \in Places
    BY <2>1 DEF Inv, Loading, TypeOK
  <2> QED
    BY <2>1, <2>2, Sizes
<1>2. ASSUME NEW k \in 1 .. towrite
      PROVE  mem'[Place(last_io + Size - k)] = Garbled
  <2>1. k \in 1 .. Size
    BY <1>1, Sizes
  <2>2. Place(last_io + Size - k) \in Places
    BY <1>1, <2>1, Sizes DEF Place, Places
  <2>3. Place(last_io + Size - k) \in Given
    BY DEF Given
  <2> QED
    BY <1>1, <2>2, <2>3
<1>3. \A i \in Places \ Given : mem'[i] = mem[i]
  BY <1>1
<1> QED
  BY <1>1, <1>2, <1>3, OrderAfterFilled

\* The other steps leave what is queued alone, or drop all of it.
LEMMA OrderAfterOthers ==
    ASSUME Inv, InOrder,
           Poll \/ Stuck \/ CanWrite \/ Clamp \/ User \/ UNCHANGED vars
    PROVE  InOrder'
<1>1. CASE /\ UNCHANGED <<pos, mem, gap, solid, file_pos>>
           /\ pc' = "read" => UNCHANGED <<pc, reserved, towrite>>
  BY <1>1 DEF InOrder, QueueInOrder, KeepsPlace
<1>2. CASE solid' = 0
  BY <1>2 DEF InOrder, QueueInOrder, KeepsPlace
<1>3. CASE Poll \/ StopPlay
  BY <1>1, <1>3 DEF Poll, StopPlay, fileVars
<1>4. CASE Stuck
  BY <1>1, <1>4 DEF Stuck, EndTurn, fileVars, ringVars
<1>5. CASE CanWrite
  BY <1>1, <1>5 DEF CanWrite, EndTurn, fileVars
<1>6. CASE Clamp
  BY <1>1, <1>2, <1>6 DEF Clamp, EndTurn, fileVars
<1>7. CASE Begin \/ Halt
  BY <1>2, <1>7 DEF Begin, Halt, RingForgotten
<1>8. CASE Start
  BY <1>1, <1>8 DEF Start, Card!Start, fileVars, ringVars
<1>9. CASE MovePos \/ ToggleStuck \/ UNCHANGED vars
  <2>1. CASE MovePos
    BY <1>1, <2>1 DEF MovePos, ringVars
  <2>2. CASE ToggleStuck \/ UNCHANGED vars
    BY <1>1, <2>2 DEF ToggleStuck, vars, fileVars, ringVars, loadVars
  <2> QED
    BY <1>9, <2>1, <2>2
<1> QED
  BY <1>3, <1>4, <1>5, <1>6, <1>7, <1>8, <1>9 DEF User

\* What is queued is the file, block after block and over its end, for rings,
\* loads and files of every length, underruns and failing reads included.
THEOREM QueueFollowsTheFile == Spec => []QueueInOrder
<1>1. Init => InOrder
  BY DEF Init, InOrder, QueueInOrder, KeepsPlace
<1>2. Inv /\ InOrder /\ [Next]_vars => InOrder'
  <2> SUFFICES ASSUME Inv, InOrder, [Next]_vars PROVE InOrder'
    OBVIOUS
  <2> QED
    BY OrderAfterAdvance, OrderAfterRewind, OrderAfterWrite, OrderAfterReadFile,
       OrderAfterReadFails, OrderAfterOthers DEF Next, Turn
<1>3. InOrder => QueueInOrder
  BY DEF InOrder
<1> QED
  BY <1>1, <1>2, <1>3, InvAlways, PTL DEF Spec

-----------------------------------------------------------------------------
(* The block that is heard.                                                *)

\* Where the file will be read next, when what is being read has been.
ReadTo == IF pc = "read" THEN file_pos + towrite ELSE file_pos

\* From an event to where the file has come it has started over so often that
\* every event after it is accounted for, by a start or by a mishap.
Laps(e, after, counter, end, mis) ==
    \E c \in Nat :
        /\ (counter - e.event_at) + e.wav_position = end + c * FileLen
        /\ c + mis >= after
        /\ \/ e.wav_position = 0
           \/ e.event_at = 0
           \/ c + mis >= after + 1

\* The table begins where play began, unless it is full.
Reaches(es, counter, end, mis) ==
    /\ \A i \in 1 .. Len(es) : Laps(es[i], Len(es) - i, counter, end, mis)
    /\ es[1].event_at = 0 \/ Len(es) = MaxRebase - 1

Table ==
    /\ mishaps \in 0 .. MaxMishaps
    /\ pc # "off" => Reaches(events, write_counter, ReadTo, mishaps)
    /\ pc \in {"clamp", "start", "idle", "poll", "stopping"} => file_pos > 0

\* When the card was asked, a block of what is queued was under the DMA.
SeenThere ==
    pc # "off" /\ seen # Unknown =>
        \E b \in 1 .. Size : /\ write_counter = play_counter + b
                             /\ seen = BlockBefore(ReadTo, b)

Heard == Table /\ SeenThere /\ PositionShown

\* A table that does not go back to a counter would have to have lost an event
\* that is less than a ringful away.
LEMMA FirstCovers ==
    ASSUME NEW e \in Event, NEW counter \in Nat, NEW b \in 1 .. Size,
           NEW end \in 1 .. FileLen, NEW mis \in 0 .. MaxMishaps,
           NEW n \in Nat, n = MaxRebase - 1,
           Laps(e, n - 1, counter + b, end, mis), e.event_at # 0
    PROVE  e.event_at <= counter
<1>1. PICK at \in Nat, q \in 0 .. FileLen :
         at = e.event_at /\ q = e.wav_position
  BY DEF Event
<1>2. PICK c \in Nat : /\ (counter + b - at) + q = end + c * FileLen
                       /\ c + mis >= n - 1
                       /\ q = 0 \/ c + mis >= n
  BY <1>1 DEF Laps
<1>3. PICK room \in Int : room = MaxRebase - 2 - MaxMishaps
  BY Sizes, PaceAssumption
<1>4. room * FileLen >= Size - 1
  BY <1>3, EventsAssumption
<1>5. \A d, k \in Int : d >= k => d * FileLen >= k * FileLen
  BY Sizes
<1>6. \A d \in Int : (d - 1) * FileLen = d * FileLen - FileLen
  BY Sizes
<1>7. c >= room /\ (q = 0 \/ c - 1 >= room)
  BY <1>2, <1>3, Sizes, PaceAssumption
<1>8. PICK m \in Int : m = c * FileLen
  BY Sizes
<1>9. m - q >= Size - 1
  <2>1. CASE q = 0
    <3>1. c * FileLen >= room * FileLen
      BY <1>5, <1>7
    <3> QED
      BY <1>3, <1>4, <1>8, <2>1, <3>1, Sizes
  <2>2. CASE c - 1 >= room
    <3>1. (c - 1) * FileLen >= room * FileLen
      BY <1>5, <2>2
    <3>2. (c - 1) * FileLen = m - FileLen
      BY <1>6, <1>8
    <3> QED
      BY <1>3, <1>4, <3>1, <3>2, Sizes
  <2> QED
    BY <1>7, <2>1, <2>2
<1>10. (counter + b - at) + q = end + m
  BY <1>2, <1>8
<1>11. at <= counter
  BY <1>9, <1>10, Sizes
<1> QED
  BY <1>1, <1>11

\* A place that many blocks behind, within the file, is that block of it.
LEMMA BlockOfLap ==
    ASSUME NEW end \in 0 .. FileLen, NEW b \in 0 .. Size, NEW c \in Nat,
           NEW v \in 0 .. FileLen - 1, v + b = end + c * FileLen
    PROVE  BlockBefore(end, b) = v
<1>1. PICK m \in Int : m = c * FileLen
  BY Sizes
<1>2. PICK z \in Int : z = Size * FileLen
  BY Sizes
<1>3. PICK y \in Int : y = (Size - c) * FileLen /\ y = z - m
  BY <1>1, <1>2, Sizes
<1>4. end + z - b = y + v
  BY <1>1, <1>3, Sizes
<1>5. Size - c \in Int
  BY Sizes
<1>6. ((Size - c) * FileLen + v) % FileLen = v
  BY <1>5, Sizes, Remainder
<1> QED
  BY <1>2, <1>3, <1>4, <1>6, Zenon DEF BlockBefore

\* What is shown for a counter is the block that many places behind.
LEMMA ShownIsBlock ==
    ASSUME NEW counter \in Nat, NEW b \in 1 .. Size, NEW end \in 1 .. FileLen,
           NEW mis \in 0 .. MaxMishaps, NEW isplaying, NEW position,
           events \in Seq(Event), ReadOn(events),
           LastIs(events, counter + b, end), Reaches(events, counter + b, end, mis)
    PROVE  Shown(counter, isplaying, position) = BlockBefore(end, b)
<1> DEFINE later == Later(counter)
           i     == Min(later) - 1
<1>1. Len(events) \in Nat \ {0} /\ \A k \in 1 .. Len(events) : events[k] \in Event
  BY DEF LastIs
<1>2. later \subseteq Nat /\ Len(events) + 1 \in later
  BY <1>1 DEF Later
<1>3. Min(later) \in later /\ \A k \in later : Min(later) <= k
  BY <1>2, MinOfNats
<1>4. i \in 0 .. Len(events) /\ Min(later) = i + 1
  BY <1>1, <1>3 DEF Later
<1>5. i \notin later
  BY <1>1, <1>3, <1>4 DEF Later
<1>6. i + 1 \in later
  BY <1>3, <1>4
<1>7. i > 0 =>
        Shown(counter, isplaying, position)
          = (counter - events[i].event_at) + events[i].wav_position
  BY DEF Shown
<1> HIDE DEF later, i
<1>8. i # 0
  <2> SUFFICES ASSUME i = 0 PROVE FALSE
    OBVIOUS
  <2>1. 1 \in later /\ 1 \in 1 .. Len(events) /\ events[1] \in Event
    BY <1>1, <1>6
  <2>2. events[1].event_at > counter /\ events[1].event_at \in Nat
    BY <2>1 DEF later, Later, Event
  <2>3. events[1].event_at # 0
    BY <2>2
  <2>4. Len(events) = MaxRebase - 1
    BY <2>3 DEF Reaches
  <2>5. Laps(events[1], Len(events) - 1, counter + b, end, mis)
    BY <2>1 DEF Reaches
  <2>6. events[1].event_at <= counter
    BY <1>1, <2>1, <2>3, <2>4, <2>5, FirstCovers
  <2> QED
    BY <2>2, <2>6
<1>9. i \in 1 .. Len(events) /\ events[i] \in Event
  BY <1>1, <1>4, <1>8
<1>10. PICK at \in Nat, q \in 0 .. FileLen :
          /\ at = events[i].event_at /\ q = events[i].wav_position
          /\ at <= counter
  <2>1. events[i].event_at \in Nat /\ events[i].wav_position \in 0 .. FileLen
    BY <1>9 DEF Event
  <2>2. events[i].event_at <= counter
    BY <1>1, <1>5, <1>9, <2>1 DEF later, Later
  <2> QED
    BY <2>1, <2>2
<1>11. at \in Nat /\ q \in 0 .. FileLen /\ at <= counter
  BY <1>10
<1>12. PICK c \in Nat : (counter + b - at) + q = end + c * FileLen
  <2>1. Laps(events[i], Len(events) - i, counter + b, end, mis)
    BY <1>9 DEF Reaches
  <2> QED
    BY <1>10, <2>1 DEF Laps
<1>13. (counter - at) + q < FileLen
  <2>1. CASE i = Len(events)
    <3>1. (counter + b - at) + q = end
      BY <1>10, <2>1 DEF LastIs
    <3> QED
      BY <1>11, <3>1, Sizes
  <2>2. CASE i < Len(events)
    <3>1. i \in 1 .. Len(events) - 1 /\ i + 1 \in 1 .. Len(events)
      BY <1>1, <1>9, <2>2
    <3>2. PICK at2 \in Nat : at2 = events[i + 1].event_at /\ at2 > counter
      <4>1. events[i + 1] \in Event
        BY <1>1, <3>1
      <4>2. events[i + 1].event_at \in Nat
        BY <4>1 DEF Event
      <4>3. events[i + 1].event_at > counter
        BY <1>6, <3>1 DEF later, Later
      <4> QED
        BY <4>2, <4>3
    <3>3. (at2 - at) + q <= FileLen
      BY <1>10, <3>1, <3>2 DEF ReadOn
    <3> QED
      <4>1. at2 \in Nat /\ at2 > counter
        BY <3>2
      <4> QED
        BY <1>11, <3>3, <4>1, Sizes
  <2> QED
    BY <1>1, <1>9, <2>1, <2>2
<1>14. PICK v \in 0 .. FileLen - 1 : v = (counter - at) + q
  BY <1>11, <1>13, Sizes
<1>15. v + b = end + c * FileLen
  <2>1. v + b = (counter + b - at) + q
    BY <1>11, <1>14, Sizes
  <2> QED
    BY <1>12, <2>1
<1>16. BlockBefore(end, b) = v
  <2>1. end \in 0 .. FileLen /\ b \in 0 .. Size
    BY Sizes
  <2> QED
    BY <1>15, <2>1, BlockOfLap
<1> QED
  BY <1>4, <1>7, <1>8, <1>10, <1>14, <1>16


-----------------------------------------------------------------------------
(* The table, step by step.                                                *)

\* An event is no less accounted for when there have been more mishaps.
LEMMA MoreMishaps ==
    ASSUME NEW e, NEW after \in Int, NEW counter, NEW end,
           NEW mis \in Nat, NEW more \in Nat, mis <= more,
           Laps(e, after, counter, end, mis)
    PROVE  Laps(e, after, counter, end, more)
<1>1. PICK c \in Nat : /\ (counter - e.event_at) + e.wav_position = end + c * FileLen
                       /\ c + mis >= after
                       /\ \/ e.wav_position = 0
                          \/ e.event_at = 0
                          \/ c + mis >= after + 1
  BY DEF Laps
<1>2. c + more >= after /\ (c + mis >= after + 1 => c + more >= after + 1)
  BY <1>1
<1> QED
  BY <1>1, <1>2 DEF Laps

LEMMA TableKept ==
    ASSUME Inv, Table, UNCHANGED <<events, write_counter>>, ReadTo' = ReadTo,
           mishaps' \in 0 .. MaxMishaps, mishaps <= mishaps',
           pc' # "off" => pc # "off",
           pc' \in {"clamp", "start", "idle", "poll", "stopping"} => file_pos' > 0
    PROVE  Table'
<1> SUFFICES ASSUME pc' # "off"
             PROVE  Reaches(events, write_counter, ReadTo, mishaps')
  BY DEF Table
<1>1. Reaches(events, write_counter, ReadTo, mishaps) /\ Len(events) \in Nat
  BY DEF Table, Inv, EventsAddUp
<1>2. PICK more \in Nat : more = mishaps'
  BY PaceAssumption
<1>3. mishaps \in Nat /\ mishaps <= more
  BY <1>2, PaceAssumption DEF Table
<1>4. ASSUME NEW i \in 1 .. Len(events)
      PROVE  Laps(events[i], Len(events) - i, write_counter, ReadTo, more)
  <2>1. Laps(events[i], Len(events) - i, write_counter, ReadTo, mishaps)
    BY <1>1 DEF Reaches
  <2>2. Len(events) - i \in Int
    BY <1>1
  <2> QED
    BY <1>3, <2>1, <2>2, MoreMishaps
<1> QED
  BY <1>1, <1>2, <1>4 DEF Reaches

LEMMA PaceCounts ==
    ASSUME Table, Pace
    PROVE  mishaps' \in 0 .. MaxMishaps /\ mishaps <= mishaps'
  BY PaceAssumption DEF Table, Pace

\* An event that is added is the last, and each of the others has one more
\* event behind it.
LEMMA TableAdded ==
    ASSUME events \in Seq(Event), Len(events) < MaxRebase, events # <<>>,
           NEW at \in Nat, NEW position \in 0 .. FileLen,
           NEW new, new = [event_at |-> at, wav_position |-> position],
           NEW end, NEW mis,
           \A i \in 1 .. Len(events) : Laps(events[i], Len(events) - i + 1, at, end, mis),
           Laps(new, 0, at, end, mis),
           events[1].event_at = 0 \/ Len(events) = MaxRebase - 1,
           NEW es, es = RebaseAdd(at, position)
    PROVE  Reaches(es, at, end, mis)
<1> DEFINE all == Append(events, new)
<1>1. new \in Event
  BY DEF Event
<1>2. /\ all \in Seq(Event) /\ Len(all) = Len(events) + 1
      /\ Len(all) <= MaxRebase
      /\ Len(events) \in Nat \ {0}
      /\ all[Len(all)] = new
      /\ \A i \in 1 .. Len(events) : all[i] = events[i]
  BY <1>1, Sizes
<1>3. es = IF Len(all) > MaxRebase - 1 THEN Tail(all) ELSE all
  BY DEF RebaseAdd
<1> HIDE DEF all
<1>4. ASSUME NEW i \in 1 .. Len(all)
      PROVE  Laps(all[i], Len(all) - i, at, end, mis)
  <2>1. CASE i = Len(all)
    <3>1. Len(all) - i = 0
      BY <1>2, <2>1
    <3> QED
      BY <1>2, <2>1, <3>1
  <2>2. CASE i # Len(all)
    <3>1. i \in 1 .. Len(events) /\ Len(events) - i + 1 = Len(all) - i
      BY <1>2, <2>2
    <3>2. Laps(events[i], Len(events) - i + 1, at, end, mis)
      BY <3>1
    <3> QED
      BY <1>2, <3>1, <3>2
  <2> QED
    BY <2>1, <2>2
<1>5. CASE es = all /\ Len(all) <= MaxRebase - 1
  <2>1. Len(events) # MaxRebase - 1 /\ 1 \in 1 .. Len(events)
    BY <1>2, <1>5, Sizes
  <2>2. es[1].event_at = 0
    BY <1>2, <1>5, <2>1
  <2> QED
    BY <1>4, <1>5, <2>2 DEF Reaches
<1>6. CASE es = Tail(all) /\ Len(all) > MaxRebase - 1
  <2>1. Len(all) = MaxRebase /\ Len(all) \in Nat /\ all # <<>>
    BY <1>2, <1>6, Sizes
  <2>2. /\ Len(es) = Len(all) - 1
        /\ \A i \in 1 .. Len(es) : es[i] = all[i + 1]
    BY <1>2, <1>6, <2>1
  <2>3. ASSUME NEW i \in 1 .. Len(es)
        PROVE  Laps(es[i], Len(es) - i, at, end, mis)
    <3>1. i + 1 \in 1 .. Len(all) /\ Len(all) - (i + 1) = Len(es) - i
      BY <2>1, <2>2
    <3>2. Laps(all[i + 1], Len(all) - (i + 1), at, end, mis)
      BY <1>4, <3>1
    <3> QED
      BY <2>2, <3>1, <3>2
  <2> QED
    BY <2>1, <2>2, <2>3, Sizes DEF Reaches
<1> QED
  BY <1>2, <1>3, <1>5, <1>6, Sizes

\* At the end of the file one more lap begins.
LEMMA TableAfterRewind == ASSUME Inv, Table, Rewind PROVE Table'
<1>1. /\ pc = "load" /\ pc' = "load" /\ file_pos = FileLen /\ file_pos' = 0
      /\ events' = RebaseAdd(write_counter, 0)
      /\ UNCHANGED <<write_counter, mishaps>>
  BY DEF Rewind, StartOver, wavState, paceVars
<1>2. /\ events \in Seq(Event) /\ Len(events) < MaxRebase /\ events # <<>>
      /\ write_counter \in Nat /\ 0 \in 0 .. FileLen
      /\ mishaps \in 0 .. MaxMishaps /\ mishaps \in Nat
      /\ Reaches(events, write_counter, FileLen, mishaps)
  BY <1>1, Sizes, PaceAssumption DEF Inv, TypeOK, EventsAddUp, LastIs, Table, ReadTo
<1>3. PICK new : new = [event_at |-> write_counter, wav_position |-> 0]
  OBVIOUS
<1>4. ASSUME NEW i \in 1 .. Len(events)
      PROVE  Laps(events[i], Len(events) - i + 1, write_counter, 0, mishaps)
  <2>1. Laps(events[i], Len(events) - i, write_counter, FileLen, mishaps)
    BY <1>2 DEF Reaches
  <2>2. PICK left \in Int : left = Len(events) - i /\ Len(events) - i + 1 = left + 1
    BY <1>2
  <2>3. PICK c \in Nat :
           /\ (write_counter - events[i].event_at) + events[i].wav_position
                 = FileLen + c * FileLen
           /\ c + mishaps >= left
           /\ \/ events[i].wav_position = 0
              \/ events[i].event_at = 0
              \/ c + mishaps >= left + 1
    BY <2>1, <2>2 DEF Laps
  <2>4. FileLen + c * FileLen = 0 + (c + 1) * FileLen /\ c + 1 \in Nat
    BY Sizes
  <2>5. /\ c + 1 + mishaps >= left + 1
        /\ c + mishaps >= left + 1 => c + 1 + mishaps >= left + 1 + 1
    BY <1>2, <2>2, <2>3
  <2>6. Laps(events[i], left + 1, write_counter, 0, mishaps)
    BY <2>3, <2>4, <2>5 DEF Laps
  <2> QED
    BY <2>2, <2>6
<1>5. Laps(new, 0, write_counter, 0, mishaps)
  <2>1. /\ (write_counter - write_counter) + 0 = 0 + 0 * FileLen
        /\ 0 + mishaps >= 0 /\ 0 \in Nat
    BY <1>2, Sizes
  <2>2. new.event_at = write_counter /\ new.wav_position = 0
    BY <1>3
  <2> QED
    BY <2>1, <2>2 DEF Laps
<1>6. events[1].event_at = 0 \/ Len(events) = MaxRebase - 1
  BY <1>2 DEF Reaches
<1>7. Reaches(events', write_counter, 0, mishaps)
  BY <1>1, <1>2, <1>3, <1>4, <1>5, <1>6, TableAdded
<1> QED
  BY <1>1, <1>2, <1>7 DEF Table, ReadTo

LEMMA TableAfterWrite == ASSUME Inv, Table, MmapWrite PROVE Table'
<1>1. /\ pc = "load" /\ pc' = "read" /\ file_pos' = file_pos
      /\ write_counter' = write_counter + towrite'
      /\ UNCHANGED <<events, mishaps>>
  BY DEF MmapWrite, fileVars, paceVars
<1>2. PICK n \in Int : n = towrite'
  BY Sizes DEF MmapWrite, Least, Inv, TypeOK, Loading, Places
<1>3. /\ write_counter \in Nat /\ file_pos \in Nat /\ events \in Seq(Event)
      /\ mishaps \in 0 .. MaxMishaps
      /\ Reaches(events, write_counter, file_pos, mishaps)
  BY <1>1, Sizes DEF Inv, TypeOK, EventsAddUp, Table, ReadTo
<1>4. ASSUME NEW i \in 1 .. Len(events)
      PROVE  Laps(events[i], Len(events) - i, write_counter + n, file_pos + n, mishaps)
  <2>1. Laps(events[i], Len(events) - i, write_counter, file_pos, mishaps)
    BY <1>3 DEF Reaches
  <2>2. PICK left : left = Len(events) - i
    OBVIOUS
  <2>3. PICK c \in Nat :
           /\ (write_counter - events[i].event_at) + events[i].wav_position
                 = file_pos + c * FileLen
           /\ c + mishaps >= left
           /\ \/ events[i].wav_position = 0
              \/ events[i].event_at = 0
              \/ c + mishaps >= left + 1
    BY <2>1, <2>2 DEF Laps
  <2>4. ((write_counter + n) - events[i].event_at) + events[i].wav_position
           = file_pos + n + c * FileLen
    <3>1. PICK m \in Int : m = c * FileLen
      BY Sizes
    <3>2. events[i] \in Event
      BY <1>3
    <3>3. PICK at \in Int : at = events[i].event_at
      BY <3>2 DEF Event
    <3>4. PICK q \in Int : q = events[i].wav_position
      BY <3>2, Sizes DEF Event
    <3>5. (write_counter - at) + q = file_pos + m
      BY <2>3, <3>1, <3>3, <3>4
    <3>6. ((write_counter + n) - at) + q = file_pos + n + m
      BY <1>3, <3>5
    <3> QED
      BY <3>1, <3>3, <3>4, <3>6
  <2>5. Laps(events[i], left, write_counter + n, file_pos + n, mishaps)
    BY <2>3, <2>4, Zenon DEF Laps
  <2> QED
    BY <2>2, <2>5
<1>5. Reaches(events, write_counter + n, file_pos + n, mishaps)
  BY <1>3, <1>4 DEF Reaches
<1> QED
  BY <1>1, <1>2, <1>3, <1>5 DEF Table, ReadTo

LEMMA TableAfterFailure == ASSUME Inv, Table, ReadFails PROVE Table'
<1>1. /\ pc = "read" /\ pc' # "read" /\ file_pos' = file_pos + towrite
      /\ events' = RebaseAdd(write_counter, file_pos + towrite)
      /\ mishaps < MaxMishaps /\ mishaps' = mishaps + 1
      /\ UNCHANGED write_counter
  BY DEF ReadFails, Filled, wavState
<1>2. PICK end \in 1 .. FileLen : end = file_pos + towrite
  <2>1. /\ file_pos \in Nat /\ howmuch \in 1 .. LoadBlock /\ towrite \in 1 .. howmuch
        /\ file_pos + towrite <= FileLen
    BY <1>1, Sizes DEF Inv, TypeOK, Loading
  <2>2. file_pos + towrite \in 1 .. FileLen
    BY <2>1, Sizes
  <2> QED
    BY <2>2
<1>3. /\ events \in Seq(Event) /\ Len(events) < MaxRebase /\ events # <<>>
      /\ write_counter \in Nat /\ end \in 0 .. FileLen
      /\ Reaches(events, write_counter, end, mishaps)
  BY <1>1, <1>2, Sizes DEF Inv, TypeOK, EventsAddUp, LastIs, Table, ReadTo
<1>4. /\ mishaps \in Nat /\ mishaps + 1 \in 0 .. MaxMishaps /\ mishaps + 1 \in Nat
  BY <1>1, PaceAssumption DEF Table
<1>5. PICK new : new = [event_at |-> write_counter, wav_position |-> end]
  OBVIOUS
<1>6. ASSUME NEW i \in 1 .. Len(events)
      PROVE  Laps(events[i], Len(events) - i + 1, write_counter, end, mishaps + 1)
  <2>1. Laps(events[i], Len(events) - i, write_counter, end, mishaps)
    BY <1>3 DEF Reaches
  <2>2. PICK left \in Int : left = Len(events) - i /\ Len(events) - i + 1 = left + 1
    <3>1. Len(events) \in Nat
      BY <1>3
    <3>2. Len(events) - i \in Int /\ Len(events) - i + 1 = (Len(events) - i) + 1
      BY <3>1
    <3> QED
      BY <3>2, Zenon
  <2>3. PICK c \in Nat :
           /\ (write_counter - events[i].event_at) + events[i].wav_position
                 = end + c * FileLen
           /\ c + mishaps >= left
           /\ \/ events[i].wav_position = 0
              \/ events[i].event_at = 0
              \/ c + mishaps >= left + 1
    BY <2>1, <2>2 DEF Laps
  <2>4. /\ c + (mishaps + 1) >= left + 1
        /\ c + mishaps >= left + 1 => c + (mishaps + 1) >= left + 1 + 1
    BY <1>4, <2>2, <2>3
  <2>5. Laps(events[i], left + 1, write_counter, end, mishaps + 1)
    BY <2>3, <2>4 DEF Laps
  <2> QED
    BY <2>2, <2>5
<1>7. Laps(new, 0, write_counter, end, mishaps + 1)
  <2>1. /\ (write_counter - write_counter) + end = end + 0 * FileLen
        /\ 0 + (mishaps + 1) >= 0 /\ 0 + (mishaps + 1) >= 0 + 1 /\ 0 \in Nat
    BY <1>3, <1>4, Sizes
  <2>2. new.event_at = write_counter /\ new.wav_position = end
    BY <1>5
  <2> QED
    BY <2>1, <2>2 DEF Laps
<1>8. events[1].event_at = 0 \/ Len(events) = MaxRebase - 1
  BY <1>3 DEF Reaches
<1>9. Reaches(events', write_counter, end, mishaps + 1)
  <2>1. events' = RebaseAdd(write_counter, end)
    BY <1>1, <1>2
  <2> QED
    BY <1>3, <1>5, <1>6, <1>7, <1>8, <2>1, TableAdded
<1>10. file_pos' > 0 /\ file_pos' = end
  BY <1>1, <1>2, Sizes
<1> QED
  BY <1>1, <1>4, <1>9, <1>10 DEF Table, ReadTo

\* Play begins with one event, for the place in the file it begins at.
LEMMA TableAfterBegin == ASSUME Inv, Begin PROVE Table'
<1>1. /\ pc' = "preroll" /\ write_counter' = 0 /\ file_pos' = wav_position
      /\ events' = <<[event_at |-> 0, wav_position |-> wav_position]>>
      /\ mishaps' = 0
  BY DEF Begin, RingForgotten
<1>2. wav_position \in Int
  BY Sizes DEF Inv, TypeOK
<1>3. /\ (0 - 0) + wav_position = wav_position + 0 * FileLen
      /\ 0 + 0 >= 1 - 1 /\ 0 \in Nat
  BY <1>2, Sizes
<1>4. PICK e : e = [event_at |-> 0, wav_position |-> wav_position]
  OBVIOUS
<1>5. Laps(e, 1 - 1, 0, wav_position, 0) /\ e.event_at = 0
  BY <1>3, <1>4 DEF Laps
<1>6. Reaches(<<e>>, 0, wav_position, 0)
  <2>1. Len(<<e>>) = 1 /\ <<e>>[1] = e
    OBVIOUS
  <2>2. \A i \in 1 .. 1 : i = 1
    OBVIOUS
  <2> QED
    BY <1>5, <2>1, <2>2 DEF Reaches
<1>7. 0 \in 0 .. MaxMishaps
  BY PaceAssumption
<1> QED
  BY <1>1, <1>4, <1>6, <1>7 DEF Table, ReadTo

\* Filling what was handed out goes on to where the file was to be read to.
LEMMA FilledReadsOn ==
    ASSUME Inv, pc = "read", Filled
    PROVE  ReadTo' = ReadTo /\ pc' # "off" /\ file_pos' > 0
<1>1. file_pos' = file_pos + towrite /\ pc' \in {"clamp", "load"}
  BY DEF Filled
<1>2. file_pos \in Nat /\ towrite \in Nat \ {0}
  <2>1. howmuch \in 1 .. LoadBlock /\ towrite \in 1 .. howmuch
    BY DEF Inv, Loading
  <2> QED
    BY <2>1, Sizes DEF Inv, TypeOK
<1>3. file_pos + towrite > 0
  BY <1>2
<1> QED
  BY <1>1, <1>3 DEF ReadTo

\* A turn only ends when something has been loaded, in this turn or before.
LEMMA CanWriteFrom ==
    ASSUME Inv, CanWrite
    PROVE  pc' = "load" \/ (pc = "poll" /\ pc' = "idle" /\ EndTurn)
<1>1. CASE pc = "poll"
  BY <1>1 DEF CanWrite, EndTurn, Inv, Phases
<1>2. CASE pc = "preroll"
  <2>1. /\ play_empty /\ last_io = Place(pos) /\ pos \in Places
    <3>1. play_empty /\ gap = 0 /\ solid = 0 /\ reserved = 0
      BY <1>2 DEF Inv, Phases
    <3>2. last_io = Place(pos + gap + solid + reserved) /\ pos \in Places
      BY <1>2 DEF Inv, TypeOK
    <3>3. pos + 0 + 0 + 0 = pos
      BY <3>2, Sizes DEF Places
    <3> QED
      BY <3>1, <3>2, <3>3
  <2>2. last_io = pos
    BY <2>1, Sizes DEF Place, Places
  <2>3. PlayDelay(last_io, pos, play_empty) = 0
    BY <2>1, <2>2, Sizes DEF PlayDelay, Places
  <2>4. WorthIt(Least(LoadBlock, Size - 0))
    BY Sizes DEF WorthIt, Least
  <2> QED
    BY <2>3, <2>4 DEF CanWrite
<1> QED
  BY <1>1, <1>2 DEF CanWrite

LEMMA TableNext == ASSUME Inv, Table, [Next]_vars PROVE Table'
<1>1. mishaps \in 0 .. MaxMishaps /\ mishaps <= mishaps
  BY PaceAssumption DEF Table
<1>2. CASE Poll \/ Start
  <2>1. /\ UNCHANGED <<events, write_counter, file_pos>> /\ Pace
        /\ pc \in {"idle", "start"} /\ pc' \in {"poll", "idle"}
    BY <1>2 DEF Poll, Start, fileVars, wavState
  <2>2. ReadTo' = ReadTo /\ file_pos' > 0
    BY <2>1 DEF ReadTo, Table
  <2> QED
    BY <2>1, <2>2, PaceCounts, TableKept
<1>3. CASE Stuck \/ Clamp \/ StopPlay
  <2>1. /\ UNCHANGED <<events, write_counter, file_pos, mishaps>>
        /\ pc \in {"poll", "clamp", "idle"} /\ pc' \in {"idle", "start", "stopping"}
    BY <1>3 DEF Stuck, Clamp, StopPlay, EndTurn, fileVars, wavState, paceVars
  <2>2. ReadTo' = ReadTo /\ file_pos' > 0
    BY <2>1 DEF ReadTo, Table
  <2> QED
    BY <1>1, <2>1, <2>2, TableKept
<1>4. CASE CanWrite
  <2>1. UNCHANGED <<events, write_counter, file_pos, mishaps>>
        /\ pc \in {"poll", "preroll"}
    BY <1>4 DEF CanWrite, fileVars, paceVars
  <2>2. pc' = "load" \/ (pc = "poll" /\ pc' = "idle")
    BY <1>4, CanWriteFrom
  <2>3. ReadTo' = ReadTo /\ (pc' = "idle" => file_pos' > 0)
    BY <2>1, <2>2 DEF ReadTo, Table
  <2> QED
    BY <1>1, <2>1, <2>2, <2>3, TableKept
<1>5. CASE ReadFile
  <2>1. pc = "read" /\ Filled /\ UNCHANGED <<events, write_counter, mishaps>>
    BY <1>5 DEF ReadFile, Filled, wavState
  <2> QED
    BY <1>1, <2>1, FilledReadsOn, TableKept
<1>6. CASE Advance \/ ToggleStuck \/ UNCHANGED vars
  <2>1. UNCHANGED <<events, write_counter, file_pos, pc, towrite, mishaps>>
    BY <1>6 DEF Advance, ToggleStuck, vars, fileVars, wavState, loadVars, paceVars
  <2> QED
    BY <2>1 DEF Table, ReadTo
<1>7. CASE Halt \/ MovePos
  <2>1. pc' = "off" /\ mishaps' \in 0 .. MaxMishaps
    BY <1>1, <1>7, PaceAssumption DEF Halt, MovePos, RingForgotten, paceVars
  <2> QED
    BY <2>1 DEF Table
<1> QED
  BY <1>2, <1>3, <1>4, <1>5, <1>6, <1>7, TableAfterRewind, TableAfterWrite,
     TableAfterFailure, TableAfterBegin DEF Next, Turn, User

-----------------------------------------------------------------------------
(* What was under the DMA.                                                 *)

\* Asking the card: a block of the file is under the DMA if and only if it is
\* the first of what is queued, and the counter is that far behind.
LEMMA SeenWhenAsked ==
    ASSUME Inv', NEW end, ReadPosition(end), pos' = pos, pc' # "off",
           seen' # Unknown
    PROVE  \E b \in 1 .. Size : /\ write_counter' = play_counter' + b
                                /\ seen' = BlockBefore(end, b)
<1>1. PICK s \in Nat, r \in Nat, w \in Nat, prev \in Nat :
         /\ s = solid' /\ r = reserved' /\ w = write_counter' /\ prev = play_counter_prev'
         /\ prev + s + r <= w
  <2>1. /\ solid' \in Nat /\ reserved' \in Nat
        /\ write_counter' \in Nat /\ play_counter_prev' \in Nat
    BY Sizes DEF Inv, TypeOK
  <2>2. play_counter_prev' + solid' + reserved' <= write_counter'
    BY DEF Inv, Counters
  <2> QED
    BY <2>1, <2>2
<1>2. s \in Nat /\ r \in Nat /\ w \in Nat /\ prev \in Nat /\ prev + s + r <= w
  BY <1>1
<1>3. PICK b \in Int : b = s + r
  BY <1>2
<1>4. b = solid' + reserved'
  BY <1>1, <1>3, Zenon
<1>5. gap' = 0 /\ b > 0 /\ seen' = BlockBefore(end, b) /\ dma_position' = pos'
  BY <1>4 DEF ReadPosition, UnderDma, BlockBefore
<1>6. prev + b <= w /\ b \in 1 .. Size
  <2>1. gap' + solid' + reserved' <= Size
    BY DEF Inv, TypeOK
  <2>2. 0 + s + r <= Size
    BY <1>5, <1>1, <2>1, Zenon
  <2> QED
    BY <1>5, <1>2, <1>3, <2>2, Sizes
<1>7. /\ pos' \in Places /\ play_empty' = FALSE /\ last_io' = Place(pos' + b)
  <2>1. pos' \in Places /\ last_io' = Place(pos' + gap' + solid' + reserved')
    BY DEF Inv, TypeOK
  <2>2. pos' + gap' + solid' + reserved' = pos' + b
    <3>1. PICK p \in Int : p = pos'
      BY Sizes DEF Inv, TypeOK, Places
    <3>2. p + 0 + s + r = p + b
      BY <1>2, <1>3, <3>1
    <3> QED
      BY <1>5, <1>1, <3>1, <3>2, Zenon
  <2>3. play_empty' = FALSE
    <3>1. solid' # 0 \/ reserved' # 0
      BY <1>4, <1>5
    <3> QED
      BY <3>1 DEF Inv, TypeOK, Phases
  <2> QED
    BY <2>1, <2>2, <2>3
<1>8. PlayDelay(last_io', dma_position', play_empty') = b
  <2>1. b \in 0 .. Size /\ b # 0 /\ FALSE \in BOOLEAN
    BY <1>6
  <2>2. \A p \in Places : PlayDelay(Place(p + b), p, FALSE) = b
    BY <2>1, DelayIsTotal
  <2> QED
    BY <1>5, <1>7, <2>2
<1>9. play_counter' = w - b
  <2>1. play_counter' = PlayCounter(write_counter', PlayDelay(last_io', dma_position', play_empty'))
    BY DEF Inv, Counters
  <2>2. play_counter' = PlayCounter(w, b)
    BY <1>8, <1>1, <2>1
  <2>3. PlayCounter(w, b) = w - b
    BY <1>6, <1>2 DEF PlayCounter, Most
  <2> QED
    BY <2>2, <2>3
<1>10. w = play_counter' + b
  <2>1. w = (w - b) + b
    BY <1>6, <1>2
  <2> QED
    BY <1>9, <2>1, Zenon
<1> QED
  BY <1>5, <1>6, <1>10, <1>1

LEMMA SeenKept ==
    ASSUME SeenThere, pc' # "off" => pc # "off", ReadTo' = ReadTo,
           UNCHANGED <<seen, play_counter, write_counter>>
    PROVE  SeenThere'
  BY DEF SeenThere

\* The counter is not taken back when a block of the file was seen.
LEMMA SeenAtClamp ==
    ASSUME Inv, Clamp, seen # Unknown
    PROVE  play_counter' = play_counter
<1>1. ~Behind(PlayCounter(write_counter, PlayDelay(last_io, dma_position, play_empty)))
  <2>1. play_counter >= play_counter_prev /\ play_counter \in Int /\ play_counter_prev \in Int
    BY Sizes DEF Inv, TypeOK, Counters
  <2>2. ~(play_counter < play_counter_prev)
    BY <2>1
  <2> QED
    BY <2>2 DEF Behind, Inv, Counters
<1>2. UNCHANGED <<last_io, write_counter, dma_position, play_empty>>
  BY <1>1 DEF Clamp
<1>3. play_counter'
        = PlayCounter(write_counter', PlayDelay(last_io', dma_position', play_empty'))
  BY DEF Clamp, UpdatePlayDelay
<1> QED
  BY <1>2, <1>3 DEF Inv, Counters

LEMMA SeenNext == ASSUME Inv, Inv', SeenThere, [Next]_vars PROVE SeenThere'
<1>1. CASE Poll \/ StopPlay \/ CanWrite
  <2>1. /\ ReadPosition(file_pos) /\ pos' = pos /\ file_pos' = file_pos
        /\ pc' \notin {"off", "read"}
    BY <1>1 DEF Poll, StopPlay, CanWrite, EndTurn, fileVars
  <2> QED
    BY <2>1, SeenWhenAsked DEF SeenThere, ReadTo
<1>2. CASE MmapWrite
  <2>1. /\ ReadPosition(file_pos + towrite') /\ pos' = pos /\ file_pos' = file_pos
        /\ pc' = "read"
    BY <1>2 DEF MmapWrite, fileVars
  <2>2. PICK end : end = file_pos + towrite'
    OBVIOUS
  <2>3. seen' # Unknown =>
           \E b \in 1 .. Size : /\ write_counter' = play_counter' + b
                                /\ seen' = BlockBefore(end, b)
    BY <2>1, <2>2, SeenWhenAsked
  <2> QED
    BY <2>1, <2>2, <2>3 DEF SeenThere, ReadTo
<1>3. CASE Rewind
  <2>1. /\ pc = "load" /\ pc' = "load" /\ file_pos = FileLen /\ file_pos' = 0
        /\ UNCHANGED <<seen, play_counter, write_counter>>
    BY <1>3 DEF Rewind, StartOver, wavState, seenVars
  <2>2. \A b \in 1 .. Size : BlockBefore(FileLen, b) = BlockBefore(0, b)
    BY Sizes, BlockBeforeStart
  <2> QED
    BY <2>1, <2>2 DEF SeenThere, ReadTo
<1>4. CASE ReadFile \/ ReadFails
  <2>1. pc = "read" /\ Filled /\ UNCHANGED <<seen, play_counter, write_counter>>
    BY <1>4 DEF ReadFile, ReadFails, Filled, seenVars, wavState
  <2> QED
    BY <2>1, FilledReadsOn, SeenKept
<1>5. CASE Clamp
  <2>1. /\ pc = "clamp" /\ pc' \in {"idle", "start"}
        /\ UNCHANGED <<seen, write_counter, file_pos>>
    BY <1>5 DEF Clamp, EndTurn, seenVars, fileVars
  <2>2. CASE seen = Unknown
    BY <2>1, <2>2 DEF SeenThere
  <2>3. CASE seen # Unknown
    BY <1>5, <2>1, <2>3, SeenAtClamp, SeenKept DEF ReadTo
  <2> QED
    BY <2>2, <2>3
<1>6. CASE Stuck \/ Start
  <2>1. /\ pc \in {"poll", "start"} /\ pc' \in {"idle", "start"}
        /\ UNCHANGED <<seen, play_counter, write_counter, file_pos>>
    BY <1>6 DEF Stuck, Start, EndTurn, wavState, seenVars, fileVars
  <2> QED
    BY <2>1, SeenKept DEF ReadTo
<1>7. CASE Advance \/ ToggleStuck \/ UNCHANGED vars
  <2>1. UNCHANGED <<pc, seen, play_counter, write_counter, file_pos, towrite>>
    BY <1>7 DEF Advance, ToggleStuck, vars, wavState, fileVars, loadVars, seenVars
  <2> QED
    BY <2>1 DEF SeenThere, ReadTo
<1>8. CASE Begin \/ Halt \/ MovePos
  BY <1>8 DEF Begin, Halt, MovePos, SeenThere
<1> QED
  BY <1>1, <1>2, <1>3, <1>4, <1>5, <1>6, <1>7, <1>8 DEF Next, Turn, User

-----------------------------------------------------------------------------
(* What is shown.                                                          *)

\* What is shown at the end of a turn and after a stop.
LEMMA ShowsHeard ==
    ASSUME Inv, Table, pc \in {"clamp", "poll", "stopping"},
           NEW counter \in Nat, play_counter' = counter,
           NEW b \in 1 .. Size, write_counter = counter + b,
           ShowPosition
    PROVE  wav_play_position' = BlockBefore(file_pos, b)
<1>1. file_pos \in 1 .. FileLen /\ mishaps \in 0 .. MaxMishaps
  BY Sizes DEF Inv, TypeOK, Table
<1>2. /\ events \in Seq(Event) /\ ReadOn(events)
      /\ LastIs(events, counter + b, file_pos)
      /\ Reaches(events, counter + b, file_pos, mishaps)
  BY DEF Inv, EventsAddUp, Table, ReadTo
<1>3. \A on, at : Shown(counter, on, at) = BlockBefore(file_pos, b)
  BY <1>1, <1>2, ShownIsBlock
<1> QED
  BY <1>3, Zenon DEF ShowPosition

\* The counter of the last time the card was asked is shown.
LEMMA ShowsSeen ==
    ASSUME Inv, Inv', Table, SeenThere', pc \in {"clamp", "poll", "stopping"},
           pc' \notin {"off", "read"}, file_pos' = file_pos,
           write_counter' = write_counter, seen' # Unknown, ShowPosition
    PROVE  wav_play_position' = seen'
<1>1. PICK b \in 1 .. Size : /\ write_counter = play_counter' + b
                             /\ seen' = BlockBefore(file_pos, b)
  BY DEF SeenThere, ReadTo
<1>2. PICK counter \in Nat : counter = play_counter'
  BY Sizes DEF Inv, TypeOK
<1> QED
  BY <1>1, <1>2, ShowsHeard

LEMMA ShownNext ==
    ASSUME Inv, Inv', Table, SeenThere, SeenThere', PositionShown, [Next]_vars
    PROVE  PositionShown'
<1>1. CASE pc' \notin {"idle", "start", "off"}
  BY <1>1 DEF PositionShown
<1>2. CASE Stuck \/ Clamp \/ (CanWrite /\ pc' # "load")
  <2>1. /\ pc \in {"clamp", "poll"} /\ pc' \in {"idle", "start"}
        /\ UNCHANGED <<write_counter, file_pos>> /\ ShowPosition
    BY <1>2, CanWriteFrom DEF Stuck, Clamp, CanWrite, EndTurn, wavState, fileVars
  <2> QED
    BY <2>1, ShowsSeen DEF PositionShown
<1>3. CASE Halt
  <2>1. /\ pc = "stopping" /\ pc' = "off" /\ ShowPosition
        /\ UNCHANGED <<seen, play_counter, write_counter, file_pos>>
        /\ wav_position' = wav_play_position'
    BY <1>3 DEF Halt, ResumeAt, wavState
  <2>2. ASSUME seen # Unknown PROVE wav_play_position' = seen
    <3>1. PICK b \in 1 .. Size : /\ write_counter = play_counter + b
                                 /\ seen = BlockBefore(file_pos, b)
      BY <2>1, <2>2 DEF SeenThere, ReadTo
    <3>2. PICK counter \in Nat : counter = play_counter
      BY Sizes DEF Inv, TypeOK
    <3>3. wav_play_position' = BlockBefore(file_pos, b)
      BY <2>1, <3>1, <3>2, ShowsHeard
    <3> QED
      BY <3>1, <3>3
  <2> QED
    BY <2>1, <2>2 DEF PositionShown
<1>4. CASE MovePos
  BY <1>4 DEF MovePos, PositionShown
<1>5. CASE Start
  BY <1>5 DEF Start, PositionShown, seenVars, userVars
<1>6. CASE Advance \/ ToggleStuck \/ UNCHANGED vars
  BY <1>6 DEF Advance, ToggleStuck, vars, PositionShown, fileVars, userVars, seenVars
<1>7. CASE CanWrite /\ pc' = "load"
  BY <1>1, <1>7
<1>8. CASE Poll \/ Rewind \/ MmapWrite \/ ReadFile \/ ReadFails \/ Begin \/ StopPlay
  <2>1. pc' \notin {"idle", "start", "off"}
    BY <1>8 DEF Poll, Rewind, MmapWrite, ReadFile, ReadFails, Filled, Begin, StopPlay
  <2> QED
    BY <1>1, <2>1
<1> QED
  BY <1>2, <1>3, <1>4, <1>5, <1>6, <1>7, <1>8 DEF Next, Turn, User

\* The position shown, and resumed from, is the block that was under the DMA
\* when the card was asked: for files shorter than the ring and tables that
\* have lost their oldest events, starts over and failing reads included.
THEOREM PositionIsHeard == Spec => []PositionShown
<1>1. Init => Heard
  <2> SUFFICES ASSUME Init PROVE Heard
    OBVIOUS
  <2>1. 0 \in 0 .. MaxMishaps
    BY PaceAssumption
  <2> QED
    BY <2>1 DEF Init, Heard, Table, SeenThere, PositionShown
<1>2. Inv /\ Inv' /\ Heard /\ [Next]_vars => Heard'
  <2> SUFFICES ASSUME Inv, Inv', Heard, [Next]_vars PROVE Heard'
    OBVIOUS
  <2>1. Table' /\ SeenThere'
    BY TableNext, SeenNext DEF Heard
  <2>2. PositionShown'
    BY <2>1, ShownNext DEF Heard
  <2> QED
    BY <2>1, <2>2 DEF Heard
<1>3. Heard => PositionShown
  BY DEF Heard
<1> QED
  BY <1>1, <1>2, <1>3, InvAlways, PTL DEF Spec

-----------------------------------------------------------------------------
(* How soon an underrun is mended.                                         *)

\* Places from the DMA to the write pointer, and from where the DMA was when it
\* was last asked to where it is.
Queued == gap + solid + reserved
Passed == Place(pos + Size - dma_position)

ToLoad == CASE pc = "load" -> howmuch
            [] pc = "read" -> reserved + (howmuch - towrite)
            [] OTHER       -> 0

\* The counter of the place that was under the DMA when a block of the file was
\* last seen there is known; if the DMA has since passed the write pointer, the
\* counter that goes with it now is a ring less.
OnTime(queued, written, highest, age) == (written - queued) - age <= highest
Lapped(queued, written, highest, age) == (written - queued) + (Size - age) <= highest

NotLapped == gap <= MinLoad /\ OnTime(Queued, write_counter, play_counter_prev, since)
HasLapped == Lapped(Queued, write_counter, play_counter_prev, since)

\* What is loaded behind a gap is long enough to be told from the silence.
LongEnough == gap = 0 \/ HasLapped \/ MinLoad <= solid + ToLoad

\* A load that found an underrun is one that clamp_if_behind() notices, unless
\* the gap is short.
Noticed ==
    \/ play_counter < play_counter_prev
    \/ play_counter_prev = 0
    \/ Passed > MinLoad
    \/ gap <= MinLoad /\ Queued + Passed > MinLoad

LastWrite == pc = "clamp" \/ (pc = "read" /\ howmuch = towrite)

Mending ==
    pc # "off" /\ since < Size =>
        /\ Passed <= since
        /\ NotLapped \/ HasLapped
        /\ pc \in {"load", "read", "clamp"} => LongEnough
        /\ LastWrite /\ seen = Unknown => Noticed

Ranged ==
    /\ pos \in Places /\ dma_position \in Places /\ since \in 0 .. Size
    /\ gap \in Nat /\ solid \in Nat /\ reserved \in Nat
    /\ Queued \in 0 .. Size /\ Passed \in Places
    /\ write_counter \in Nat /\ play_counter \in Nat /\ play_counter_prev \in Nat

LEMMA Ranges == ASSUME Inv PROVE Ranged
<1>1. /\ pos \in Places /\ dma_position \in Places /\ since \in 0 .. Size
      /\ gap \in Nat /\ solid \in Nat /\ reserved \in Nat
      /\ gap + solid + reserved <= Size
      /\ write_counter \in Nat /\ play_counter \in Nat /\ play_counter_prev \in Nat
  BY Sizes DEF Inv, TypeOK
<1>2. gap + solid + reserved \in 0 .. Size
  BY <1>1, Sizes
<1>3. Place(pos + Size - dma_position) \in Places
  BY <1>1, Sizes DEF Place, Places
<1> QED
  BY <1>1, <1>2, <1>3 DEF Ranged, Queued, Passed

LEMMA RangesNext == ASSUME Inv' PROVE Ranged'
<1>1. /\ pos' \in Places /\ dma_position' \in Places /\ since' \in 0 .. Size
      /\ gap' \in Nat /\ solid' \in Nat /\ reserved' \in Nat
      /\ gap' + solid' + reserved' <= Size
      /\ write_counter' \in 0 .. CounterMax
      /\ play_counter' \in 0 .. write_counter' /\ play_counter_prev' \in 0 .. write_counter'
  BY DEF Inv, TypeOK
<1>2. write_counter' \in Nat /\ play_counter' \in Nat /\ play_counter_prev' \in Nat
  BY <1>1, Sizes
<1>3. PICK p \in Places, d \in Places : p = pos' /\ d = dma_position'
  BY <1>1
<1>4. Place(p + Size - d) \in Places
  BY Sizes DEF Place, Places
<1>5. PICK g \in Nat, s \in Nat, r \in Nat : g = gap' /\ s = solid' /\ r = reserved'
  BY <1>1
<1>6. g + s + r <= Size
  BY <1>1, <1>5
<1>7. g + s + r \in 0 .. Size
  BY <1>6, Sizes
<1>8. Queued' \in 0 .. Size /\ Passed' \in Places
  BY <1>3, <1>4, <1>5, <1>7, Zenon DEF Queued, Passed
<1> QED
  BY <1>1, <1>2, <1>8 DEF Ranged

\* The counter that goes with what is queued.
LEMMA CounterWhenAsked ==
    ASSUME Inv', dma_position' = pos', pc' # "off", Queued' > 0
    PROVE  play_counter' = Most(write_counter' - Queued', 0)
<1>1. PICK q \in 1 .. Size : q = Queued'
  BY RangesNext, Sizes DEF Ranged
<1>2. PICK p \in Places : p = pos'
  BY RangesNext DEF Ranged
<1>3. last_io' = Place(p + q)
  <2>1. last_io' = Place(pos' + gap' + solid' + reserved')
    BY DEF Inv, TypeOK
  <2>2. PICK g \in Nat, s \in Nat, r \in Nat : g = gap' /\ s = solid' /\ r = reserved'
    BY RangesNext DEF Ranged
  <2>3. p \in Int
    BY <1>2, Sizes DEF Places
  <2>4. q = g + s + r
    BY <1>1, <2>2 DEF Queued
  <2>5. p + g + s + r = p + q
    BY <2>2, <2>3, <2>4
  <2> QED
    BY <1>2, <2>1, <2>2, <2>5, Zenon
<1>4. play_empty' = FALSE
  <2>1. play_empty' => q = 0
    BY <1>1 DEF Inv, Phases, Queued
  <2> QED
    BY <1>1, <2>1 DEF Inv, TypeOK
<1>5. PlayDelay(last_io', dma_position', play_empty') = q
  <2>1. q \in 0 .. Size /\ q # 0 /\ FALSE \in BOOLEAN
    BY <1>1, Sizes
  <2>2. \A x \in Places : PlayDelay(Place(x + q), x, FALSE) = q
    BY <2>1, DelayIsTotal
  <2> QED
    BY <1>2, <1>3, <1>4, <2>2
<1> QED
  BY <1>1, <1>5 DEF Inv, Counters, PlayCounter

\* The card that has just been asked has not gone on, and if it was at a block
\* of the file, that is known; otherwise what was known still is.
LEMMA MendingWhenAsked ==
    ASSUME Inv, Inv', NEW end \in Int, ReadPosition(end), pos' = pos, pc' # "off"
    PROVE  /\ Passed' = 0
           /\ play_counter_prev <= play_counter_prev'
           /\ seen' # Unknown => gap' = 0 /\ NotLapped'
           /\ seen' = Unknown => since' = since
           /\ gap' = 0 /\ solid' + reserved' > 0 => seen' # Unknown
<1>1. Passed' = 0
  <2>1. dma_position' = pos /\ pos' = pos /\ pos \in Places
    BY Ranges DEF Ranged, ReadPosition
  <2>2. Place(pos + Size - pos) = 0
    BY <2>1, Sizes DEF Place, Places
  <2> QED
    BY <2>1, <2>2 DEF Passed
<1>2. play_counter_prev <= play_counter_prev' /\ play_counter' <= play_counter_prev'
  <2>1. PICK c \in Nat : c = play_counter'
    BY RangesNext DEF Ranged
  <2>2. play_counter_prev' = Most(play_counter_prev, c) /\ play_counter_prev \in Nat
    BY <2>1, Ranges DEF Ranged, ReadPosition, UpdatePlayDelay, Highest
  <2>3. /\ play_counter_prev <= Most(play_counter_prev, c)
        /\ c <= Most(play_counter_prev, c)
    BY <2>1, <2>2 DEF Most
  <2> QED
    BY <2>1, <2>2, <2>3
<1>3. seen' = Unknown => since' = since
  BY DEF ReadPosition
<1>4. gap' = 0 /\ solid' + reserved' > 0 => seen' # Unknown
  <2> SUFFICES ASSUME gap' = 0, solid' + reserved' > 0 PROVE seen' # Unknown
    OBVIOUS
  <2>1. seen' = BlockBefore(end, solid' + reserved')
    BY DEF ReadPosition, UnderDma, BlockBefore
  <2>2. PICK b \in Int : b = solid' + reserved'
    <3>1. PICK s \in Nat, r \in Nat : s = solid' /\ r = reserved'
      BY RangesNext DEF Ranged
    <3>2. s + r \in Int
      OBVIOUS
    <3> QED
      BY <3>1, <3>2, Zenon
  <2>3. PICK a \in Int : a = end + Size * FileLen - b
    BY <2>2, Sizes
  <2>4. a % FileLen \in 0 .. FileLen - 1
    BY <2>3, Sizes
  <2>5. a % FileLen # Unknown
    BY <2>4, Sizes DEF Unknown
  <2> QED
    BY <2>1, <2>2, <2>3, <2>5 DEF BlockBefore
<1>5. seen' # Unknown => gap' = 0 /\ NotLapped'
  <2> SUFFICES ASSUME seen' # Unknown PROVE gap' = 0 /\ NotLapped'
    OBVIOUS
  <2>1. gap' = 0 /\ since' = 0 /\ dma_position' = pos' /\ solid' + reserved' > 0
    BY DEF ReadPosition, UnderDma
  <2>2. PICK q \in 0 .. Size, w \in Nat, h \in Nat, c \in Nat :
           /\ q = Queued' /\ w = write_counter' /\ h = play_counter_prev'
           /\ c = play_counter'
    BY RangesNext DEF Ranged
  <2>3. q > 0
    <3>1. PICK s \in Nat, r \in Nat : s = solid' /\ r = reserved'
      BY RangesNext DEF Ranged
    <3>2. q = 0 + s + r /\ s + r > 0
      BY <2>1, <2>2, <3>1 DEF Queued
    <3>3. \A m, n \in Nat : m + n > 0 => 0 + m + n > 0
      OBVIOUS
    <3> QED
      BY <3>2, <3>3, Zenon
  <2>4. c = Most(w - q, 0) /\ c <= h
    BY <1>2, <2>1, <2>2, <2>3, CounterWhenAsked
  <2>5. (w - q) - 0 <= h
    <3>1. q \in Int /\ w \in Int /\ h \in Int
      BY Sizes
    <3> QED
      BY <2>4, <3>1 DEF Most
  <2>6. OnTime(Queued', write_counter', play_counter_prev', since')
    BY <2>1, <2>2, <2>5, Zenon DEF OnTime
  <2> QED
    BY <2>1, <2>6, Sizes DEF NotLapped
<1> QED
  BY <1>1, <1>2, <1>3, <1>4, <1>5

\* What is known when the card has been asked, and nothing was queued.
LEMMA KnownWhenAsked ==
    ASSUME Inv, Inv', Mending, pc # "off", NEW end \in Int, ReadPosition(end),
           pos' = pos, pc' # "off", since' < Size,
           (write_counter' - Queued') = (write_counter - Queued), gap' = gap
    PROVE  /\ Passed' <= since'
           /\ NotLapped' \/ HasLapped'
           /\ gap' = 0 \/ (HasLapped => HasLapped')
<1>1. PICK a \in Int : /\ a = write_counter - Queued
                       /\ a = write_counter' - Queued'
  BY Ranges DEF Ranged
<1>2. PICK h \in Nat, h2 \in Nat, y \in 0 .. Size :
         h = play_counter_prev /\ h2 = play_counter_prev' /\ y = since /\ h <= h2
  BY Ranges, RangesNext, MendingWhenAsked DEF Ranged
<1>3. Passed' = 0 /\ since' \in 0 .. Size
  BY RangesNext, MendingWhenAsked DEF Ranged
<1>4. CASE seen' # Unknown
  BY <1>3, <1>4, MendingWhenAsked, Sizes
<1>5. CASE seen' = Unknown
  <2>1. since' = y
    BY <1>2, <1>5, MendingWhenAsked
  <2>2. (a - y <= h => a - y <= h2) /\ (a + (Size - y) <= h => a + (Size - y) <= h2)
    BY <1>2, Sizes
  <2>3. (NotLapped => NotLapped') /\ (HasLapped => HasLapped')
    BY <1>1, <1>2, <2>1, <2>2, Zenon DEF NotLapped, HasLapped, OnTime, Lapped
  <2>4. NotLapped \/ HasLapped
    BY <1>2, <2>1 DEF Mending
  <2>5. Passed' <= since'
    BY <1>3, Sizes
  <2> QED
    BY <2>3, <2>4, <2>5
<1> QED
  BY <1>4, <1>5

\* The card plays a block. If nothing was queued, it has lapped the write pointer.
LEMMA MendingAfterAdvance == ASSUME Inv, Inv', Mending, Advance PROVE Mending'
<1> SUFFICES ASSUME since' < Size PROVE Mending'
  BY DEF Mending
<1>1. /\ pos' = Card!Succ(pos) /\ since' = Least(since + 1, Size)
      /\ running
      /\ UNCHANGED <<pc, dma_position, write_counter, play_counter, play_counter_prev,
                     howmuch, towrite, seen>>
  BY DEF Advance, Card!Advance, wavState, loadVars
<1>2. PICK y \in Nat : y = since /\ since' = y + 1 /\ y + 1 < Size
  <2>1. since \in 0 .. Size
    BY Ranges DEF Ranged
  <2> QED
    BY <1>1, <2>1, Sizes DEF Least
<1>3. /\ pc # "off" /\ Passed <= y
      /\ NotLapped \/ HasLapped
      /\ pc \in {"load", "read", "clamp"} => LongEnough
      /\ LastWrite /\ seen = Unknown => Noticed
  <2>1. pc # "off"
    BY <1>1 DEF Inv, Phases
  <2>2. since < Size
    BY <1>2, Sizes
  <2> QED
    BY <1>2, <2>1, <2>2 DEF Mending
<1>4. PICK d \in Nat : d = Passed /\ Passed' = d + 1 /\ d <= y
  <2>1. pos \in Places /\ dma_position \in Places /\ Passed \in Places
    BY Ranges DEF Ranged
  <2>2. PICK d \in Places : d = Passed
    BY <2>1
  <2>3. d < Size - 1
    BY <1>2, <1>3, <2>2, Sizes DEF Places
  <2>4. d = Place(pos + Size - dma_position)
    BY <2>2 DEF Passed
  <2>5. Place(Card!Succ(pos) + Size - dma_position) = d + 1
    BY <2>1, <2>3, <2>4, Sizes DEF Place, Places, Card!Succ
  <2>6. Passed' = d + 1
    BY <1>1, <2>5 DEF Passed
  <2>7. d \in Nat /\ d <= y
    BY <1>3, <2>2, Sizes DEF Places
  <2> QED
    BY <2>2, <2>6, <2>7
<1>5. PICK g \in Nat, s \in Nat, r \in Nat, w \in Nat, h \in Nat :
         g = gap /\ s = solid /\ r = reserved /\ w = write_counter /\ h = play_counter_prev
  BY Ranges DEF Ranged
<1>6. Queued = g + s + r
  BY <1>5 DEF Queued
<1>7. CASE g + s + r > 0
  <2>1. PICK g2 \in Nat, s2 \in Nat, r2 \in Nat :
           /\ gap' = g2 /\ solid' = s2 /\ reserved' = r2
           /\ g2 <= g /\ g2 + s2 + r2 = (g + s + r) - 1
           /\ g2 > 0 => s2 = s /\ r2 = r
    <3>1. CASE g > 0
      <4>1. gap' = g - 1 /\ solid' = s /\ reserved' = r
        BY <1>5, <3>1 DEF Advance
      <4>2. g - 1 \in Nat /\ g - 1 <= g /\ (g - 1) + s + r = (g + s + r) - 1
        BY <3>1
      <4> QED
        BY <4>1, <4>2
    <3>2. CASE g = 0 /\ s > 0
      <4>1. gap' = g /\ solid' = s - 1 /\ reserved' = r
        BY <1>5, <3>2 DEF Advance
      <4>2. s - 1 \in Nat /\ g <= g /\ ~(g > 0) /\ g + (s - 1) + r = (g + s + r) - 1
        BY <3>2
      <4> QED
        BY <4>1, <4>2
    <3>3. CASE g = 0 /\ s = 0 /\ r > 0
      <4>1. gap' = g /\ solid' = s /\ reserved' = r - 1
        BY <1>5, <3>3 DEF Advance
      <4>2. r - 1 \in Nat /\ g <= g /\ ~(g > 0) /\ g + s + (r - 1) = (g + s + r) - 1
        BY <3>3
      <4> QED
        BY <4>1, <4>2
    <3> QED
      BY <1>7, <3>1, <3>2, <3>3
  <2>2. PICK q \in Nat : /\ q = g + s + r /\ q > 0
    BY <1>7
  <2>3. Queued' = q - 1
    BY <2>1, <2>2 DEF Queued
  <2>4. /\ (w - (q - 1)) - (y + 1) = (w - q) - y
        /\ (w - (q - 1)) + (Size - (y + 1)) = (w - q) + (Size - y)
        /\ q + d > MinLoad => (q - 1) + (d + 1) > MinLoad
        /\ d > MinLoad => d + 1 > MinLoad
        /\ g <= MinLoad => g2 <= MinLoad
    BY <2>1, Sizes
  <2>5. (NotLapped => NotLapped') /\ (HasLapped => HasLapped')
    BY <1>1, <1>2, <1>5, <1>6, <2>1, <2>2, <2>3, <2>4, Zenon
    DEF NotLapped, HasLapped, OnTime, Lapped
  <2>6. LongEnough => LongEnough'
    <3>1. CASE g2 = 0
      BY <2>1, <3>1 DEF LongEnough
    <3>2. CASE g2 > 0
      <4>1. g # 0 /\ solid' = solid /\ reserved' = reserved
        BY <1>5, <2>1, <3>2
      <4>2. ToLoad' = ToLoad
        BY <1>1, <4>1 DEF ToLoad
      <4> QED
        BY <1>5, <2>5, <4>1, <4>2, Zenon DEF LongEnough
    <3> QED
      BY <2>1, <3>1, <3>2
  <2>7. Noticed => Noticed'
    BY <1>1, <1>4, <1>5, <1>6, <2>1, <2>2, <2>3, <2>4, Zenon DEF Noticed
  <2>8. LastWrite' = LastWrite
    BY <1>1 DEF LastWrite
  <2>9. Passed' <= since'
    BY <1>2, <1>4
  <2> QED
    BY <1>1, <1>3, <2>5, <2>6, <2>7, <2>8, <2>9 DEF Mending
<1>8. CASE g + s + r = 0
  <2>1. g = 0 /\ s = 0 /\ r = 0
    BY <1>8
  <2>2. gap' = Size - 1 /\ solid' = 0 /\ reserved' = 0
    BY <1>5, <2>1 DEF Advance
  <2>3. Queued = 0 /\ Queued' = Size - 1
    BY <1>6, <1>8, <2>2, Sizes DEF Queued
  <2>4. w - y <= h
    <3>1. (w - 0) - y <= h \/ (w - 0) + (Size - y) <= h
      BY <1>2, <1>3, <1>5, <2>3, Zenon DEF NotLapped, HasLapped, OnTime, Lapped
    <3> QED
      BY <3>1, Sizes
  <2>5. (w - (Size - 1)) + (Size - (y + 1)) <= h
    BY <2>4, Sizes
  <2>6. HasLapped'
    BY <1>1, <1>2, <1>5, <2>3, <2>5, Zenon DEF HasLapped, Lapped
  <2>7. Noticed => Noticed'
    <3>1. g <= MinLoad /\ 0 + d > MinLoad => d + 1 > MinLoad
      BY Sizes
    <3>2. d > MinLoad => d + 1 > MinLoad
      BY Sizes
    <3> QED
      BY <1>1, <1>4, <1>5, <2>3, <3>1, <3>2, Zenon DEF Noticed
  <2>8. LastWrite' = LastWrite
    BY <1>1 DEF LastWrite
  <2>9. Passed' <= since'
    BY <1>2, <1>4
  <2> QED
    BY <1>1, <1>3, <2>6, <2>7, <2>8, <2>9 DEF Mending, LongEnough
<1> QED
  BY <1>7, <1>8

\* A turn begins, or the user stops play.
LEMMA MendingAfterAsking ==
    ASSUME Inv, Inv', Mending, pc # "off", ReadPosition(file_pos), pos' = pos,
           UNCHANGED <<gap, solid, reserved, write_counter>>,
           pc' \in {"poll", "stopping", "idle", "load"},
           pc' = "load" => MinLoad <= howmuch'
    PROVE  Mending'
<1> SUFFICES ASSUME since' < Size PROVE Mending'
  BY DEF Mending
<1>1. Queued' = Queued /\ (write_counter' - Queued') = (write_counter - Queued)
  BY DEF Queued
<1>2. file_pos \in Int
  BY Sizes DEF Inv, TypeOK
<1>3. Passed' <= since' /\ (NotLapped' \/ HasLapped')
  BY <1>1, <1>2, KnownWhenAsked
<1>4. pc' = "load" => LongEnough'
  <2> SUFFICES ASSUME pc' = "load" PROVE LongEnough'
    OBVIOUS
  <2>1. PICK s \in Nat : s = solid'
    BY RangesNext DEF Ranged
  <2>2. PICK n \in Nat : n = howmuch'
    BY Sizes DEF Inv, Loading
  <2>3. MinLoad <= s + n
    <3>1. MinLoad <= n
      BY <2>2
    <3> QED
      BY <3>1, Sizes
  <2>4. ToLoad' = n
    BY <2>2 DEF ToLoad
  <2> QED
    BY <2>1, <2>3, <2>4 DEF LongEnough
<1> QED
  BY <1>3, <1>4 DEF Mending, LastWrite

LEMMA MendingAfterCanWrite == ASSUME Inv, Inv', Mending, CanWrite PROVE Mending'
<1>1. /\ ReadPosition(file_pos) /\ pc # "off"
      /\ UNCHANGED <<pos, gap, solid, reserved, write_counter>>
  BY DEF CanWrite
<1>2. CASE pc' = "load"
  <2>1. WorthIt(howmuch')
    BY <1>2 DEF CanWrite, EndTurn
  <2>2. MinLoad <= howmuch'
    <3>1. howmuch' \in Nat
      BY <1>2, Sizes DEF Inv, Loading
    <3> QED
      BY <2>1, <3>1, Sizes DEF WorthIt
  <2> QED
    BY <1>1, <1>2, <2>2, MendingAfterAsking
<1>3. CASE pc' # "load"
  <2>1. pc' = "idle"
    BY <1>3, CanWriteFrom
  <2> QED
    BY <1>1, <2>1, MendingAfterAsking
<1> QED
  BY <1>2, <1>3

\* What is queued in an underrun makes the counter fall behind, if the place
\* under the DMA is one from less than a ring ago.
LEMMA MendingAfterWrite == ASSUME Inv, Inv', Mending, MmapWrite PROVE Mending'
<1> SUFFICES ASSUME since' < Size PROVE Mending'
  BY DEF Mending
<1>1. /\ pc = "load" /\ pc' = "read" /\ pos' = pos /\ howmuch' = howmuch
      /\ write_counter' = write_counter + towrite'
      /\ ReadPosition(file_pos + towrite') /\ Queue(towrite')
      /\ reserved = 0
  BY DEF MmapWrite, Inv, Loading
<1>2. PICK end \in Int, n \in Nat, h \in Nat :
         /\ end = file_pos + towrite' /\ n = towrite' /\ h = howmuch /\ n <= h /\ n > 0
  <2>1. howmuch' \in 1 .. LoadBlock /\ towrite' \in 1 .. howmuch' /\ file_pos \in Int
    BY <1>1, Sizes DEF Inv, Loading, TypeOK
  <2>2. PICK n \in Nat : n = towrite' /\ n > 0 /\ n <= howmuch' /\ howmuch' \in Nat
    BY <2>1, Sizes
  <2>3. file_pos + n \in Int
    BY <2>1
  <2> QED
    BY <1>1, <2>2, <2>3
<1>3. PICK g \in Nat, s \in Nat, w \in Nat :
         g = gap /\ s = solid /\ w = write_counter /\ write_counter' = w + n
  BY <1>1, <1>2, Ranges DEF Ranged
<1>4. /\ Passed' = 0 /\ 0 <= since' /\ Passed' <= since'
      /\ seen' # Unknown => gap' = 0 /\ NotLapped'
      /\ gap' = 0 /\ solid' + reserved' > 0 => seen' # Unknown
  <2>1. ReadPosition(end) /\ pc' # "off"
    BY <1>1, <1>2
  <2>2. since' \in 0 .. Size
    BY RangesNext DEF Ranged
  <2> QED
    BY <1>1, <2>1, <2>2, MendingWhenAsked, Sizes
<1>5. CASE g = 0 \/ g + s + n <= Size
  <2>1. gap' = g /\ solid' = s /\ reserved' = n
    BY <1>1, <1>2, <1>3, <1>5 DEF Queue
  <2>2. Queued' = (g + s) + n /\ Queued = g + s
    BY <1>1, <1>3, <2>1 DEF Queued
  <2>3. (write_counter' - Queued') = (write_counter - Queued)
    <3>1. (w + n) - ((g + s) + n) = w - (g + s)
      OBVIOUS
    <3> QED
      BY <1>3, <2>2, <3>1, Zenon
  <2>4. /\ NotLapped' \/ HasLapped'
        /\ gap' = 0 \/ (HasLapped => HasLapped')
    <3>1. ReadPosition(end) /\ pc' # "off" /\ pc # "off" /\ gap' = gap
      BY <1>1, <1>2, <1>3, <2>1
    <3> QED
      BY <1>1, <2>3, <3>1, KnownWhenAsked
  <2>5. LongEnough'
    <3>1. CASE gap' = 0
      BY <3>1 DEF LongEnough
    <3>2. CASE gap' # 0
      <4>1. seen' = Unknown
        BY <1>4, <3>2
      <4>2. since' = since
        BY <4>1 DEF MmapWrite, ReadPosition
      <4>3. LongEnough
        BY <1>1, <4>2 DEF Mending
      <4>4. ToLoad' = n + (h - n) /\ ToLoad = h
        BY <1>1, <1>2, <2>1 DEF ToLoad
      <4>5. ToLoad' = ToLoad
        <5>1. n + (h - n) = h
          OBVIOUS
        <5> QED
          BY <4>4, <5>1, Zenon
      <4> QED
        BY <1>3, <2>1, <2>4, <3>2, <4>3, <4>5 DEF LongEnough
    <3> QED
      BY <3>1, <3>2
  <2>6. ASSUME LastWrite', seen' = Unknown PROVE Noticed'
    <3>1. g > 0
      <4>1. s + n > 0
        <5>1. n > 0
          BY <1>2
        <5> QED
          BY <5>1
      <4> QED
        BY <1>3, <1>4, <2>1, <2>6, <4>1
    <3>2. n = h
      BY <1>1, <1>2, <2>6 DEF LastWrite
    <3>3. PICK q \in 1 .. Size, w2 \in Nat, p \in Nat, age \in Nat :
             /\ q = Queued' /\ w2 = write_counter' /\ p = play_counter_prev'
             /\ age = since' /\ age < Size
      <4>1. /\ Queued' \in 0 .. Size /\ write_counter' \in Nat
            /\ play_counter_prev' \in Nat /\ since' \in 0 .. Size
        BY RangesNext DEF Ranged
      <4>2. PICK q \in 0 .. Size : q = Queued'
        BY <4>1
      <4>3. q > 0
        BY <2>2, <3>1, <4>2
      <4>4. q \in 1 .. Size
        BY <4>3, Sizes
      <4>5. PICK age \in Nat : age = since'
        BY <4>1, Sizes
      <4> QED
        BY <4>1, <4>2, <4>4, <4>5
    <3>4. play_counter' = Most(w2 - q, 0)
      <4>1. Queued' > 0
        BY <3>3, Sizes
      <4>2. dma_position' = pos' /\ pc' # "off"
        BY <1>1 DEF ReadPosition
      <4> QED
        BY <3>3, <4>1, <4>2, CounterWhenAsked
    <3>5. CASE HasLapped'
      <4>1. (w2 - q) + (Size - age) <= p
        BY <3>3, <3>5, Zenon DEF HasLapped, Lapped
      <4>2. Most(w2 - q, 0) < p \/ p = 0
        <5>1. age < Size
          BY <3>3
        <5>2. w2 - q < p
          BY <4>1, <5>1, Sizes
        <5> QED
          BY <5>2 DEF Most
      <4> QED
        BY <3>3, <3>4, <4>2 DEF Noticed
    <3>6. CASE NotLapped' /\ ~HasLapped'
      <4>1. MinLoad <= s + (n + (h - n))
        <5>1. gap' # 0 /\ ToLoad' = n + (h - n)
          BY <1>1, <1>2, <2>1, <3>1 DEF ToLoad
        <5> QED
          BY <2>1, <2>5, <3>6, <5>1 DEF LongEnough
      <4>2. (g + s) + n > MinLoad
        BY <3>1, <3>2, <4>1, Sizes
      <4>3. (g + s) + n + 0 > MinLoad
        BY <4>2, Sizes
      <4> QED
        BY <1>4, <2>2, <3>6, <4>3, Zenon DEF Noticed, NotLapped
    <3> QED
      BY <2>4, <3>5, <3>6
  <2> QED
    BY <1>1, <1>4, <2>4, <2>5, <2>6 DEF Mending
<1>6. CASE ~(g = 0 \/ g + s + n <= Size)
  <2>1. gap' = 0 /\ solid' = 0 /\ reserved' = g + s + n - Size
    BY <1>1, <1>2, <1>3, <1>6 DEF Queue
  <2>2. 0 + (g + s + n - Size) > 0
    BY <1>6, Sizes
  <2>3. seen' # Unknown
    BY <1>4, <2>1, <2>2
  <2> QED
    BY <1>1, <1>4, <2>1, <2>3 DEF Mending, LongEnough
<1> QED
  BY <1>5, <1>6

\* What was handed out has become part of what is queued.
LEMMA MendingAfterFilled ==
    ASSUME Inv, Inv', Mending, pc = "read", Filled
    PROVE  Mending'
<1> SUFFICES ASSUME since' < Size PROVE Mending'
  BY DEF Mending
<1>1. /\ solid' = solid + reserved /\ reserved' = 0 /\ gap' = gap
      /\ howmuch' = howmuch - towrite
      /\ pc' = IF howmuch' = 0 THEN "clamp" ELSE "load"
      /\ UNCHANGED <<pos, dma_position, write_counter, play_counter, play_counter_prev,
                     seen, since>>
  BY DEF Filled, wavState, seenVars
<1>2. PICK g \in Nat, s \in Nat, r \in Nat, h \in Nat, n \in Nat :
         /\ g = gap /\ s = solid /\ r = reserved /\ h = howmuch /\ n = towrite
         /\ n <= h /\ solid' = s + r /\ howmuch' = h - n
  <2>1. howmuch \in Nat /\ towrite \in Nat /\ towrite <= howmuch
    BY Sizes DEF Inv, Loading
  <2> QED
    BY <1>1, <2>1, Ranges DEF Ranged
<1>3. Queued' = Queued /\ Passed' = Passed
  <2>1. g + (s + r) + 0 = g + s + r
    OBVIOUS
  <2> QED
    BY <1>1, <1>2, <2>1, Zenon DEF Queued, Passed
<1>4. NotLapped' = NotLapped /\ HasLapped' = HasLapped /\ Noticed' = Noticed
  BY <1>1, <1>3 DEF NotLapped, HasLapped, Noticed
<1>5. /\ Passed <= since /\ (NotLapped \/ HasLapped) /\ LongEnough
      /\ LastWrite /\ seen = Unknown => Noticed
  BY <1>1 DEF Mending
<1>6. LongEnough'
  <2>1. ToLoad = r + (h - n)
    BY <1>2 DEF ToLoad
  <2>2. ToLoad' = h - n
    BY <1>1, <1>2 DEF ToLoad
  <2>3. s + (r + (h - n)) = (s + r) + (h - n)
    OBVIOUS
  <2> QED
    BY <1>1, <1>2, <1>4, <1>5, <2>1, <2>2, <2>3, Zenon DEF LongEnough
<1>7. LastWrite' => LastWrite
  <2>1. h - n = 0 => h = n
    OBVIOUS
  <2> QED
    BY <1>1, <1>2, <2>1 DEF LastWrite
<1> QED
  BY <1>1, <1>3, <1>4, <1>5, <1>6, <1>7 DEF Mending

\* Where clamp_if_behind() puts the write pointer, seen from the DMA: MinLoad
\* places from where the card was asked, or a ring further if it is beyond.
LEMMA ClampedFromDma ==
    ASSUME NEW p \in Places, NEW d \in Places, NEW gone \in Nat,
           gone = Place(p + Size - d),
           NEW io, io = Place(d + MinLoad)
    PROVE  /\ gone <= MinLoad => Place(io + Size - p) = MinLoad - gone
           /\ gone > MinLoad => Place(io + Size - p) = (Size + MinLoad) - gone
<1>1. io \in Places /\ MinLoad \in 1 .. Size - 1
  BY Sizes DEF Place, Places
<1>2. gone = IF p >= d THEN p - d ELSE p - d + Size
  BY Sizes DEF Place, Places
<1>3. io = IF d + MinLoad >= Size THEN d + MinLoad - Size ELSE d + MinLoad
  BY Sizes DEF Place, Places
<1>4. Place(io + Size - p) = IF io >= p THEN io - p ELSE io - p + Size
  BY <1>1, Sizes DEF Place, Places
<1>5. gone <= MinLoad => Place(io + Size - p) = MinLoad - gone
  BY <1>1, <1>2, <1>3, <1>4, Sizes DEF Places
<1>6. gone > MinLoad => Place(io + Size - p) = (Size + MinLoad) - gone
  BY <1>1, <1>2, <1>3, <1>4, Sizes DEF Places
<1> QED
  BY <1>5, <1>6

\* The write pointer that is forced forward, and the counters after that.
LEMMA ClampForces ==
    ASSUME Inv, Inv', Clamp,
           Behind(PlayCounter(write_counter, PlayDelay(last_io, dma_position, play_empty)))
    PROVE  /\ solid' = 0 /\ reserved' = 0
           /\ Passed <= MinLoad => gap' = MinLoad - Passed
           /\ Passed > MinLoad => gap' = (Size + MinLoad) - Passed
           /\ write_counter - MinLoad <= play_counter_prev'
<1>1. /\ last_io' = Place(dma_position + MinLoad)
      /\ gap' = Place(last_io' + Size - pos) /\ solid' = 0 /\ reserved' = reserved
      /\ pc = "clamp"
      /\ UNCHANGED <<write_counter, dma_position, play_empty>> /\ UpdatePlayDelay
  BY DEF Clamp, Clamped
<1>2. /\ reserved = 0 /\ play_empty = FALSE
      /\ pos \in Places /\ dma_position \in Places
      /\ write_counter \in Nat /\ play_counter_prev \in Nat
  <2>1. reserved = 0 /\ play_empty = FALSE
    BY <1>1 DEF Inv, TypeOK, Phases, Loading
  <2> QED
    BY <2>1, Ranges DEF Ranged
<1>3. PICK gone \in Nat : gone = Passed
  <2>1. Passed \in Nat
    BY Ranges, Sizes DEF Ranged, Places
  <2> QED
    BY <2>1
<1>4. gone = Place(pos + Size - dma_position)
  BY <1>3 DEF Passed
<1>5. PICK io : io = Place(dma_position + MinLoad)
  OBVIOUS
<1>6. /\ gone <= MinLoad => Place(io + Size - pos) = MinLoad - gone
      /\ gone > MinLoad => Place(io + Size - pos) = (Size + MinLoad) - gone
      /\ PlayDelay(io, dma_position, FALSE) = MinLoad
  <2>1. pos \in Places /\ dma_position \in Places
    BY <1>2
  <2>2. /\ gone <= MinLoad => Place(io + Size - pos) = MinLoad - gone
        /\ gone > MinLoad => Place(io + Size - pos) = (Size + MinLoad) - gone
    BY <1>4, <1>5, <2>1, ClampedFromDma
  <2>3. MinLoad \in 0 .. Size /\ MinLoad # 0 /\ FALSE \in BOOLEAN
    BY Sizes
  <2>4. \A x \in Places : PlayDelay(Place(x + MinLoad), x, FALSE) = MinLoad
    BY <2>3, DelayIsTotal
  <2> QED
    BY <1>5, <2>1, <2>2, <2>4
<1>7. play_counter' = PlayCounter(write_counter, MinLoad)
      /\ play_counter_prev' = Most(play_counter_prev, PlayCounter(write_counter, MinLoad))
  BY <1>1, <1>2, <1>5, <1>6 DEF UpdatePlayDelay, Highest
<1>8. write_counter - MinLoad
         <= Most(play_counter_prev, PlayCounter(write_counter, MinLoad))
  BY <1>2, Sizes DEF Most, PlayCounter
<1> QED
  BY <1>1, <1>2, <1>3, <1>5, <1>6, <1>7, <1>8

LEMMA MendingAfterClamp == ASSUME Inv, Inv', Mending, Clamp PROVE Mending'
<1> SUFFICES ASSUME since' < Size PROVE Mending'
  BY DEF Mending
<1>1. /\ pc = "clamp" /\ pc' \in {"idle", "start"}
      /\ UNCHANGED <<pos, dma_position, write_counter, since, reserved>>
  BY DEF Clamp, EndTurn, seenVars
<1>2. Passed <= since /\ (NotLapped \/ HasLapped) /\ Passed' = Passed
  BY <1>1 DEF Mending, Passed
<1>3. PICK gone \in Nat, age \in Nat, w \in Nat, h \in Nat :
         /\ gone = Passed /\ age = since /\ w = write_counter /\ h = play_counter_prev'
         /\ gone <= age
  <2>1. /\ Passed \in Nat /\ since \in Nat /\ write_counter \in Nat
    BY Ranges, Sizes DEF Ranged, Places
  <2>2. play_counter_prev' \in Nat
    BY RangesNext DEF Ranged
  <2> QED
    BY <1>2, <2>1, <2>2
<1>4. NotLapped' \/ HasLapped'
  <2>1. CASE Behind(PlayCounter(write_counter, PlayDelay(last_io, dma_position, play_empty)))
    <3>1. /\ solid' = 0 /\ reserved' = 0
          /\ gone <= MinLoad => gap' = MinLoad - gone
          /\ gone > MinLoad => gap' = (Size + MinLoad) - gone
          /\ w - MinLoad <= h
      BY <1>3, <2>1, ClampForces
    <3>2. CASE gone <= MinLoad
      <4>1. gap' = MinLoad - gone
        BY <3>1, <3>2
      <4>2. Queued' = (MinLoad - gone) + 0 + 0
        BY <3>1, <4>1 DEF Queued
      <4>3. (w - ((MinLoad - gone) + 0 + 0)) - age <= h /\ MinLoad - gone <= MinLoad
        <5>1. w - MinLoad <= h /\ gone <= age
          BY <1>3, <3>1
        <5> QED
          BY <5>1, Sizes
      <4> QED
        BY <1>1, <1>3, <4>1, <4>2, <4>3, Zenon DEF NotLapped, OnTime
    <3>3. CASE gone > MinLoad
      <4>1. gap' = (Size + MinLoad) - gone
        BY <3>1, <3>3
      <4>2. Queued' = ((Size + MinLoad) - gone) + 0 + 0
        BY <3>1, <4>1 DEF Queued
      <4>3. (w - (((Size + MinLoad) - gone) + 0 + 0)) + (Size - age) <= h
        <5>1. w - MinLoad <= h /\ gone <= age
          BY <1>3, <3>1
        <5> QED
          BY <5>1, Sizes
      <4> QED
        BY <1>1, <1>3, <4>1, <4>2, <4>3, Zenon DEF HasLapped, Lapped
    <3> QED
      BY <3>2, <3>3, Sizes
  <2>2. CASE ~Behind(PlayCounter(write_counter, PlayDelay(last_io, dma_position, play_empty)))
    <3>1. gap' = gap /\ solid' = solid /\ Queued' = Queued
      BY <1>1, <2>2 DEF Clamp, Queued
    <3>2. PICK h0 \in Nat, a \in Int : /\ h0 = play_counter_prev /\ h0 <= h
                                       /\ a = write_counter - Queued
      <4>1. play_counter_prev \in Nat /\ write_counter - Queued \in Int
        BY Ranges DEF Ranged
      <4>2. PICK c \in Nat : c = play_counter'
        BY RangesNext DEF Ranged
      <4>3. h = Most(play_counter_prev, c)
        BY <1>3, <4>2 DEF Clamp, UpdatePlayDelay, Highest
      <4>4. play_counter_prev <= Most(play_counter_prev, c)
        BY <4>1 DEF Most
      <4> QED
        BY <4>1, <4>3, <4>4
    <3>3. h0 <= h
      BY <3>2
    <3>4. (a - age <= h0 => a - age <= h) /\ (a + (Size - age) <= h0 => a + (Size - age) <= h)
      BY <3>3, Sizes
    <3> QED
      BY <1>1, <1>2, <1>3, <3>1, <3>2, <3>4, Zenon
      DEF NotLapped, HasLapped, OnTime, Lapped
  <2> QED
    BY <2>1, <2>2
<1> QED
  BY <1>1, <1>2, <1>4 DEF Mending, LastWrite

\* Nothing has happened since play began.
LEMMA MendingAfterBegin == ASSUME Inv, Begin PROVE Mending'
<1>1. /\ pc' = "preroll" /\ pos' = 0 /\ dma_position' = 0 /\ since' = 0
      /\ gap' = 0 /\ solid' = 0 /\ reserved' = 0
      /\ write_counter' = 0 /\ play_counter_prev' = 0
  BY DEF Begin, Card!Arm, RingForgotten
<1>2. Place(0 + Size - 0) = 0 /\ 0 <= 0
  BY Sizes DEF Place
<1>3. /\ 0 <= MinLoad /\ (0 - (0 + 0 + 0)) - 0 <= 0
  BY Sizes
<1>4. Passed' <= since'
  BY <1>1, <1>2 DEF Passed
<1>5. NotLapped'
  BY <1>1, <1>3, Zenon DEF NotLapped, OnTime, Queued
<1> QED
  BY <1>1, <1>4, <1>5 DEF Mending, LastWrite

LEMMA MendingNext == ASSUME Inv, Inv', Mending, [Next]_vars PROVE Mending'
<1>1. CASE /\ UNCHANGED <<pos, dma_position, gap, solid, reserved, write_counter,
                          play_counter, play_counter_prev, since, seen>>
           /\ pc # "off" /\ pc' \in {"idle", "start"}
  BY <1>1
  DEF Mending, Passed, NotLapped, HasLapped, Queued, LastWrite
<1>2. CASE Poll \/ StopPlay
  <2>1. /\ ReadPosition(file_pos) /\ pc # "off" /\ pc' \in {"poll", "stopping"}
        /\ UNCHANGED <<pos, gap, solid, reserved, write_counter>>
    BY <1>2 DEF Poll, StopPlay
  <2> QED
    BY <2>1, MendingAfterAsking
<1>3. CASE Stuck \/ Start
  <2>1. /\ pc # "off" /\ pc' \in {"idle", "start"}
        /\ UNCHANGED <<pos, dma_position, gap, solid, reserved, write_counter,
                       play_counter, play_counter_prev, since, seen>>
    BY <1>3 DEF Stuck, Start, Card!Start, EndTurn, wavState, ringVars, seenVars
  <2> QED
    BY <1>1, <2>1
<1>4. CASE Rewind \/ ToggleStuck \/ UNCHANGED vars
  <2>1. UNCHANGED <<pos, dma_position, gap, solid, reserved, write_counter,
                    play_counter, play_counter_prev, since, seen, pc, loadVars>>
    BY <1>4 DEF Rewind, ToggleStuck, vars, wavState, ringVars, seenVars
  <2> QED
    BY <2>1 DEF Mending, Passed, NotLapped, HasLapped, Queued, LastWrite, LongEnough,
                ToLoad, Noticed, loadVars
<1>5. CASE ReadFile \/ ReadFails
  <2>1. pc = "read" /\ Filled
    BY <1>5 DEF ReadFile, ReadFails
  <2> QED
    BY <2>1, MendingAfterFilled
<1>6. CASE Halt \/ MovePos
  BY <1>6 DEF Halt, MovePos, Mending
<1> QED
  BY <1>2, <1>3, <1>4, <1>5, <1>6, MendingAfterAdvance, MendingAfterCanWrite,
     MendingAfterWrite, MendingAfterClamp, MendingAfterBegin DEF Next, Turn, User

\* An underrun that a load finds is noticed, and what was loaded or comes next is
\* heard within MinLoad blocks, for rings, loads and cards of every size and speed.
THEOREM MendedSoon == Spec => SoonAudible
<1>1. Init => Mending
  BY DEF Init, Mending
<1>2. Inv /\ Inv' /\ Mending /\ [Next]_vars => Mending'
  BY MendingNext
<1>3. ASSUME Inv, Inv', Mending, Clamp, seen = Unknown, since < Size,
             play_counter_prev > 0, Place(pos + Size - dma_position) <= MinLoad
      PROVE  gap' <= MinLoad
  <2>1. pc = "clamp" /\ LastWrite /\ pc # "off"
    BY <1>3 DEF Clamp, LastWrite
  <2>2. PICK gone \in Nat : gone = Passed /\ gone <= MinLoad
    <3>1. Passed \in Nat
      BY <1>3, Ranges, Sizes DEF Ranged, Places
    <3> QED
      BY <1>3, <3>1 DEF Passed
  <2>3. CASE Behind(PlayCounter(write_counter, PlayDelay(last_io, dma_position, play_empty)))
    <3>1. gap' = MinLoad - gone
      BY <1>3, <2>2, <2>3, ClampForces
    <3> QED
      BY <3>1, Sizes
  <2>4. CASE ~Behind(PlayCounter(write_counter, PlayDelay(last_io, dma_position, play_empty)))
    <3>1. gap' = gap
      BY <1>3, <2>4 DEF Clamp
    <3>2. ~(play_counter < play_counter_prev)
      BY <1>3, <2>4 DEF Behind, Inv, Counters
    <3>3. play_counter_prev # 0 /\ ~(Passed > MinLoad)
      <4>1. play_counter_prev \in Nat
        BY <1>3, Ranges DEF Ranged
      <4>2. ~(gone > MinLoad)
        BY <2>2, Sizes
      <4> QED
        BY <1>3, <2>2, <4>1, <4>2
    <3>4. Noticed
      BY <1>3, <2>1 DEF Mending
    <3> QED
      BY <3>1, <3>2, <3>3, <3>4 DEF Noticed
  <2> QED
    BY <2>3, <2>4
<1>4. Inv /\ Inv' /\ Mending /\ [Next]_vars =>
         [Clamp /\ seen = Unknown /\ since < Size /\ play_counter_prev > 0
                /\ Place(pos + Size - dma_position) <= MinLoad
             => gap' <= MinLoad]_vars
  BY <1>3
<1> QED
  BY <1>1, <1>2, <1>4, InvAlways, PTL DEF Spec, SoonAudible

=============================================================================
