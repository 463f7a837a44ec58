------------------------------ MODULE GnssProofs ------------------------------
(***************************************************************************)
(* Proofs about the GNSS receive path, for every size of the ring, every   *)
(* packet length, every budget of the task and every number of losses.     *)
(***************************************************************************)
EXTENDS Gnss, TLAPS

-----------------------------------------------------------------------------
(***************************************************************************)
(* The indices of the ring                                                 *)
(***************************************************************************)
LEMMA RemainderBelow ==
  ASSUME NEW n \in Nat \ {0}, NEW a \in 0 .. n - 1
  PROVE  a % n = a
OBVIOUS

LEMMA RemainderOnce ==
  ASSUME NEW n \in Nat \ {0}, NEW a \in n .. 2 * n - 1
  PROVE  a % n = a - n
OBVIOUS

LEMMA RemainderNegative ==
  ASSUME NEW n \in Nat \ {0}, NEW a \in -n .. -1
  PROVE  a % n = a + n
OBVIOUS

\* The next slot, and how many bytes wait.
LEMMA NextSlot ==
  ASSUME NEW i \in Slots
  PROVE  /\ (i + 1) % RingSize \in Slots
         /\ (i + 1) % RingSize = IF i + 1 = RingSize THEN 0 ELSE i + 1
<1>1. RingSize \in Nat \ {0} /\ RingSize >= 2 /\ i \in Nat /\ i < RingSize
  BY GnssAssumption DEF Slots
<1>2. CASE i + 1 = RingSize
  BY <1>1, <1>2, RemainderOnce DEF Slots
<1>3. CASE i + 1 < RingSize
  BY <1>1, <1>3, RemainderBelow DEF Slots
<1> QED BY <1>1, <1>2, <1>3

LEMMA Distance ==
  ASSUME NEW h \in Slots, NEW t \in Slots
  PROVE  /\ (h - t) % RingSize = IF t <= h THEN h - t ELSE h - t + RingSize
         /\ (h - t) % RingSize \in Slots
<1>1. RingSize \in Nat \ {0} /\ h \in Nat /\ t \in Nat /\ h < RingSize /\ t < RingSize
  BY GnssAssumption DEF Slots
<1>2. CASE t <= h
  <2>1. h - t \in 0 .. RingSize - 1
    BY <1>1, <1>2
  <2> QED BY <1>1, <1>2, <2>1, RemainderBelow DEF Slots
<1>3. CASE ~(t <= h)
  <2>1. h - t \in -RingSize .. -1
    BY <1>1, <1>3
  <2>2. (h - t) % RingSize = h - t + RingSize
    BY <1>1, <2>1, RemainderNegative
  <2> QED BY <1>1, <1>3, <2>2 DEF Slots
<1> QED BY <1>2, <1>3

LEMMA QueuedValue ==
  ASSUME head \in Slots, tail \in Slots
  PROVE  /\ Queued = IF tail <= head THEN head - tail ELSE head - tail + RingSize
         /\ Queued \in Slots
BY Distance DEF Queued

-----------------------------------------------------------------------------
(***************************************************************************)
(* The parser                                                              *)
(***************************************************************************)
\* A parser that may have counted the last byte of a packet.
Full ==
  [used : 0 .. PacketLen, first : Nat, whole : BOOLEAN, lastByte : Nat,
   rx : Nat, good : Nat, timeouts : Nat, dropped : Nat,
   pvt : BOOLEAN, pvtMs : Nat, haveEpoch : BOOLEAN, lastEpoch : Nat, epochMs : Nat,
   current : BOOLEAN, fresh : BOOLEAN]

SameCounts(p, q) == q.rx = p.rx /\ q.dropped = p.dropped

LEMMA ParserIsFull ==
  ASSUME NEW p \in Parser
  PROVE  p \in Full
BY GnssAssumption DEF Parser, Full

LEMMA FullIsParser ==
  ASSUME NEW p \in Full, p.used # PacketLen
  PROVE  p \in Parser
BY GnssAssumption DEF Parser, Full

LEMMA ResetType ==
  ASSUME NEW p \in Full
  PROVE  Reset(p) \in Parser /\ SameCounts(p, Reset(p))
<1>1. 0 \in 0 .. PacketLen - 1
  BY GnssAssumption
<1> DEFINE a == [p EXCEPT !.used = 0]
           b == [a EXCEPT !.first = 0]
<1>2. a \in Parser /\ SameCounts(p, a)
  BY <1>1 DEF Full, Parser, SameCounts
<1>3. Reset(p) = [b EXCEPT !.whole = FALSE]
  BY DEF Reset
<1> HIDE DEF a
<1>4. b \in Parser /\ SameCounts(p, b)
  BY <1>2 DEF Parser, SameCounts
<1> HIDE DEF b
<1> QED BY <1>3, <1>4 DEF Parser, SameCounts

LEMMA TickType ==
  ASSUME NEW p \in Parser, NEW t \in Nat
  PROVE  GnssTick(p, t) \in Parser /\ SameCounts(p, GnssTick(p, t))
<1> DEFINE late == p.used > 0 /\ Since(t, p.lastByte) > Timeout
           q == IF late THEN [Reset(p) EXCEPT !.timeouts = @ + 1] ELSE p
           f == /\ p.pvt /\ p.current
                /\ Since(t, p.pvtMs) <= FreshFor /\ Since(t, p.epochMs) <= FreshFor
<1>1. Reset(p) \in Parser /\ SameCounts(p, Reset(p))
  BY ResetType, ParserIsFull
<1>2. q \in Parser /\ SameCounts(p, q)
  BY <1>1 DEF Parser, SameCounts
<1>3. p.pvt \in BOOLEAN /\ p.current \in BOOLEAN
  BY DEF Parser
<1>4. f \in BOOLEAN
  OBVIOUS
<1>5. GnssTick(p, t) = [q EXCEPT !.fresh = f]
  BY DEF GnssTick
<1> HIDE DEF q, f
<1> QED BY <1>2, <1>4, <1>5 DEF Parser, SameCounts

LEMMA LossType ==
  ASSUME NEW p \in Parser, NEW n \in Nat
  PROVE  /\ GnssLoss(p, n) \in Parser
         /\ GnssLoss(p, n).rx = p.rx /\ GnssLoss(p, n).dropped = p.dropped + n
<1>1. Reset(p) \in Parser /\ SameCounts(p, Reset(p))
  BY ResetType, ParserIsFull
<1>2. p.dropped \in Nat /\ Reset(p).dropped + n \in Nat
  BY <1>1 DEF Parser, SameCounts
<1>3. [Reset(p) EXCEPT !.dropped = @ + n] \in Parser
  BY <1>1, <1>2 DEF Parser
<1>4. GnssLoss(p, n) = [[Reset(p) EXCEPT !.dropped = @ + n] EXCEPT !.current = FALSE]
  BY <1>1 DEF GnssLoss, Parser
<1> QED BY <1>1, <1>3, <1>4 DEF Parser, SameCounts

LEMMA MessageType ==
  ASSUME NEW p \in Full, NEW epoch \in Nat, NEW t \in Nat
  PROVE  Message(p, epoch, t) \in Full /\ SameCounts(p, Message(p, epoch, t))
<1> DEFINE a == [p EXCEPT !.good = p.good + 1]
           b == [a EXCEPT !.pvt = TRUE]
           q == [p EXCEPT !.good = @ + 1, !.pvt = TRUE, !.pvtMs = t]
<1>1. q = [b EXCEPT !.pvtMs = t]
  OBVIOUS
<1>2. a \in Full /\ SameCounts(p, a)
  BY DEF Full, SameCounts
<1> HIDE DEF a
<1>3. b \in Full /\ SameCounts(p, b)
  BY <1>2 DEF Full, SameCounts
<1> HIDE DEF b
<1>4. q \in Full /\ SameCounts(p, q)
  <2> HIDE DEF q
  <2> QED BY <1>1, <1>3 DEF Full, SameCounts
<1>5. \/ Message(p, epoch, t) = [q EXCEPT !.current = FALSE]
      \/ Message(p, epoch, t) =
           [q EXCEPT !.lastEpoch = epoch, !.haveEpoch = TRUE, !.epochMs = t, !.current = TRUE]
      \/ Message(p, epoch, t) = q
  BY DEF Message
<1> HIDE DEF q
<1> QED BY <1>4, <1>5 DEF Full, SameCounts

LEMMA ByteType ==
  ASSUME NEW p \in Parser, NEW n \in Nat
  PROVE  Byte(p, n) \in Full /\ SameCounts(p, Byte(p, n))
<1>0. p \in Full
  BY ParserIsFull
<1>1. Reset(p) \in Full /\ SameCounts(p, Reset(p))
  BY <1>0, ResetType, ParserIsFull
<1>2. CASE p.used = 0 \/ (p.used = 1 /\ n % PacketLen # 1)
  <2>1. \/ Byte(p, n) = [p EXCEPT !.used = 1, !.first = n, !.whole = TRUE]
        \/ Byte(p, n) = Reset(p)
    BY <1>2 DEF Byte
  <2>2. 1 \in 0 .. PacketLen
    BY GnssAssumption
  <2> QED BY <1>0, <1>1, <2>1, <2>2 DEF Full, SameCounts
<1>3. CASE ~(p.used = 0 \/ (p.used = 1 /\ n % PacketLen # 1))
  <2> DEFINE w == p.whole /\ n = p.first + p.used
  <2>1. Byte(p, n) = [p EXCEPT !.used = p.used + 1, !.whole = w]
    BY <1>3 DEF Byte
  <2>2. p.used + 1 \in 0 .. PacketLen
    BY GnssAssumption DEF Parser
  <2>3. w \in BOOLEAN
    BY DEF Parser
  <2> HIDE DEF w
  <2> QED BY <1>0, <1>1, <2>1, <2>2, <2>3 DEF Full, SameCounts
<1> QED BY <1>2, <1>3

LEMMA FeedType ==
  ASSUME NEW p \in Parser, NEW byte \in Received
  PROVE  /\ GnssFeed(p, byte) \in Parser
         /\ GnssFeed(p, byte).rx = p.rx + 1 /\ GnssFeed(p, byte).dropped = p.dropped
<1> DEFINE q == [GnssTick(p, byte.tick) EXCEPT !.rx = @ + 1, !.lastByte = byte.tick]
           r == Byte(q, byte.n)
           m == IF r.whole THEN Message(r, byte.tow, byte.tick) ELSE r
<1>1. byte.tick \in Nat /\ byte.n \in Nat /\ byte.tow \in Nat
  BY GnssAssumption DEF Received
<1>2. GnssTick(p, byte.tick) \in Parser /\ SameCounts(p, GnssTick(p, byte.tick))
  BY <1>1, TickType
<1>3. q \in Parser /\ q.rx = p.rx + 1 /\ q.dropped = p.dropped
  <2> DEFINE h == GnssTick(p, byte.tick)
             a == [h EXCEPT !.rx = h.rx + 1]
  <2>1. q = [a EXCEPT !.lastByte = byte.tick]
    OBVIOUS
  <2>2. h \in Parser /\ h.rx = p.rx /\ h.dropped = p.dropped
    BY <1>2 DEF SameCounts
  <2> HIDE DEF q, h
  <2>3. a \in Parser /\ a.rx = p.rx + 1 /\ a.dropped = p.dropped
    BY <2>2 DEF Parser
  <2> HIDE DEF a
  <2> QED BY <1>1, <2>1, <2>3 DEF Parser
<1> HIDE DEF q
<1>4. r \in Full /\ r.rx = p.rx + 1 /\ r.dropped = p.dropped
  BY <1>1, <1>3, ByteType DEF SameCounts
<1> HIDE DEF r
<1>5. m \in Full /\ m.rx = p.rx + 1 /\ m.dropped = p.dropped
  BY <1>1, <1>4, MessageType DEF SameCounts
<1> HIDE DEF m
<1>6. Reset(m) \in Parser /\ Reset(m).rx = p.rx + 1 /\ Reset(m).dropped = p.dropped
  BY <1>5, ResetType DEF SameCounts
<1>7. /\ GnssTick(Reset(m), byte.tick) \in Parser
      /\ GnssTick(Reset(m), byte.tick).rx = p.rx + 1
      /\ GnssTick(Reset(m), byte.tick).dropped = p.dropped
  BY <1>1, <1>6, TickType DEF SameCounts
<1>8. GnssFeed(p, byte) = IF r.used # PacketLen THEN r ELSE GnssTick(Reset(m), byte.tick)
  BY DEF GnssFeed, q, r, m
<1> QED BY <1>4, <1>7, <1>8, FullIsParser

-----------------------------------------------------------------------------
(***************************************************************************)
(* Types                                                                   *)
(***************************************************************************)
\* The byte the task holds is still in its slot, and within the budget.
FeedInv == pc = "feed" => tail # head /\ budget > 0

TypeInv == GnssTypeOK /\ FeedInv

LEMMA InitType == Init => TypeInv
<1> SUFFICES ASSUME Init PROVE TypeInv
  OBVIOUS
<1>1. 0 \in Slots /\ 0 \in 0 .. MaxTick /\ 0 \in 0 .. MaxBytes /\ 0 \in 0 .. Budget
      /\ 0 \in 0 .. PacketLen - 1
  BY GnssAssumption DEF Slots
<1>2. NoByte \in Received
  BY <1>1 DEF NoByte, Received
<1>3. g \in Parser
  BY <1>1 DEF Init, Parser
<1>4. ring \in [Slots -> Received] /\ slot \in Received
  BY <1>2 DEF Init
<1>5. accepted \in Seq([epoch : Nat, at : Nat, losses : Nat])
  BY DEF Init
<1> QED BY <1>1, <1>3, <1>4, <1>5 DEF Init, TypeInv, GnssTypeOK, FeedInv

\* What the interrupts leave alone.
LEMMA InterruptType ==
  ASSUME TypeInv, Interrupts
  PROVE  TypeInv'
<1> USE DEF TypeInv, GnssTypeOK, FeedInv
<1>1. CASE SysTick
  <2>1. tick' \in 0 .. MaxTick /\ now \in 0 .. tick'
    BY <1>1, GnssAssumption DEF SysTick
  <2> QED BY <1>1, <2>1 DEF SysTick, shared, task, history
<1>2. ASSUME NEW n \in 0 .. 2, Send(n)
      PROVE  /\ sent' \in 0 .. MaxBytes /\ tow' \in Nat /\ signalled' \in Nat
             /\ UNCHANGED <<accepted, losses>>
  <2>1. sent' \in 0 .. MaxBytes /\ signalled' \in Nat /\ UNCHANGED <<accepted, losses>>
    BY <1>2, GnssAssumption DEF Send
  <2>2. tow' \in Tows \/ tow' = tow
    BY <1>2 DEF Send
  <2> QED BY <2>1, <2>2, GnssAssumption
<1>3. CASE Receive
  <2>1. /\ sent' \in 0 .. MaxBytes /\ tow' \in Nat /\ signalled' \in Nat
        /\ UNCHANGED <<accepted, losses>>
    BY <1>3, <1>2 DEF Receive
  <2>2. [n |-> sent, tick |-> tick, tow |-> tow'] \in Received
    BY <2>1, GnssAssumption DEF Received
  <2>3. ring' \in [Slots -> Received] /\ head' \in Slots /\ lost' \in Nat /\ lost' >= lost
        /\ tail' = tail /\ (tail # head => tail' # head')
    BY <1>3, <2>2, NextSlot DEF Receive, Push
  <2>4. seen \in 0 .. lost'
    BY <2>3
  <2> QED BY <1>3, <2>1, <2>3, <2>4 DEF Receive, task
<1>4. CASE ReceiveError
  <2>1. /\ sent' \in 0 .. MaxBytes /\ tow' \in Nat /\ signalled' \in Nat
        /\ UNCHANGED <<accepted, losses>>
    BY <1>4, <1>2 DEF ReceiveError
  <2>2. lost' \in Nat /\ seen \in 0 .. lost'
    BY <1>4 DEF ReceiveError
  <2> QED BY <1>4, <2>1, <2>2 DEF ReceiveError, task
<1> QED BY <1>1, <1>3, <1>4 DEF Interrupts

LEMMA TaskType ==
  ASSUME TypeInv, Task
  PROVE  TypeInv'
<1> USE DEF TypeInv, GnssTypeOK, FeedInv
<1>0. MaxTick \in Nat /\ Budget \in Nat \ {0}
  BY GnssAssumption
<1>1. CASE TaskBegin
  <2>1. now' \in 0 .. tick
    BY <1>1 DEF TaskBegin
  <2> QED BY <1>1, <2>1 DEF TaskBegin, shared, history
<1>2. CASE CheckLoss
  <2>1. budget' \in 0 .. Budget
    BY <1>0, <1>2 DEF CheckLoss
  <2> QED BY <1>2, <2>1 DEF CheckLoss, shared, history
<1>3. CASE Discard
  <2>1. lost - seen + Queued \in Nat
    BY QueuedValue DEF Slots
  <2>2. g' \in Parser
    BY <1>3, <2>1, LossType DEF Discard
  <2>3. budget' \in 0 .. Budget /\ seen' \in 0 .. lost /\ losses' \in Nat
    BY <1>0, <1>3 DEF Discard
  <2>4. NoByte \in Received
    BY <1>0 DEF NoByte, Received
  <2>5. ring' \in [Slots -> Received]
    BY <1>3, <2>4 DEF Discard
  <2> QED BY <1>3, <2>2, <2>3, <2>5 DEF Discard
<1>4. CASE ReadSlot
  BY <1>4 DEF ReadSlot, shared, history
<1>5. CASE Feed
  <2>1. g' \in Parser
    BY <1>5, FeedType DEF Feed
  <2>2. tail' \in Slots
    BY <1>5, NextSlot DEF Feed
  <2>3. NoByte \in Received
    BY <1>0 DEF NoByte, Received
  <2>4. ring' \in [Slots -> Received] /\ slot' \in Received
    BY <1>5, <2>3 DEF Feed
  <2>5. [epoch |-> slot.tow, at |-> slot.tick, losses |-> losses]
          \in [epoch : Nat, at : Nat, losses : Nat]
    BY <1>0 DEF Received
  <2>6. accepted' \in Seq([epoch : Nat, at : Nat, losses : Nat])
    <3> DEFINE Epochs == [epoch : Nat, at : Nat, losses : Nat]
               e == [epoch |-> slot.tow, at |-> slot.tick, losses |-> losses]
    <3>1. accepted \in Seq(Epochs) /\ e \in Epochs
      BY <2>5
    <3>2. accepted' = accepted \/ accepted' = Append(accepted, e)
      BY <1>5 DEF Feed
    <3> HIDE DEF Epochs, e, TypeInv, GnssTypeOK, FeedInv
    <3>3. accepted' \in Seq(Epochs)
      BY <3>1, <3>2
    <3> QED BY <3>3 DEF Epochs
  <2>7. budget' \in 0 .. Budget
    BY <1>0, <1>5 DEF Feed
  <2> QED BY <1>5, <2>1, <2>2, <2>4, <2>6, <2>7 DEF Feed
<1>6. CASE TaskTick
  <2>1. g' \in Parser
    BY <1>0, <1>6, TickType DEF TaskTick
  <2>2. now' \in 0 .. tick /\ budget' \in 0 .. Budget
    BY <1>0, <1>6 DEF TaskTick
  <2> QED BY <1>6, <2>1, <2>2 DEF TaskTick, shared, history
<1>7. CASE Status
  <2>1. g' \in Parser
    BY <1>0, <1>7, TickType DEF Status
  <2> QED BY <1>7, <2>1 DEF Status, shared, task, history
<1> QED BY <1>1, <1>2, <1>3, <1>4, <1>5, <1>6, <1>7 DEF Task

LEMMA NextType == TypeInv /\ [Next]_vars => TypeInv'
<1>1. TypeInv /\ UNCHANGED vars => TypeInv'
  BY DEF TypeInv, GnssTypeOK, FeedInv, vars, shared, task, history
<1> QED BY <1>1, InterruptType, TaskType DEF Next

\* The ring, the parser and the task keep their types (gnss_stm32.c, gnss.c): indices stay
\* inside the ring and the parser inside a packet, for every size of either.
THEOREM GnssTypeCorrect == Spec => []GnssTypeOK
<1>1. Init => TypeInv
  BY InitType
<1>2. TypeInv /\ [Next]_vars => TypeInv'
  BY NextType
<1>3. TypeInv => GnssTypeOK
  BY DEF TypeInv
<1> QED BY <1>1, <1>2, <1>3, PTL DEF Spec

-----------------------------------------------------------------------------
(***************************************************************************)
(* No byte is lost without being counted                                   *)
(***************************************************************************)
\* The interrupt either queues the byte or counts it as lost.
LEMMA ReceiveAccounted ==
  ASSUME TypeInv, EveryByteAccounted, Receive
  PROVE  EveryByteAccounted'
<1>1. /\ head \in Slots /\ tail \in Slots /\ lost \in Nat /\ seen \in Nat /\ signalled \in Nat
      /\ g \in Parser
  BY DEF TypeInv, GnssTypeOK
<1>2. Queued = IF tail <= head THEN head - tail ELSE head - tail + RingSize
  BY <1>1, QueuedValue
<1>3. g.rx \in Nat /\ g.dropped \in Nat /\ Queued \in Nat /\ RingSize \in Nat
  BY <1>1, QueuedValue, GnssAssumption DEF Parser, Slots
<1>4. signalled' = signalled + 1
  BY DEF Receive, Send
<1>5. g' = g /\ seen' = seen
  BY DEF Receive, task
<1>6. Push /\ tail' = tail
  BY DEF Receive, Push
<1>7. CASE (head + 1) % RingSize = tail
  <2>1. lost' = lost + 1 /\ head' = head
    BY <1>6, <1>7 DEF Push
  <2>2. Queued' = Queued
    BY <1>6, <2>1 DEF Queued
  <2> QED BY <1>1, <1>3, <1>4, <1>5, <2>1, <2>2 DEF EveryByteAccounted
<1>8. CASE (head + 1) % RingSize # tail
  <2>1. lost' = lost /\ head' = (head + 1) % RingSize
    BY <1>6, <1>8 DEF Push
  <2>2. head' \in Slots /\ tail' \in Slots /\ head' # tail
        /\ head' = IF head + 1 = RingSize THEN 0 ELSE head + 1
    BY <1>1, <1>6, <1>8, <2>1, NextSlot
  <2>3. Queued' = IF tail <= head' THEN head' - tail ELSE head' - tail + RingSize
    BY <1>6, <2>2, Distance DEF Queued
  <2>4. Queued' = Queued + 1
    BY <1>1, <1>2, <1>3, <2>2, <2>3 DEF Slots
  <2>5. signalled = g.rx + Queued + g.dropped + (lost - seen)
    BY DEF EveryByteAccounted
  <2>6. signalled' = g'.rx + Queued' + g'.dropped + (lost' - seen')
    BY <1>1, <1>3, <1>4, <1>5, <2>1, <2>4, <2>5
  <2> QED BY <2>6 DEF EveryByteAccounted
<1> QED BY <1>7, <1>8

\* Feeding a byte moves it from the queue to the parser.
LEMMA FeedQueued ==
  ASSUME TypeInv, Feed
  PROVE  /\ tail' = IF tail + 1 = RingSize THEN 0 ELSE tail + 1
         /\ tail' \in Slots /\ head' = head
         /\ Queued' = Queued - 1 /\ Queued \in Nat /\ Queued > 0
<1> USE DEF TypeInv, GnssTypeOK
<1>1. tail \in Slots /\ head \in Slots /\ RingSize \in Nat /\ tail # head
  BY GnssAssumption DEF Feed, FeedInv
<1>2. /\ tail' = (IF tail + 1 = RingSize THEN 0 ELSE tail + 1)
      /\ tail' \in Slots /\ head' = head
  BY <1>1, NextSlot DEF Feed
<1>3. Queued' = IF tail' <= head' THEN head' - tail' ELSE head' - tail' + RingSize
  BY <1>1, <1>2, Distance DEF Queued
<1>4. Queued = (IF tail <= head THEN head - tail ELSE head - tail + RingSize) /\ Queued \in Slots
  BY <1>1, QueuedValue
<1> QED BY <1>1, <1>2, <1>3, <1>4 DEF Slots

LEMMA NextAccounted ==
  ASSUME TypeInv, EveryByteAccounted, [Next]_vars
  PROVE  EveryByteAccounted'
<1> USE DEF TypeInv, GnssTypeOK
<1>1. g.rx \in Nat /\ g.dropped \in Nat /\ Queued \in Nat /\ RingSize \in Nat
  BY QueuedValue, GnssAssumption DEF Parser, Slots
<1>2. CASE SysTick \/ TaskBegin \/ CheckLoss \/ ReadSlot \/ UNCHANGED vars
  BY <1>2 DEF SysTick, TaskBegin, CheckLoss, ReadSlot, vars, shared, task, history,
              EveryByteAccounted, Queued
<1>3. CASE Receive
  BY <1>3, ReceiveAccounted
<1>4. CASE ReceiveError
  <2>1. /\ signalled' = signalled + 1 /\ lost' = lost + 1
        /\ UNCHANGED <<g, seen, head, tail>>
    BY <1>4 DEF ReceiveError, Send, task
  <2> QED BY <1>1, <2>1 DEF EveryByteAccounted, Queued
<1>5. CASE Discard
  <2>1. lost - seen + Queued \in Nat
    BY <1>1
  <2>2. g'.rx = g.rx /\ g'.dropped = g.dropped + (lost - seen + Queued)
    BY <1>5, <2>1, LossType DEF Discard
  <2>3. /\ signalled' = signalled /\ lost' = lost /\ seen' = lost
        /\ head' = head /\ tail' = head
    BY <1>5 DEF Discard
  <2>4. Queued' = 0
    BY <2>3, Distance DEF Queued, Slots
  <2> QED BY <1>1, <2>2, <2>3, <2>4 DEF EveryByteAccounted
<1>6. CASE Feed
  <2>1. g'.rx = g.rx + 1 /\ g'.dropped = g.dropped
    BY <1>6, FeedType DEF Feed
  <2>2. UNCHANGED <<signalled, lost, seen>>
    BY <1>6 DEF Feed
  <2>3. Queued' = Queued - 1
    BY <1>6, FeedQueued
  <2>4. lost \in Nat /\ seen \in Nat
    OBVIOUS
  <2> HIDE DEF TypeInv, GnssTypeOK
  <2> QED BY <1>1, <2>1, <2>2, <2>3, <2>4 DEF EveryByteAccounted
<1>7. CASE TaskTick \/ Status
  <2>1. now \in Nat /\ tick \in Nat /\ g \in Parser
    BY GnssAssumption
  <2>2. g' = GnssTick(g, now) \/ g' = GnssTick(g, tick)
    BY <1>7 DEF TaskTick, Status
  <2>3. g'.rx = g.rx /\ g'.dropped = g.dropped
    <3> HIDE DEF TypeInv, GnssTypeOK
    <3> QED BY <2>1, <2>2, TickType DEF SameCounts
  <2>4. UNCHANGED <<signalled, lost, seen, head, tail>>
    BY <1>7 DEF TaskTick, Status, shared, task, history
  <2> QED BY <2>3, <2>4 DEF EveryByteAccounted, Queued
<1> QED BY <1>2, <1>3, <1>4, <1>5, <1>6, <1>7 DEF Next, Interrupts, Task

\* Every byte and every error of the UART is with the parser, in the ring or in the loss
\* counts, exactly once, wherever the interrupt cuts into bench_gnss_task
\* (gnss_stm32.c:16-27 against 55-74), for every size of the ring and every budget.
THEOREM NoByteUncounted == Spec => []EveryByteAccounted
<1>1. Init => TypeInv /\ EveryByteAccounted
  <2>1. Init => EveryByteAccounted
    BY QueuedValue, GnssAssumption DEF Init, EveryByteAccounted, Slots
  <2> QED BY <2>1, InitType
<1>2. TypeInv /\ EveryByteAccounted /\ [Next]_vars => (TypeInv /\ EveryByteAccounted)'
  BY NextType, NextAccounted
<1> QED BY <1>1, <1>2, PTL DEF Spec

-----------------------------------------------------------------------------
(***************************************************************************)
(* The parser gets the bytes in the order of the wire                      *)
(***************************************************************************)
At(i) == ring[(tail + i) % RingSize].n

\* The bytes that wait are those received, in that order.
OrderInv ==
  /\ \A i \in 0 .. Queued - 1 : At(i) < sent
  /\ \A i, j \in 0 .. Queued - 1 : i < j => At(i) < At(j)
  /\ pc = "feed" => slot = ring[tail]

\* The slot of the i-th byte that waits.
LEMMA Position ==
  ASSUME NEW t \in Slots, NEW i \in 0 .. RingSize - 1
  PROVE  /\ (t + i) % RingSize \in Slots
         /\ (t + i) % RingSize = IF t + i < RingSize THEN t + i ELSE t + i - RingSize
<1>1. RingSize \in Nat \ {0} /\ t \in Nat /\ i \in Nat /\ t < RingSize /\ i < RingSize
  BY GnssAssumption DEF Slots
<1>2. CASE t + i < RingSize
  BY <1>1, <1>2, RemainderBelow DEF Slots
<1>3. CASE ~(t + i < RingSize)
  BY <1>1, <1>3, RemainderOnce DEF Slots
<1> QED BY <1>2, <1>3

\* The byte at the head is the one after the last that waits, and no other is there.
LEMMA HeadPosition ==
  ASSUME TypeInv, NEW i \in 0 .. Queued - 1
  PROVE  (tail + i) % RingSize # head /\ (tail + i) % RingSize \in Slots
<1>1. tail \in Slots /\ head \in Slots /\ RingSize \in Nat
  BY GnssAssumption DEF TypeInv, GnssTypeOK
<1>2. Queued = (IF tail <= head THEN head - tail ELSE head - tail + RingSize) /\ Queued \in Slots
  BY <1>1, QueuedValue
<1>3. i \in 0 .. RingSize - 1 /\ i < Queued
  BY <1>1, <1>2 DEF Slots
<1>4. /\ (tail + i) % RingSize \in Slots
      /\ (tail + i) % RingSize = IF tail + i < RingSize THEN tail + i ELSE tail + i - RingSize
  BY <1>1, <1>3, Position
<1> QED BY <1>1, <1>2, <1>3, <1>4 DEF Slots

\* A byte that is queued is later than all that wait, and overwrites none of them.
LEMMA PushOrder ==
  ASSUME TypeInv, OrderInv, Receive, (head + 1) % RingSize # tail
  PROVE  OrderInv'
<1> USE DEF TypeInv, GnssTypeOK
<1>0. RingSize \in Nat /\ Queued \in Slots /\ Queued \in Nat
  BY GnssAssumption, QueuedValue DEF Slots
<1>1. /\ head' = (head + 1) % RingSize /\ head' \in Slots /\ sent' = sent + 1
      /\ UNCHANGED <<tail, pc, slot>>
      /\ ring' = [ring EXCEPT ![head] = [n |-> sent, tick |-> tick, tow |-> tow']]
  BY NextSlot DEF Receive, Push, Send, task
<1>2. Queued' = Queued + 1
  <2>1. Queued' = IF tail <= head' THEN head' - tail ELSE head' - tail + RingSize
    BY <1>1, Distance DEF Queued
  <2>2. head' = IF head + 1 = RingSize THEN 0 ELSE head + 1
    BY <1>1, NextSlot
  <2>3. Queued = IF tail <= head THEN head - tail ELSE head - tail + RingSize
    BY QueuedValue
  <2>4. head \in Slots /\ tail \in Slots /\ head' # tail
    BY <1>1
  <2> HIDE DEF TypeInv, GnssTypeOK
  <2> QED BY <1>0, <2>1, <2>2, <2>3, <2>4 DEF Slots
<1>3. \A i \in 0 .. Queued - 1 : At(i)' = At(i)
  BY <1>1, HeadPosition DEF At
<1>4. ring'[(tail + Queued) % RingSize].n = sent
  <2>1. (tail + Queued) % RingSize = head
    <3>1. Queued = IF tail <= head THEN head - tail ELSE head - tail + RingSize
      BY QueuedValue
    <3>2. (tail + Queued) % RingSize =
            IF tail + Queued < RingSize THEN tail + Queued ELSE tail + Queued - RingSize
      BY <1>0, Position DEF Slots
    <3>3. head \in Slots /\ tail \in Slots
      OBVIOUS
    <3> HIDE DEF TypeInv, GnssTypeOK
    <3> QED BY <1>0, <3>1, <3>2, <3>3 DEF Slots
  <2> QED BY <1>1, <2>1
<1>5. \A i \in 0 .. Queued' - 1 : i \in 0 .. Queued - 1 \/ i = Queued
  BY <1>0, <1>2
<1>6. ASSUME NEW i \in 0 .. Queued' - 1
      PROVE  At(i)' < sent'
  <2>1. CASE i \in 0 .. Queued - 1
    <3>1. At(i) < sent /\ At(i)' = At(i)
      BY <1>3, <2>1 DEF OrderInv
    <3>2. At(i) \in Nat
      BY <2>1, HeadPosition DEF At, Received
    <3> QED BY <1>1, <3>1, <3>2
  <2>2. CASE i = Queued
    BY <1>1, <1>4, <2>2 DEF At
  <2> QED BY <1>5, <2>1, <2>2
<1>7. ASSUME NEW i \in 0 .. Queued' - 1, NEW j \in 0 .. Queued' - 1, i < j
      PROVE  At(i)' < At(j)'
  <2>1. i \in 0 .. Queued - 1 /\ At(i)' = At(i)
    BY <1>0, <1>2, <1>3, <1>7
  <2>2. CASE j \in 0 .. Queued - 1
    BY <1>3, <1>7, <2>1, <2>2 DEF OrderInv
  <2>3. CASE j = Queued
    <3>1. At(j)' = sent
      BY <1>1, <1>4, <2>3 DEF At
    <3> QED BY <2>1, <3>1 DEF OrderInv
  <2> QED BY <1>5, <2>2, <2>3
<1>8. (pc = "feed" => slot = ring[tail])'
  BY <1>1 DEF OrderInv, FeedInv
<1> QED BY <1>6, <1>7, <1>8 DEF OrderInv

\* Releasing the slot of the byte that was fed leaves the others as they are.
LEMMA FeedOrder ==
  ASSUME TypeInv, OrderInv, Feed
  PROVE  OrderInv'
<1> USE DEF TypeInv, GnssTypeOK
<1>1. /\ tail' = (IF tail + 1 = RingSize THEN 0 ELSE tail + 1)
      /\ tail' \in Slots /\ head' = head
      /\ Queued' = Queued - 1 /\ Queued \in Nat /\ Queued > 0
  BY FeedQueued
<1>2. RingSize \in Nat /\ Queued \in Slots /\ tail \in Nat
  BY GnssAssumption, QueuedValue DEF Slots
<1>3. ring' = [ring EXCEPT ![tail] = NoByte] /\ sent' = sent /\ pc' = "drain"
  BY DEF Feed
<1>4. ASSUME NEW i \in 0 .. Queued' - 1
      PROVE  i + 1 \in 0 .. Queued - 1 /\ At(i)' = At(i + 1)
  <2>1. /\ i + 1 \in 0 .. Queued - 1 /\ i \in 0 .. RingSize - 1 /\ i + 1 \in 0 .. RingSize - 1
        /\ i + 1 < RingSize /\ i \in Nat
    BY <1>1, <1>2 DEF Slots
  <2>2. (tail' + i) % RingSize = IF tail' + i < RingSize THEN tail' + i ELSE tail' + i - RingSize
    BY <1>1, <2>1, Position
  <2>3. /\ (tail + (i + 1)) % RingSize =
              IF tail + (i + 1) < RingSize THEN tail + (i + 1) ELSE tail + (i + 1) - RingSize
        /\ (tail + (i + 1)) % RingSize \in Slots
    BY <2>1, Position
  <2>4. (tail' + i) % RingSize = (tail + (i + 1)) % RingSize
    BY <1>1, <1>2, <2>1, <2>2, <2>3 DEF Slots
  <2>5. (tail + (i + 1)) % RingSize # tail
    <3>1. tail < RingSize
      BY <1>2 DEF Slots
    <3> HIDE DEF TypeInv, GnssTypeOK
    <3> QED BY <1>2, <2>1, <2>3, <3>1
  <2> QED BY <1>3, <2>1, <2>3, <2>4, <2>5 DEF At
<1>5. \A i \in 0 .. Queued' - 1 : At(i)' < sent'
  BY <1>3, <1>4 DEF OrderInv
<1>6. ASSUME NEW i \in 0 .. Queued' - 1, NEW j \in 0 .. Queued' - 1, i < j
      PROVE  At(i)' < At(j)'
  <2>1. i + 1 < j + 1
    BY <1>1, <1>6
  <2> QED BY <1>4, <2>1 DEF OrderInv
<1> QED BY <1>3, <1>5, <1>6 DEF OrderInv

LEMMA NextOrder ==
  ASSUME TypeInv, OrderInv, [Next]_vars
  PROVE  OrderInv'
<1> USE DEF TypeInv, GnssTypeOK
<1>1. CASE SysTick \/ TaskBegin \/ CheckLoss \/ ReadSlot \/ TaskTick \/ Status
           \/ UNCHANGED vars
  <2>1. UNCHANGED <<ring, head, tail, sent>>
    BY <1>1 DEF SysTick, TaskBegin, CheckLoss, ReadSlot, TaskTick, Status, vars, shared
  <2>2. (pc = "feed" => slot = ring[tail])'
    BY <1>1, <2>1 DEF SysTick, TaskBegin, CheckLoss, ReadSlot, TaskTick, Status, vars, task,
       OrderInv
  <2> QED BY <2>1, <2>2 DEF OrderInv, At, Queued
<1>2. CASE Receive
  <2>1. CASE (head + 1) % RingSize = tail
    <3>1. UNCHANGED <<ring, head, tail, pc, slot>> /\ sent' = sent + 1
      BY <1>2, <2>1 DEF Receive, Push, Send, task
    <3>2. \A i \in 0 .. Queued - 1 : At(i) \in Nat
      BY HeadPosition DEF At, Received
    <3>3. \A i \in 0 .. Queued - 1 : At(i) < sent'
      BY <3>1, <3>2 DEF OrderInv
    <3> QED BY <3>1, <3>3 DEF OrderInv, At, Queued
  <2> QED BY <1>2, <2>1, PushOrder
<1>3. CASE ReceiveError
  <2>1. UNCHANGED <<ring, head, tail, pc, slot>>
    BY <1>3 DEF ReceiveError, task
  <2>2. PICK n \in 0 .. 2 : sent' = sent + n
    BY <1>3 DEF ReceiveError, Send
  <2>3. \A i \in 0 .. Queued - 1 : At(i) \in Nat
    BY HeadPosition DEF At, Received
  <2>4. \A i \in 0 .. Queued - 1 : At(i) < sent'
    BY <2>2, <2>3 DEF OrderInv
  <2> QED BY <2>1, <2>4 DEF OrderInv, At, Queued
<1>4. CASE Discard
  <2>1. head' = head /\ tail' = head /\ pc' = "drain"
    BY <1>4 DEF Discard
  <2>2. Queued' = 0
    BY <2>1, Distance DEF Queued, Slots
  <2> QED BY <2>1, <2>2 DEF OrderInv
<1>5. CASE Feed
  BY <1>5, FeedOrder
<1> QED BY <1>1, <1>2, <1>3, <1>4, <1>5 DEF Next, Interrupts, Task

\* For every size of the ring, a full ring and a discarded queue included, the task gets
\* the bytes in the order of the wire, none twice and none that was overwritten
\* (gnss_stm32.c:23-25 against 71).
THEOREM BytesInOrder == Spec => []RingInOrder
<1>1. Init => TypeInv /\ OrderInv
  <2>1. Init => Queued = 0 /\ pc = "idle"
    BY QueuedValue, GnssAssumption DEF Init, Slots
  <2>2. Init => OrderInv
    BY <2>1 DEF OrderInv
  <2> QED BY <2>2, InitType
<1>2. TypeInv /\ OrderInv /\ [Next]_vars => (TypeInv /\ OrderInv)'
  BY NextType, NextOrder
<1>3. TypeInv /\ OrderInv => RingInOrder
  <2> SUFFICES ASSUME TypeInv, OrderInv PROVE RingInOrder
    OBVIOUS
  <2>1. \A i, j \in 0 .. Queued - 1 :
          i < j => ring[(tail + i) % RingSize].n < ring[(tail + j) % RingSize].n
    BY DEF OrderInv, At
  <2>2. pc = "feed" => Queued > 0 /\ slot = ring[tail]
    BY QueuedValue, GnssAssumption DEF OrderInv, TypeInv, GnssTypeOK, FeedInv, Slots
  <2> QED BY <2>1, <2>2 DEF RingInOrder
<1> QED BY <1>1, <1>2, <1>3, PTL DEF Spec
-----------------------------------------------------------------------------
(***************************************************************************)
(* Fresh is new                                                            *)
(*                                                                         *)
(* An iTOW is ahead of another when it is at most half a week further, so  *)
(* the parser can order the epochs it was given only when all of them lie  *)
(* within half a week: then they have an offset from the earliest of them. *)
(***************************************************************************)
TowsInHalfAWeek ==
  \E start \in 0 .. Week - 1 :
    \A t \in Tows : t < Week => (t - start) % Week < (Week + 1) \div 2

Start ==
  CHOOSE start \in 0 .. Week - 1 :
    \A t \in Tows : t < Week => (t - start) % Week < (Week + 1) \div 2

Offset(t) == (t - Start) % Week

Ahead(epoch, last) == (epoch - last) % Week \in 1 .. (Week + 1) \div 2 - 1

LEMMA OffsetValue ==
  ASSUME TowsInHalfAWeek, NEW t \in Tows, t < Week
  PROVE  /\ Start \in 0 .. Week - 1 /\ t \in 0 .. Week - 1
         /\ Offset(t) = IF Start <= t THEN t - Start ELSE t - Start + Week
         /\ Offset(t) \in 0 .. (Week + 1) \div 2 - 1
<1>0. Week \in Nat \ {0} /\ Week >= 2 /\ t \in Nat
  BY GnssAssumption
<1>1. Start \in 0 .. Week - 1 /\ (t - Start) % Week < (Week + 1) \div 2
  BY DEF TowsInHalfAWeek, Start
<1>2. CASE Start <= t
  <2>1. t - Start \in 0 .. Week - 1
    BY <1>0, <1>1, <1>2
  <2>2. Offset(t) = t - Start
    BY <1>0, <2>1, RemainderBelow DEF Offset
  <2> QED BY <1>0, <1>1, <1>2, <2>1, <2>2 DEF Offset
<1>3. CASE ~(Start <= t)
  <2>1. t - Start \in -Week .. -1
    BY <1>0, <1>1, <1>3
  <2>2. Offset(t) = t - Start + Week
    BY <1>0, <2>1, RemainderNegative DEF Offset
  <2> QED BY <1>0, <1>1, <1>3, <2>1, <2>2 DEF Offset
<1> QED BY <1>2, <1>3

\* Within half a week, ahead means later.
LEMMA AheadIsLater ==
  ASSUME TowsInHalfAWeek, NEW e \in Tows, NEW l \in Tows, e < Week, l < Week
  PROVE  Ahead(e, l) <=> Offset(e) > Offset(l)
<1> DEFINE half == (Week + 1) \div 2
<1>0. /\ Week \in Nat \ {0} /\ half \in Nat /\ 2 * half <= Week + 1
      /\ Start \in 0 .. Week - 1 /\ e \in 0 .. Week - 1 /\ l \in 0 .. Week - 1
  BY GnssAssumption, OffsetValue
<1>1. /\ Offset(e) = IF Start <= e THEN e - Start ELSE e - Start + Week
      /\ Offset(l) = IF Start <= l THEN l - Start ELSE l - Start + Week
      /\ Offset(e) \in 0 .. half - 1 /\ Offset(l) \in 0 .. half - 1
  BY OffsetValue
<1>2. (e - l) % Week = IF l <= e THEN e - l ELSE e - l + Week
  <2>1. CASE l <= e
    <3>1. e - l \in 0 .. Week - 1
      BY <1>0, <2>1
    <3> QED BY <1>0, <2>1, <3>1, RemainderBelow
  <2>2. CASE ~(l <= e)
    <3>1. e - l \in -Week .. -1
      BY <1>0, <2>2
    <3> QED BY <1>0, <2>2, <3>1, RemainderNegative
  <2> QED BY <2>1, <2>2
<1>3. Ahead(e, l) <=> (e - l) % Week \in 1 .. half - 1
  BY DEF Ahead
<1> HIDE DEF half
<1> QED BY <1>0, <1>1, <1>2, <1>3

-----------------------------------------------------------------------------
(***************************************************************************)
(* What the parser does to the epoch                                       *)
(***************************************************************************)
SameEpoch(p, q) ==
  /\ q.good = p.good /\ q.haveEpoch = p.haveEpoch /\ q.lastEpoch = p.lastEpoch
  /\ q.epochMs = p.epochMs /\ q.current = p.current

\* A message was accepted: its epoch is a new one, or the last one again, or makes the
\* solution stale.
Counted(p, q, epoch, t) ==
  /\ q.good = p.good + 1
  /\ \/ /\ epoch < Week /\ (p.haveEpoch => Ahead(epoch, p.lastEpoch))
        /\ q.haveEpoch /\ q.lastEpoch = epoch /\ q.epochMs = t /\ q.current
     \/ /\ epoch < Week /\ p.haveEpoch /\ epoch = p.lastEpoch /\ q.current = p.current
        /\ q.haveEpoch /\ q.lastEpoch = p.lastEpoch /\ q.epochMs = p.epochMs
     \/ /\ epoch < Week => p.haveEpoch /\ ~Ahead(epoch, p.lastEpoch)
        /\ q.haveEpoch = p.haveEpoch /\ q.lastEpoch = p.lastEpoch /\ ~q.current

SameButCurrent(p, q) ==
  /\ q.good = p.good /\ q.haveEpoch = p.haveEpoch /\ q.lastEpoch = p.lastEpoch /\ ~q.current

LEMMA ResetEpoch ==
  ASSUME NEW p \in Full
  PROVE  SameEpoch(p, Reset(p)) /\ Reset(p).fresh = p.fresh
BY DEF SameEpoch, Reset, Full

LEMMA TickEpoch ==
  ASSUME NEW p \in Parser, NEW t \in Nat
  PROVE  /\ SameEpoch(p, GnssTick(p, t))
         /\ GnssTick(p, t).fresh => p.current /\ Since(t, p.epochMs) <= FreshFor
<1> DEFINE late == p.used > 0 /\ Since(t, p.lastByte) > Timeout
           q == IF late THEN [Reset(p) EXCEPT !.timeouts = @ + 1] ELSE p
           f == /\ p.pvt /\ p.current
                /\ Since(t, p.pvtMs) <= FreshFor /\ Since(t, p.epochMs) <= FreshFor
<1>1. Reset(p) \in Parser /\ SameEpoch(p, Reset(p))
  BY ResetType, ResetEpoch, ParserIsFull
<1>2. q \in Parser /\ SameEpoch(p, q)
  BY <1>1 DEF Parser, SameEpoch
<1>3. GnssTick(p, t) = [q EXCEPT !.fresh = f]
  BY DEF GnssTick
<1> HIDE DEF q
<1> QED BY <1>2, <1>3 DEF Parser, SameEpoch

LEMMA ByteEpoch ==
  ASSUME NEW p \in Parser, NEW n \in Nat
  PROVE  SameEpoch(p, Byte(p, n)) /\ Byte(p, n).fresh = p.fresh
<1>1. SameEpoch(p, Reset(p)) /\ Reset(p).fresh = p.fresh
  BY ParserIsFull, ResetEpoch
<1>2. CASE p.used = 0 \/ (p.used = 1 /\ n % PacketLen # 1)
  <2>1. \/ Byte(p, n) = [p EXCEPT !.used = 1, !.first = n, !.whole = TRUE]
        \/ Byte(p, n) = Reset(p)
    BY <1>2 DEF Byte
  <2> QED BY <1>1, <2>1 DEF SameEpoch, Parser
<1>3. CASE ~(p.used = 0 \/ (p.used = 1 /\ n % PacketLen # 1))
  <2>1. Byte(p, n) = [p EXCEPT !.used = @ + 1, !.whole = @ /\ n = p.first + p.used]
    BY <1>3 DEF Byte
  <2> QED BY <2>1 DEF SameEpoch, Parser
<1> QED BY <1>2, <1>3

LEMMA MessageEpoch ==
  ASSUME NEW p \in Full, NEW epoch \in Nat, NEW t \in Nat
  PROVE  Counted(p, Message(p, epoch, t), epoch, t)
<1> DEFINE q == [p EXCEPT !.good = @ + 1, !.pvt = TRUE, !.pvtMs = t]
<1>0. /\ q.good = p.good + 1 /\ q.haveEpoch = p.haveEpoch /\ q.lastEpoch = p.lastEpoch
      /\ q.epochMs = p.epochMs /\ q.current = p.current
      /\ DOMAIN q = DOMAIN p
  BY DEF Full
<1>1. Message(p, epoch, t) =
        IF epoch >= Week THEN [q EXCEPT !.current = FALSE]
        ELSE IF Newer(p, epoch)
        THEN [q EXCEPT !.lastEpoch = epoch, !.haveEpoch = TRUE, !.epochMs = t, !.current = TRUE]
        ELSE IF epoch = p.lastEpoch THEN q
        ELSE [q EXCEPT !.current = FALSE]
  BY DEF Message
<1>2. Newer(p, epoch) <=> (p.haveEpoch => Ahead(epoch, p.lastEpoch))
  BY DEF Newer, Ahead
<1>3. Week \in Nat
  BY GnssAssumption
<1>4. q \in Full
  <2> DEFINE a == [p EXCEPT !.good = p.good + 1]
             b == [a EXCEPT !.pvt = TRUE]
  <2>1. a \in Full
    BY DEF Full
  <2> HIDE DEF a
  <2>2. b \in Full
    BY <2>1 DEF Full
  <2>3. q = [b EXCEPT !.pvtMs = t]
    BY DEF a
  <2> HIDE DEF b, q
  <2> QED BY <2>2, <2>3 DEF Full
<1> HIDE DEF q
<1>5. CASE epoch >= Week
  <2>1. Message(p, epoch, t) = [q EXCEPT !.current = FALSE]
    BY <1>1, <1>5
  <2>2. SameButCurrent(q, Message(p, epoch, t))
    BY <1>4, <2>1 DEF Full, SameButCurrent
  <2>3. ~(epoch < Week)
    BY <1>3, <1>5
  <2> QED BY <1>0, <2>2, <2>3 DEF Counted, SameButCurrent
<1>6. CASE ~(epoch >= Week) /\ Newer(p, epoch)
  <2>1. Message(p, epoch, t) =
          [q EXCEPT !.lastEpoch = epoch, !.haveEpoch = TRUE, !.epochMs = t, !.current = TRUE]
    BY <1>1, <1>6
  <2>2. /\ Message(p, epoch, t).good = q.good /\ Message(p, epoch, t).haveEpoch
        /\ Message(p, epoch, t).lastEpoch = epoch /\ Message(p, epoch, t).epochMs = t
        /\ Message(p, epoch, t).current
    BY <1>4, <2>1 DEF Full
  <2>3. epoch < Week /\ (p.haveEpoch => Ahead(epoch, p.lastEpoch))
    BY <1>2, <1>3, <1>6
  <2>4. Message(p, epoch, t).good = p.good + 1
    BY <1>0, <2>2
  <2> QED BY <2>2, <2>3, <2>4 DEF Counted
<1>7. CASE ~(epoch >= Week) /\ ~Newer(p, epoch) /\ epoch = p.lastEpoch
  <2>1. Message(p, epoch, t) = q
    BY <1>1, <1>7
  <2> QED BY <1>0, <1>2, <1>3, <1>7, <2>1 DEF Counted
<1>8. CASE ~(epoch >= Week) /\ ~Newer(p, epoch) /\ epoch # p.lastEpoch
  <2>1. Message(p, epoch, t) = [q EXCEPT !.current = FALSE]
    BY <1>1, <1>8
  <2>2. SameButCurrent(q, Message(p, epoch, t))
    BY <1>4, <2>1 DEF Full, SameButCurrent
  <2> QED BY <1>0, <1>2, <1>3, <1>8, <2>2 DEF Counted, SameButCurrent
<1> QED BY <1>5, <1>6, <1>7, <1>8

\* A byte leaves the epoch alone, or ends a packet that counts.
LEMMA FeedEpoch ==
  ASSUME NEW p \in Parser, NEW byte \in Received
  PROVE  /\ \/ SameEpoch(p, GnssFeed(p, byte))
            \/ Counted(p, GnssFeed(p, byte), byte.tow, byte.tick)
         /\ GnssFeed(p, byte).fresh => GnssFeed(p, byte).current
<1> DEFINE h == GnssTick(p, byte.tick)
           q == [h EXCEPT !.rx = @ + 1, !.lastByte = byte.tick]
           r == Byte(q, byte.n)
           m == IF r.whole THEN Message(r, byte.tow, byte.tick) ELSE r
<1>1. byte.tick \in Nat /\ byte.n \in Nat /\ byte.tow \in Nat
  BY GnssAssumption DEF Received
<1>2. h \in Parser /\ SameEpoch(p, h) /\ (h.fresh => h.current)
  BY <1>1, TickType, TickEpoch DEF SameEpoch
<1> HIDE DEF h
<1>3. q \in Parser /\ SameEpoch(p, q) /\ (q.fresh => q.current)
  <2> DEFINE a == [h EXCEPT !.rx = h.rx + 1]
  <2>1. a \in Parser /\ SameEpoch(p, a) /\ (a.fresh => a.current)
    BY <1>2 DEF Parser, SameEpoch
  <2>2. q = [a EXCEPT !.lastByte = byte.tick]
    OBVIOUS
  <2> HIDE DEF a, q
  <2> QED BY <1>1, <2>1, <2>2 DEF Parser, SameEpoch
<1> HIDE DEF q
<1>4. r \in Full /\ SameEpoch(p, r) /\ (r.fresh => r.current)
  BY <1>1, <1>3, ByteType, ByteEpoch DEF SameEpoch
<1> HIDE DEF r
<1>5. m \in Full /\ (SameEpoch(p, m) \/ Counted(p, m, byte.tow, byte.tick))
  <2>1. Message(r, byte.tow, byte.tick) \in Full
    BY <1>1, <1>4, MessageType
  <2>2. Counted(r, Message(r, byte.tow, byte.tick), byte.tow, byte.tick)
    BY <1>1, <1>4, MessageEpoch
  <2>3. Counted(p, Message(r, byte.tow, byte.tick), byte.tow, byte.tick)
    BY <1>4, <2>2 DEF Counted, SameEpoch
  <2> QED BY <1>4, <2>1, <2>3
<1> HIDE DEF m
<1>6. Reset(m) \in Parser /\ SameEpoch(m, Reset(m))
  BY <1>5, ResetType, ResetEpoch
<1> DEFINE k == GnssTick(Reset(m), byte.tick)
<1>7. SameEpoch(Reset(m), k) /\ (k.fresh => k.current)
  BY <1>1, <1>6, TickEpoch DEF SameEpoch
<1> HIDE DEF k
<1>8. SameEpoch(m, k)
  BY <1>6, <1>7 DEF SameEpoch
<1>9. SameEpoch(p, k) \/ Counted(p, k, byte.tow, byte.tick)
  BY <1>5, <1>8 DEF SameEpoch, Counted
<1>10. GnssFeed(p, byte) = IF r.used # PacketLen THEN r ELSE k
  BY DEF GnssFeed, h, q, r, m, k
<1> QED BY <1>4, <1>7, <1>9, <1>10

-----------------------------------------------------------------------------
(***************************************************************************)
(* Every byte that waits carries an iTOW of the receiver and its time      *)
(***************************************************************************)
Waiting(s) == IF tail <= head THEN tail <= s /\ s < head ELSE tail <= s \/ s < head

StampInv ==
  /\ sent > 0 => tow \in Tows
  /\ \A s \in Slots : Waiting(s) => ring[s].tow \in Tows /\ ring[s].tick <= tick
  /\ pc = "feed" => slot = ring[tail]

\* The byte the task holds is one that waits.
LEMMA HeldByte ==
  ASSUME TypeInv, StampInv, pc = "feed"
  PROVE  slot \in Received /\ slot.tow \in Tows /\ slot.tick \in Nat /\ slot.tick <= tick
<1>1. tail \in Slots /\ head \in Slots /\ tail # head /\ slot \in Received
  BY DEF TypeInv, GnssTypeOK, FeedInv
<1>2. Waiting(tail)
  BY <1>1, GnssAssumption DEF Waiting, Slots
<1>3. slot.tick \in Nat
  BY <1>1, GnssAssumption DEF Received
<1> QED BY <1>1, <1>2, <1>3 DEF StampInv

LEMMA InitStamp == Init => StampInv
BY DEF Init, StampInv, Waiting

LEMMA NextStamp ==
  ASSUME TypeInv, StampInv, [Next]_vars
  PROVE  StampInv'
<1>0. /\ tail \in Slots /\ head \in Slots /\ RingSize \in Nat /\ RingSize >= 2
      /\ tick \in Nat /\ sent \in Nat /\ Tows \subseteq Nat
      /\ ring \in [Slots -> Received] /\ (pc = "feed" => tail # head)
  BY GnssAssumption DEF TypeInv, GnssTypeOK, FeedInv
<1>1. CASE SysTick
  <2>1. UNCHANGED <<sent, tow, ring, head, tail, pc, slot>> /\ tick' = tick + 1
    BY <1>1 DEF SysTick, shared, task
  <2>2. \A s \in Slots : ring[s].tick \in Nat
    BY <1>0, GnssAssumption DEF Received
  <2>3. \A s \in Slots : Waiting(s) => ring[s].tow \in Tows /\ ring[s].tick <= tick'
    BY <1>0, <2>1, <2>2 DEF StampInv
  <2> QED BY <2>1, <2>3 DEF StampInv, Waiting
<1>2. CASE TaskBegin \/ CheckLoss \/ TaskTick \/ Status \/ UNCHANGED vars
  <2>1. UNCHANGED <<tick, sent, tow, ring, head, tail, slot>> /\ (pc' = "feed" => pc = "feed")
    BY <1>2 DEF TaskBegin, CheckLoss, TaskTick, Status, vars, shared, task
  <2> QED BY <2>1 DEF StampInv, Waiting
<1>3. CASE ReadSlot
  <2>1. UNCHANGED <<tick, sent, tow, ring, head, tail>> /\ slot' = ring[tail]
    BY <1>3 DEF ReadSlot, shared
  <2> QED BY <2>1 DEF StampInv, Waiting
<1>4. ASSUME NEW n \in 0 .. 2, Send(n)
      PROVE  /\ sent' > 0 => tow' \in Tows
             /\ n > 0 => sent' > 0
  <2>1. sent' = sent + n
    BY <1>4 DEF Send
  <2>2. CASE \E i \in sent .. sent + n - 1 : i % PacketLen = 0
    BY <1>0, <1>4, <2>1, <2>2 DEF Send
  <2>3. CASE ~\E i \in sent .. sent + n - 1 : i % PacketLen = 0
    <3>1. tow' = tow
      BY <1>4, <2>3 DEF Send
    <3>2. sent = 0 => n = 0
      <4>1. 0 % PacketLen = 0
        <5>1. PacketLen \in Nat \ {0} /\ 0 \in 0 .. PacketLen - 1
          BY GnssAssumption
        <5> QED BY <5>1, RemainderBelow
      <4> QED BY <2>3, <4>1
    <3> QED BY <1>0, <2>1, <3>1, <3>2 DEF StampInv
  <2> QED BY <2>2, <2>3
<1>5. CASE Receive
  <2>1. /\ sent' > 0 /\ tow' \in Tows
        /\ UNCHANGED <<tick, tail, pc, slot>>
    BY <1>4, <1>5 DEF Receive, Push, task
  <2>2. CASE (head + 1) % RingSize = tail
    <3>1. UNCHANGED <<ring, head>>
      BY <1>5, <2>2 DEF Receive, Push
    <3> QED BY <2>1, <3>1 DEF StampInv, Waiting
  <2>3. CASE (head + 1) % RingSize # tail
    <3>1. /\ ring' = [ring EXCEPT ![head] = [n |-> sent, tick |-> tick, tow |-> tow']]
          /\ head' = (IF head + 1 = RingSize THEN 0 ELSE head + 1)
          /\ head' # tail
      BY <1>0, <1>5, <2>3, NextSlot DEF Receive, Push
    <3>2. ASSUME NEW s \in Slots, Waiting(s)'
          PROVE  ring'[s].tow \in Tows /\ ring'[s].tick <= tick
      <4>1. CASE s = head
        BY <1>0, <2>1, <3>1, <4>1
      <4>2. CASE s # head
        <5>1. Waiting(s)
          BY <1>0, <2>1, <3>1, <3>2, <4>2 DEF Waiting, Slots
        <5> QED BY <1>0, <3>1, <4>2, <5>1 DEF StampInv
      <4> QED BY <4>1, <4>2
    <3>3. pc = "feed" => slot = ring'[tail]
      BY <1>0, <3>1 DEF StampInv
    <3> QED BY <2>1, <3>2, <3>3 DEF StampInv
  <2> QED BY <2>2, <2>3
<1>6. CASE ReceiveError
  <2>1. sent' > 0 => tow' \in Tows
    BY <1>4, <1>6 DEF ReceiveError
  <2>2. UNCHANGED <<tick, ring, head, tail, pc, slot>>
    BY <1>6 DEF ReceiveError, task
  <2> QED BY <2>1, <2>2 DEF StampInv, Waiting
<1>7. CASE Discard
  <2>1. UNCHANGED <<tick, sent, tow, head>> /\ tail' = head /\ pc' = "drain"
    BY <1>7 DEF Discard
  <2>2. \A s \in Slots : ~Waiting(s)'
    BY <1>0, <2>1 DEF Waiting, Slots
  <2> QED BY <2>1, <2>2 DEF StampInv
<1>8. CASE Feed
  <2>1. /\ UNCHANGED <<tick, sent, tow, head>> /\ pc' = "drain" /\ tail # head
        /\ tail' = (IF tail + 1 = RingSize THEN 0 ELSE tail + 1)
        /\ ring' = [ring EXCEPT ![tail] = NoByte]
    BY <1>0, <1>8, NextSlot DEF Feed
  <2>2. ASSUME NEW s \in Slots, Waiting(s)'
        PROVE  Waiting(s) /\ s # tail
    BY <1>0, <2>1, <2>2 DEF Waiting, Slots
  <2>3. \A s \in Slots : Waiting(s)' => ring'[s].tow \in Tows /\ ring'[s].tick <= tick
    BY <1>0, <2>1, <2>2 DEF StampInv
  <2> QED BY <2>1, <2>3 DEF StampInv
<1> QED BY <1>1, <1>2, <1>3, <1>5, <1>6, <1>7, <1>8 DEF Next, Interrupts, Task

-----------------------------------------------------------------------------
(***************************************************************************)
(* The epoch of the parser is the latest of those accepted                 *)
(***************************************************************************)
Latest(i) ==
  /\ accepted[i].epoch = g.lastEpoch /\ accepted[i].at = g.epochMs
  /\ accepted[i].losses = losses
  /\ \A j \in 1 .. i - 1 : accepted[j].epoch # accepted[i].epoch
  /\ \A j \in i + 1 .. Len(accepted) : accepted[j].epoch = accepted[i].epoch

HistoryInv ==
  \A i \in DOMAIN accepted : accepted[i].epoch \in Tows /\ accepted[i].at <= tick

LastInv ==
  /\ g.haveEpoch =>
       /\ g.lastEpoch \in Tows /\ g.lastEpoch < Week
       /\ \A i \in DOMAIN accepted :
            accepted[i].epoch < Week => Offset(accepted[i].epoch) <= Offset(g.lastEpoch)
  /\ ~g.haveEpoch => \A i \in DOMAIN accepted : accepted[i].epoch >= Week

CurrentInv == g.current => g.haveEpoch /\ \E i \in DOMAIN accepted : Latest(i)

FreshInv == pc \in {"idle", "check", "discard"} => (g.fresh => g.current)

EpochInv == HistoryInv /\ LastInv /\ CurrentInv /\ FreshInv

LEMMA InitEpoch == Init => EpochInv
BY DEF Init, EpochInv, HistoryInv, LastInv, CurrentInv, FreshInv

LEMMA AcceptedEntries ==
  ASSUME TypeInv
  PROVE  /\ Len(accepted) \in Nat /\ DOMAIN accepted = 1 .. Len(accepted)
         /\ \A i \in DOMAIN accepted : accepted[i].epoch \in Nat /\ accepted[i].at \in Nat
<1> DEFINE Entries == [epoch : Nat, at : Nat, losses : Nat]
<1>1. accepted \in Seq(Entries)
  BY DEF TypeInv, GnssTypeOK
<1>2. \A x \in Entries : x.epoch \in Nat /\ x.at \in Nat
  OBVIOUS
<1> HIDE DEF Entries
<1> QED BY <1>1, <1>2

\* What the history is when one is added.
LEMMA Appended ==
  ASSUME NEW n, n = Len(accepted), TypeInv, NEW x, accepted' = Append(accepted, x)
  PROVE  /\ n \in Nat
         /\ DOMAIN accepted = 1 .. n /\ DOMAIN accepted' = 1 .. n + 1
         /\ Len(accepted') = n + 1
         /\ \A i \in 1 .. n : accepted'[i] = accepted[i]
         /\ accepted'[n + 1] = x
<1> DEFINE Entries == [epoch : Nat, at : Nat, losses : Nat] \cup {x}
<1>1. accepted \in Seq([epoch : Nat, at : Nat, losses : Nat])
  BY DEF TypeInv, GnssTypeOK
<1>2. accepted \in Seq(Entries)
  <2> DEFINE Old == [epoch : Nat, at : Nat, losses : Nat]
  <2>1. accepted \in Seq(Old) /\ Old \subseteq Entries
    BY <1>1
  <2> HIDE DEF Old, Entries
  <2> QED BY <2>1
<1>3. x \in Entries
  OBVIOUS
<1> HIDE DEF Entries
<1> QED BY <1>2, <1>3

\* Nothing happens to the epoch: only the order of what was accepted matters.
LEMMA SameStays ==
  ASSUME TypeInv, HistoryInv, LastInv, CurrentInv, tick' \in Nat, tick' >= tick,
         accepted' = accepted, losses' = losses, SameEpoch(g, g')
  PROVE  HistoryInv' /\ LastInv' /\ CurrentInv'
<1>1. \A i \in DOMAIN accepted : accepted[i].at \in Nat
  BY AcceptedEntries
<1>2. tick \in Nat
  BY GnssAssumption DEF TypeInv, GnssTypeOK
<1>3. HistoryInv'
  BY <1>1, <1>2 DEF HistoryInv
<1> HIDE DEF TypeInv
<1>4. LastInv'
  BY DEF LastInv, SameEpoch
<1>5. CurrentInv'
  BY DEF CurrentInv, Latest, SameEpoch
<1> QED BY <1>3, <1>4, <1>5

LEMMA CountedStays ==
  ASSUME TowsInHalfAWeek, TypeInv, HistoryInv, LastInv, CurrentInv, tick' = tick,
         losses' = losses, NEW epoch \in Tows, NEW t \in Nat, t <= tick,
         accepted' = Append(accepted, [epoch |-> epoch, at |-> t, losses |-> losses]),
         Counted(g, g', epoch, t)
  PROVE  HistoryInv' /\ LastInv' /\ CurrentInv'
<1> PICK n \in Nat : n = Len(accepted)
  BY AcceptedEntries
<1> DEFINE e == [epoch |-> epoch, at |-> t, losses |-> losses]
<1>0. Week \in Nat /\ Tows \subseteq Nat /\ epoch \in Nat
  BY GnssAssumption
<1>1. /\ DOMAIN accepted = 1 .. n /\ DOMAIN accepted' = 1 .. n + 1 /\ Len(accepted') = n + 1
      /\ \A i \in 1 .. n : accepted'[i] = accepted[i]
      /\ accepted'[n + 1] = e
  BY Appended
<1>2. \A i \in 1 .. n + 1 : i \in 1 .. n \/ i = n + 1
  BY <1>0
<1>3. \A i \in 1 .. n : accepted[i].epoch \in Tows /\ accepted[i].epoch \in Nat
  BY <1>0, <1>1 DEF HistoryInv
<1>4. HistoryInv'
  BY <1>1, <1>2 DEF HistoryInv
<1>5. CASE /\ epoch < Week /\ (g.haveEpoch => Ahead(epoch, g.lastEpoch))
           /\ g'.haveEpoch /\ g'.lastEpoch = epoch /\ g'.epochMs = t /\ g'.current
  <2>1. \A i \in 1 .. n :
          accepted[i].epoch < Week => Offset(accepted[i].epoch) < Offset(epoch)
    <3>1. CASE g.haveEpoch
      <4>1. g.lastEpoch \in Tows /\ g.lastEpoch < Week
        BY <3>1 DEF LastInv
      <4>2. Offset(g.lastEpoch) < Offset(epoch)
        BY <1>5, <3>1, <4>1, AheadIsLater
      <4>3. Offset(g.lastEpoch) \in Int /\ Offset(epoch) \in Int
        BY <1>5, <4>1, OffsetValue
      <4>4. ASSUME NEW i \in 1 .. n, accepted[i].epoch < Week
            PROVE  Offset(accepted[i].epoch) < Offset(epoch)
        <5>1. Offset(accepted[i].epoch) \in Int
          BY <1>3, <4>4, OffsetValue
        <5>2. Offset(accepted[i].epoch) <= Offset(g.lastEpoch)
          BY <1>1, <3>1, <4>4 DEF LastInv
        <5> QED BY <4>2, <4>3, <5>1, <5>2
      <4> QED BY <4>4
    <3>2. CASE ~g.haveEpoch
      <4>1. \A i \in 1 .. n : accepted[i].epoch >= Week /\ accepted[i].epoch \in Nat
        BY <1>1, <1>3, <3>2 DEF LastInv
      <4> QED BY <1>0, <4>1
    <3> QED BY <3>1, <3>2
  <2>2. Offset(epoch) \in Int
    BY <1>5, OffsetValue
  <2>3. \A i \in 1 .. n : accepted[i].epoch # epoch
    <3>1. SUFFICES ASSUME NEW i \in 1 .. n, accepted[i].epoch = epoch
                   PROVE  FALSE
      OBVIOUS
    <3>2. Offset(epoch) < Offset(epoch)
      BY <1>5, <2>1, <3>1
    <3> QED BY <2>2, <3>2
  <2>4. ASSUME NEW i \in 1 .. n + 1, accepted'[i].epoch < Week
        PROVE  Offset(accepted'[i].epoch) <= Offset(epoch)
    <3>1. CASE i \in 1 .. n
      <4>1. Offset(accepted[i].epoch) \in Int
        BY <1>1, <1>3, <2>4, <3>1, OffsetValue
      <4> QED BY <1>1, <2>1, <2>2, <2>4, <3>1, <4>1
    <3>2. CASE i = n + 1
      BY <1>1, <2>2, <3>2
    <3> QED BY <1>2, <3>1, <3>2
  <2>5. LastInv'
    BY <1>1, <1>5, <2>4 DEF LastInv
  <2>6. Latest(n + 1)'
    <3>1. \A j \in 1 .. n + 1 - 1 : accepted'[j].epoch # epoch
      BY <1>0, <1>1, <2>3
    <3>2. \A j \in n + 1 + 1 .. Len(accepted') : FALSE
      BY <1>0, <1>1
    <3>3. /\ accepted'[n + 1].epoch = epoch /\ accepted'[n + 1].at = t
          /\ accepted'[n + 1].losses = losses
      BY <1>1
    <3> HIDE DEF e
    <3> QED BY <1>5, <3>1, <3>2, <3>3 DEF Latest
  <2>7. n + 1 \in DOMAIN accepted'
    BY <1>0, <1>1
  <2>8. CurrentInv'
    <3> HIDE DEF Latest
    <3>1. \E i \in DOMAIN accepted' : Latest(i)'
      BY <2>6, <2>7
    <3> QED BY <1>5, <3>1 DEF CurrentInv
  <2> QED BY <1>4, <2>5, <2>8
<1>6. CASE /\ epoch < Week /\ g.haveEpoch /\ epoch = g.lastEpoch /\ g'.current = g.current
           /\ g'.haveEpoch /\ g'.lastEpoch = g.lastEpoch /\ g'.epochMs = g.epochMs
  <2>1. Offset(epoch) \in Int
    BY <1>6, OffsetValue
  <2>2. ASSUME NEW i \in 1 .. n + 1, accepted'[i].epoch < Week
        PROVE  Offset(accepted'[i].epoch) <= Offset(g'.lastEpoch)
    BY <1>1, <1>2, <1>6, <2>1, <2>2 DEF LastInv
  <2>3. LastInv'
    BY <1>1, <1>6, <2>2 DEF LastInv
  <2>4. ASSUME NEW i \in DOMAIN accepted, Latest(i)
        PROVE  Latest(i)'
    <3>1. i \in 1 .. n /\ accepted'[i] = accepted[i]
      BY <1>1
    <3>2. \A j \in 1 .. i - 1 : j \in 1 .. n
      BY <1>0, <3>1
    <3>3. \A j \in i + 1 .. n + 1 : j \in i + 1 .. n \/ j = n + 1
      BY <1>0, <3>1
    <3>4. \A j \in i + 1 .. n : j \in 1 .. n
      BY <1>0, <3>1
    <3>5. \A j \in 1 .. i - 1 : accepted'[j].epoch # accepted'[i].epoch
      BY <1>1, <2>4, <3>1, <3>2 DEF Latest
    <3>6. \A j \in i + 1 .. n + 1 : accepted'[j].epoch = accepted'[i].epoch
      BY <1>1, <1>6, <2>4, <3>1, <3>3, <3>4 DEF Latest
    <3> QED BY <1>1, <1>6, <2>4, <3>1, <3>5, <3>6 DEF Latest
  <2>5. CurrentInv'
    BY <1>0, <1>1, <1>6, <2>4 DEF CurrentInv
  <2> QED BY <1>4, <2>3, <2>5
<1>7. CASE /\ epoch < Week => g.haveEpoch /\ ~Ahead(epoch, g.lastEpoch)
           /\ g'.haveEpoch = g.haveEpoch /\ g'.lastEpoch = g.lastEpoch /\ ~g'.current
  <2>1. ASSUME g.haveEpoch, NEW i \in 1 .. n + 1, accepted'[i].epoch < Week
        PROVE  Offset(accepted'[i].epoch) <= Offset(g.lastEpoch)
    <3>1. CASE i \in 1 .. n
      BY <1>1, <2>1, <3>1 DEF LastInv
    <3>2. CASE i = n + 1
      <4>1. epoch < Week /\ accepted'[i].epoch = epoch
        BY <1>1, <2>1, <3>2
      <4>2. g.lastEpoch \in Tows /\ g.lastEpoch < Week
        BY <2>1 DEF LastInv
      <4>3. ~(Offset(epoch) > Offset(g.lastEpoch))
        BY <1>7, <4>1, <4>2, AheadIsLater
      <4>4. Offset(epoch) \in Int /\ Offset(g.lastEpoch) \in Int
        BY <4>1, <4>2, OffsetValue
      <4>5. Offset(epoch) <= Offset(g.lastEpoch)
        BY <4>3, <4>4
      <4> HIDE DEF Offset
      <4> QED BY <4>1, <4>5
    <3> QED BY <1>2, <2>1, <3>1, <3>2
  <2>2. ASSUME ~g.haveEpoch, NEW i \in 1 .. n + 1
        PROVE  accepted'[i].epoch >= Week
    <3>1. CASE i \in 1 .. n
      BY <1>1, <2>2, <3>1 DEF LastInv
    <3>2. CASE i = n + 1
      BY <1>0, <1>1, <1>7, <2>2, <3>2
    <3> QED BY <1>2, <3>1, <3>2
  <2>3. LastInv'
    BY <1>1, <1>7, <2>1, <2>2 DEF LastInv
  <2>4. CurrentInv'
    BY <1>7 DEF CurrentInv
  <2> QED BY <1>4, <2>3, <2>4
<1> QED BY <1>5, <1>6, <1>7 DEF Counted

LEMMA NextEpoch ==
  ASSUME TowsInHalfAWeek, TypeInv, StampInv, EpochInv, [Next]_vars
  PROVE  EpochInv'
<1>0. /\ tick \in Nat /\ now \in Nat /\ g \in Parser /\ lost \in Nat /\ seen \in 0 .. lost
      /\ tick' \in Nat /\ tick' >= tick
  <2>1. tick \in Nat /\ now \in Nat /\ g \in Parser /\ lost \in Nat /\ seen \in 0 .. lost
    BY GnssAssumption DEF TypeInv, GnssTypeOK
  <2>2. tick' = tick \/ tick' = tick + 1
    BY DEF Next, Interrupts, Task, SysTick, Receive, ReceiveError, TaskBegin, CheckLoss,
           Discard, ReadSlot, Feed, TaskTick, Status, vars
  <2> QED BY <2>1, <2>2
<1>1. HistoryInv /\ LastInv /\ CurrentInv /\ FreshInv
  BY DEF EpochInv
<1>2. CASE SysTick \/ Receive \/ ReceiveError \/ TaskBegin \/ CheckLoss \/ ReadSlot
           \/ UNCHANGED vars
  <2>1. UNCHANGED <<g, accepted, losses>>
    BY <1>2 DEF SysTick, Receive, ReceiveError, Send, TaskBegin, CheckLoss, ReadSlot, vars,
                history
  <2>2. pc' \in {"idle", "check", "discard"} => pc \in {"idle", "check", "discard"}
    BY <1>2 DEF SysTick, Receive, ReceiveError, TaskBegin, CheckLoss, ReadSlot, vars, task
  <2>3. SameEpoch(g, g')
    BY <2>1 DEF SameEpoch
  <2>4. FreshInv'
    BY <1>1, <2>1, <2>2 DEF FreshInv
  <2> QED BY <1>0, <1>1, <2>1, <2>3, <2>4, SameStays DEF EpochInv
<1>3. CASE TaskTick \/ Status
  <2>1. PICK t \in Nat : g' = GnssTick(g, t)
    BY <1>0, <1>3 DEF TaskTick, Status
  <2>2. SameEpoch(g, g') /\ (g'.fresh => g.current)
    BY <1>0, <2>1, TickEpoch
  <2>3. UNCHANGED <<accepted, losses>>
    BY <1>3 DEF TaskTick, Status, history
  <2>4. FreshInv'
    BY <2>2 DEF FreshInv, SameEpoch
  <2> QED BY <1>0, <1>1, <2>2, <2>3, <2>4, SameStays DEF EpochInv
<1>4. CASE Discard
  <2>1. /\ UNCHANGED <<tick, accepted>> /\ pc' = "drain"
        /\ g' = GnssLoss(g, lost - seen + Queued)
    BY <1>4 DEF Discard
  <2>2. Reset(g) \in Parser /\ SameEpoch(g, Reset(g))
    BY <1>0, ParserIsFull, ResetType, ResetEpoch
  <2>3. ~g'.current /\ g'.haveEpoch = g.haveEpoch /\ g'.lastEpoch = g.lastEpoch
    BY <2>1, <2>2 DEF GnssLoss, SameEpoch, Parser
  <2>4. HistoryInv' /\ LastInv'
    BY <1>1, <2>1, <2>3 DEF HistoryInv, LastInv
  <2>5. CurrentInv' /\ FreshInv'
    BY <2>1, <2>3 DEF CurrentInv, FreshInv
  <2> QED BY <2>4, <2>5 DEF EpochInv
<1>5. CASE Feed
  <2>1. /\ UNCHANGED <<tick, losses>> /\ pc = "feed" /\ pc' = "drain"
        /\ g' = GnssFeed(g, slot)
        /\ accepted' = IF g'.good = g.good THEN accepted
                       ELSE Append(accepted, [epoch |-> slot.tow, at |-> slot.tick,
                                              losses |-> losses])
    BY <1>5 DEF Feed
  <2>2. slot \in Received /\ slot.tow \in Tows /\ slot.tick \in Nat /\ slot.tick <= tick
    BY <2>1, HeldByte
  <2>3. SameEpoch(g, g') \/ Counted(g, g', slot.tow, slot.tick)
    BY <1>0, <2>1, <2>2, FeedEpoch
  <2>4. CASE SameEpoch(g, g')
    <3>1. accepted' = accepted
      BY <2>1, <2>4 DEF SameEpoch
    <3>2. HistoryInv' /\ LastInv' /\ CurrentInv'
      BY <1>0, <1>1, <2>1, <2>4, <3>1, SameStays
    <3> QED BY <2>1, <3>2 DEF EpochInv, FreshInv
  <2>5. CASE Counted(g, g', slot.tow, slot.tick)
    <3>1. g'.good # g.good
      BY <1>0, <2>5 DEF Counted, Parser
    <3>2. HistoryInv' /\ LastInv' /\ CurrentInv'
      BY <1>1, <2>1, <2>2, <2>5, <3>1, CountedStays
    <3> QED BY <2>1, <3>2 DEF EpochInv, FreshInv
  <2> QED BY <2>3, <2>4, <2>5
<1> QED BY <1>2, <1>3, <1>4, <1>5 DEF Next, Interrupts, Task

NewInv == TypeInv /\ StampInv /\ EpochInv

LEMMA NewAlways == TowsInHalfAWeek => (Spec => []NewInv)
<1>1. Init => NewInv
  BY InitType, InitStamp, InitEpoch DEF NewInv
<1>2. TowsInHalfAWeek /\ NewInv /\ [Next]_vars => NewInv'
  BY NextType, NextStamp, NextEpoch DEF NewInv
<1>3. SUFFICES ASSUME TowsInHalfAWeek PROVE Spec => []NewInv
  OBVIOUS
<1>4. NewInv /\ [Next]_vars => NewInv'
  BY <1>2, <1>3
<1> QED BY <1>1, <1>4, PTL DEF Spec

\* As long as the iTOWs the receiver sends lie within half a week, a solution published as
\* fresh is of an epoch that was never accepted before, and the task has taken no loss since
\* (one that is signalled and not yet taken does not count), in the face of repeated, reordered and out-of-range epochs (gnss.c:70-86), for every week,
\* ring and packet. Further apart, half a week backwards reads as forward and the parser
\* can take an epoch it already had.
THEOREM FreshMeansNew == TowsInHalfAWeek => (Spec => []FreshIsNew)
<1>1. NewInv => FreshIsNew
  <2> SUFFICES ASSUME NewInv, pc = "idle", g.fresh
               PROVE  \E i \in DOMAIN accepted :
                        /\ accepted[i].losses = losses
                        /\ \A j \in 1 .. i - 1 : accepted[j].epoch # accepted[i].epoch
                        /\ \A j \in i + 1 .. Len(accepted) :
                             accepted[j].epoch = accepted[i].epoch
                        /\ accepted[i].epoch < Week
    BY DEF FreshIsNew
  <2>1. g.current
    BY DEF NewInv, EpochInv, FreshInv
  <2>2. g.haveEpoch /\ \E i \in DOMAIN accepted : Latest(i)
    BY <2>1 DEF NewInv, EpochInv, CurrentInv
  <2>3. g.lastEpoch < Week
    BY <2>2 DEF NewInv, EpochInv, LastInv
  <2> QED BY <2>2, <2>3 DEF Latest
<1>2. SUFFICES ASSUME TowsInHalfAWeek PROVE Spec => []FreshIsNew
  OBVIOUS
<1>3. Spec => []NewInv
  BY <1>2, NewAlways
<1> QED BY <1>1, <1>3, PTL

\* Under the same condition, what bench_gnss_status publishes as fresh is an epoch that was
\* new when it came and came at most FreshFor ago (gnss.c:59-68): the age is a difference
\* of two tick counts that have not wrapped.
THEOREM StatusIsYoung == TowsInHalfAWeek => (Spec => []PublishedFreshIsYoung)
<1>1. ASSUME NewInv, pc = "idle", GnssTick(g, tick).fresh
      PROVE  \E i \in DOMAIN accepted :
               /\ tick - accepted[i].at <= FreshFor
               /\ \A j \in 1 .. i - 1 : accepted[j].epoch # accepted[i].epoch
               /\ \A j \in i .. Len(accepted) : accepted[j].epoch = accepted[i].epoch
  <2>0. /\ tick \in 0 .. MaxTick /\ MaxTick \in Nat /\ TickModulus \in Nat \ {0}
        /\ MaxTick < TickModulus /\ g \in Parser
        /\ DOMAIN accepted = 1 .. Len(accepted) /\ Len(accepted) \in Nat
    BY <1>1, GnssAssumption, AcceptedEntries DEF NewInv, TypeInv, GnssTypeOK
  <2>1. g.current /\ Since(tick, g.epochMs) <= FreshFor
    BY <1>1, <2>0, TickEpoch
  <2>2. PICK i \in DOMAIN accepted : Latest(i)
    BY <1>1, <2>1 DEF NewInv, EpochInv, CurrentInv
  <2>3. accepted[i].at = g.epochMs /\ accepted[i].at \in Nat /\ accepted[i].at <= tick
    BY <1>1, <2>2, AcceptedEntries DEF Latest, NewInv, EpochInv, HistoryInv
  <2>4. Since(tick, g.epochMs) = tick - accepted[i].at
    <3>1. tick - accepted[i].at \in 0 .. TickModulus - 1
      BY <2>0, <2>3
    <3> QED BY <2>0, <2>3, <3>1, RemainderBelow DEF Since
  <2>5. \A j \in i .. Len(accepted) : accepted[j].epoch = accepted[i].epoch
    <3>1. \A j \in i .. Len(accepted) : j = i \/ j \in i + 1 .. Len(accepted)
      BY <2>0, <2>2
    <3> QED BY <2>2, <3>1 DEF Latest
  <2> QED BY <2>1, <2>2, <2>4, <2>5 DEF Latest
<1>2. NewInv => PublishedFreshIsYoung
  BY <1>1 DEF PublishedFreshIsYoung
<1>3. SUFFICES ASSUME TowsInHalfAWeek PROVE Spec => []PublishedFreshIsYoung
  OBVIOUS
<1>4. Spec => []NewInv
  BY <1>3, NewAlways
<1> QED BY <1>2, <1>4, PTL
===============================================================================
