--------------------------------- MODULE Gnss ---------------------------------
(***************************************************************************)
(* The GNSS receiver's byte stream: the USART interrupt that fills a ring, *)
(* the task that empties it into the UBX parser whenever the main loop     *)
(* waits, the parser and what it publishes (m3_firmware/src/gnss_stm32.c,  *)
(* gnss.c).                                                                *)
(*                                                                         *)
(* The receiver sends UBX NAV-PVT packets of PacketLen bytes: byte n of    *)
(* the stream is byte n % PacketLen of its packet, and carries the iTOW of *)
(* that packet. The two bytes of the checksum hold exactly for the         *)
(* consecutive bytes of one packet. NMEA text, MON-VER and the length      *)
(* checks are left out.                                                    *)
(***************************************************************************)
EXTENDS Integers, Sequences

CONSTANTS
  RingSize,       \* slots of the ring (2048 in the code)
  Budget,         \* bytes one pass of the task takes out of it (256)
  PacketLen,      \* bytes of a packet
  Timeout,        \* a half-packet is given up after this silence (400 ms)
  FreshFor,       \* age of a fresh solution (3000 ms)
  Week,           \* iTOW is counted modulo one week (604800000 ms)
  Tows,           \* the iTOW values the receiver sends; one >= Week is out of range
  TickModulus,    \* the millisecond counter wraps here (2^32)
  MaxTick,        \* bound: uptime of a behaviour, below the wrap
  MaxBytes,       \* bound: bytes of the stream
  MaxErrors       \* bound: losses, by an error or a full ring

ASSUME GnssAssumption ==
  /\ RingSize \in Nat /\ RingSize >= 2 /\ Budget \in Nat \ {0}
  /\ PacketLen \in Nat /\ PacketLen >= 3
  /\ {Timeout, FreshFor, MaxTick, MaxBytes, MaxErrors} \subseteq Nat
  /\ Week \in Nat /\ Week >= 2 /\ Tows \subseteq Nat
  /\ TickModulus \in Nat /\ TickModulus > MaxTick

VARIABLES
  tick,                   \* HAL_GetTick
  sent, tow,              \* the receiver: bytes on the wire so far, iTOW of its packet
  ring, head, tail, lost, \* shared with the interrupt
  pc, now, budget, slot,  \* the task: where it is, its `now', its loop, the byte it holds
  seen,                   \* seen_lost
  g,                      \* the parser (struct GNSS)
  accepted, losses,       \* history: packets accepted, gnss_loss calls
  signalled               \* history: bytes and errors the UART signalled

shared == <<ring, head, tail, lost>>
task == <<pc, now, budget, slot, seen>>
history == <<accepted, losses, signalled>>
vars == <<tick, sent, tow, shared, task, g, history>>

Slots == 0 .. RingSize - 1
Received == [n : Nat, tick : 0 .. MaxTick, tow : Nat]
NoByte == [n |-> 0, tick |-> 0, tow |-> 0]
Queued == (head - tail) % RingSize
Since(t, earlier) == (t - earlier) % TickModulus

Parser ==
  [used : 0 .. PacketLen - 1, first : Nat, whole : BOOLEAN, lastByte : Nat,
   rx : Nat, good : Nat, timeouts : Nat, dropped : Nat,
   pvt : BOOLEAN, pvtMs : Nat, haveEpoch : BOOLEAN, lastEpoch : Nat, epochMs : Nat,
   current : BOOLEAN, fresh : BOOLEAN]

Init ==
  /\ tick = 0 /\ sent = 0 /\ tow = 0
  /\ ring = [i \in Slots |-> NoByte] /\ head = 0 /\ tail = 0 /\ lost = 0
  /\ pc = "idle" /\ now = 0 /\ budget = 0 /\ slot = NoByte /\ seen = 0
  /\ g = [used |-> 0, first |-> 0, whole |-> FALSE, lastByte |-> 0, rx |-> 0, good |-> 0,
          timeouts |-> 0, dropped |-> 0, pvt |-> FALSE, pvtMs |-> 0, haveEpoch |-> FALSE,
          lastEpoch |-> 0, epochMs |-> 0, current |-> FALSE, fresh |-> FALSE]
  /\ accepted = <<>> /\ losses = 0 /\ signalled = 0

-----------------------------------------------------------------------------
(***************************************************************************)
(* The parser, gnss.c                                                      *)
(***************************************************************************)
\* Fault: the bytes counted so far stay.
Reset_Nothing(p) == p

\* The bytes counted so far are given up; nothing of them is looked at again.
Reset(p) == [p EXCEPT !.used = 0, !.first = 0, !.whole = FALSE]

\* A half-packet times out; the solution is fresh while its epoch is current and young.
GnssTick(p, t) ==
  LET late == p.used > 0 /\ Since(t, p.lastByte) > Timeout
      q == IF late THEN [Reset(p) EXCEPT !.timeouts = @ + 1] ELSE p
  IN [q EXCEPT !.fresh = /\ p.pvt /\ p.current
                         /\ Since(t, p.pvtMs) <= FreshFor /\ Since(t, p.epochMs) <= FreshFor]

\* Fault: the epoch stays current.
GnssLoss_StaysCurrent(p, dropped) == [Reset(p) EXCEPT !.dropped = @ + dropped]

\* A broken byte stream cannot keep the solution fresh.
GnssLoss(p, dropped) == [Reset(p) EXCEPT !.dropped = @ + dropped, !.current = FALSE]

\* Fault: the same iTOW delivered again counts as a new epoch.
Newer_SameCounts(p, epoch) ==
  ~p.haveEpoch \/ (epoch - p.lastEpoch) % Week < Week \div 2

\* The epoch went forward, by less than half a week.
Newer(p, epoch) ==
  ~p.haveEpoch \/ (epoch - p.lastEpoch) % Week \in 1 .. (Week + 1) \div 2 - 1

\* A NAV-PVT message of a packet received whole.
Message(p, epoch, t) ==
  LET q == [p EXCEPT !.good = @ + 1, !.pvt = TRUE, !.pvtMs = t]
  IN IF epoch >= Week THEN [q EXCEPT !.current = FALSE]
     ELSE IF Newer(p, epoch)
     THEN [q EXCEPT !.lastEpoch = epoch, !.haveEpoch = TRUE, !.epochMs = t, !.current = TRUE]
     ELSE IF epoch = p.lastEpoch THEN q
     ELSE [q EXCEPT !.current = FALSE]

\* The two sync bytes, then the bytes of a packet whatever they are, then the checksum.
Byte(p, n) ==
  LET pos == n % PacketLen
  IN IF p.used = 0 \/ (p.used = 1 /\ pos # 1)
     THEN IF pos = 0 THEN [p EXCEPT !.used = 1, !.first = n, !.whole = TRUE] ELSE Reset(p)
     ELSE [p EXCEPT !.used = @ + 1, !.whole = @ /\ n = p.first + p.used]

GnssFeed(p, byte) ==
  LET q == [GnssTick(p, byte.tick) EXCEPT !.rx = @ + 1, !.lastByte = byte.tick]
      r == Byte(q, byte.n)
  IN IF r.used # PacketLen THEN r
     ELSE GnssTick(Reset(IF r.whole THEN Message(r, byte.tow, byte.tick) ELSE r),
                   byte.tick)

-----------------------------------------------------------------------------
(***************************************************************************)
(* Time and the receive interrupt                                          *)
(***************************************************************************)
SysTick ==
  /\ tick < MaxTick
  /\ tick' = tick + 1
  /\ UNCHANGED <<sent, tow, shared, task, g, history>>

\* Fault: the ring takes one byte more than it can hold.
Push_NoFullCheck ==
  /\ ring' = [ring EXCEPT ![head] = [n |-> sent, tick |-> tick, tow |-> tow']]
  /\ head' = (head + 1) % RingSize
  /\ UNCHANGED <<tail, lost>>

\* The byte goes into the ring with the time it was read at; a full ring loses it.
Push ==
  /\ IF (head + 1) % RingSize = tail
     THEN lost < MaxErrors /\ lost' = lost + 1 /\ UNCHANGED <<ring, head>>
     ELSE /\ ring' = [ring EXCEPT ![head] = [n |-> sent, tick |-> tick, tow |-> tow']]
          /\ head' = (head + 1) % RingSize
          /\ UNCHANGED lost
  /\ UNCHANGED tail

\* The receiver sends n bytes more; the iTOW is settled with the first of a packet.
Send(n) ==
  /\ sent + n <= MaxBytes
  /\ sent' = sent + n
  /\ IF \E i \in sent .. sent + n - 1 : i % PacketLen = 0
     THEN tow' \in Tows
     ELSE UNCHANGED tow
  /\ signalled' = signalled + 1
  /\ UNCHANGED <<accepted, losses>>

Receive == Send(1) /\ Push /\ UNCHANGED <<tick, task, g>>

\* Parity, framing or noise: the byte read with the error is not used. An overrun conceals
\* more than that one; an error may also come when there is no byte to read.
ReceiveError ==
  /\ \E n \in 0 .. 2 : Send(n)
  /\ lost < MaxErrors /\ lost' = lost + 1
  /\ UNCHANGED <<tick, ring, head, tail, task, g>>

-----------------------------------------------------------------------------
(***************************************************************************)
(* The task, bench_gnss_task: interrupts come between any two of its steps *)
(***************************************************************************)
TaskBegin ==
  /\ pc = "idle"
  /\ now' = tick
  /\ pc' = "check"
  /\ UNCHANGED <<tick, sent, tow, shared, budget, slot, seen, g, history>>

CheckLoss ==
  /\ pc = "check"
  /\ IF lost # seen THEN pc' = "discard" /\ UNCHANGED budget
                    ELSE pc' = "drain" /\ budget' = Budget
  /\ UNCHANGED <<tick, sent, tow, shared, now, slot, seen, g, history>>

\* Fault: the bytes discarded from the queue are not counted.
Discard_QueueUncounted ==
  /\ pc = "discard"
  /\ tail' = head /\ seen' = lost /\ ring' = [i \in Slots |-> NoByte]
  /\ g' = GnssLoss(g, lost - seen)
  /\ losses' = losses + 1
  /\ pc' = "drain" /\ budget' = Budget
  /\ UNCHANGED <<tick, sent, tow, head, lost, now, slot, accepted, signalled>>

\* With interrupts off the queue is discarded and the losses are counted.
Discard ==
  /\ pc = "discard"
  /\ tail' = head /\ seen' = lost /\ ring' = [i \in Slots |-> NoByte]
  /\ g' = GnssLoss(g, lost - seen + Queued)
  /\ losses' = losses + 1
  /\ pc' = "drain" /\ budget' = Budget
  /\ UNCHANGED <<tick, sent, tow, head, lost, now, slot, accepted, signalled>>

ReadSlot ==
  /\ pc = "drain" /\ budget > 0 /\ tail # head
  /\ slot' = ring[tail]
  /\ pc' = "feed"
  /\ UNCHANGED <<tick, sent, tow, shared, now, budget, seen, g, history>>

\* The slot is released, the model forgets what it held, and the parser gets the byte.
Feed ==
  /\ pc = "feed"
  /\ tail' = (tail + 1) % RingSize /\ ring' = [ring EXCEPT ![tail] = NoByte]
  /\ g' = GnssFeed(g, slot)
  /\ accepted' = IF g'.good = g.good THEN accepted
                 ELSE Append(accepted, [epoch |-> slot.tow, at |-> slot.tick,
                                        losses |-> losses])
  /\ budget' = budget - 1 /\ slot' = NoByte
  /\ pc' = "drain"
  /\ UNCHANGED <<tick, sent, tow, head, lost, now, seen, losses, signalled>>

TaskTick ==
  /\ pc = "drain" /\ (budget = 0 \/ tail = head)
  /\ g' = GnssTick(g, now)
  /\ pc' = "idle" /\ now' = 0 /\ budget' = 0
  /\ UNCHANGED <<tick, sent, tow, shared, slot, seen, history>>

\* bench_gnss_status, for the record the main loop publishes between two passes.
Status ==
  /\ pc = "idle"
  /\ g' = GnssTick(g, tick)
  /\ UNCHANGED <<tick, sent, tow, shared, task, history>>

-----------------------------------------------------------------------------
Interrupts == SysTick \/ Receive \/ ReceiveError
Task == TaskBegin \/ CheckLoss \/ Discard \/ ReadSlot \/ Feed \/ TaskTick \/ Status
Next == Interrupts \/ Task

Spec == Init /\ [][Next]_vars

-----------------------------------------------------------------------------
(***************************************************************************)
(* Properties                                                              *)
(***************************************************************************)
GnssTypeOK ==
  /\ tick \in 0 .. MaxTick /\ sent \in 0 .. MaxBytes /\ tow \in Nat
  /\ ring \in [Slots -> Received]
  /\ head \in Slots /\ tail \in Slots /\ lost \in Nat /\ seen \in 0 .. lost
  /\ pc \in {"idle", "check", "discard", "drain", "feed"}
  /\ now \in 0 .. tick /\ budget \in 0 .. Budget /\ slot \in Received
  /\ g \in Parser
  /\ accepted \in Seq([epoch : Nat, at : Nat, losses : Nat]) /\ losses \in Nat
  /\ signalled \in Nat

\* Whatever the interrupts do between the steps of the task, every byte and every error the
\* UART signalled was given to the parser, waits in the ring, or is in the loss counts that
\* are published, once ("dropped counts discarded queued bytes plus ISR loss events",
\* gnss_stm32.c:65).
EveryByteAccounted == signalled = g.rx + Queued + g.dropped + (lost - seen)

\* A byte that waits in the ring is the one that was received, none is read twice or
\* overwritten while the task holds its slot: the parser gets bytes in the order of the
\* wire.
RingInOrder ==
  LET at(i) == ring[(tail + i) % RingSize].n
  IN /\ \A i, j \in 0 .. Queued - 1 : i < j => at(i) < at(j)
     /\ pc = "feed" => Queued > 0 /\ slot = ring[tail]

\* "The same iTOW delivered repeatedly does not make an old solution new again; a
\* backwards step, out-of-range values, > 3 s age [...] never count as a new fix", nor does
\* a broken stream (GNSS_DIAGNOSTICS.md:37, gnss.c:20): what is published as fresh is the
\* last epoch accepted, in range and delivered for the first time, and the task has taken
\* no loss since then; one the interrupt has only signalled counts at the next check.
FreshIsNew ==
  (pc = "idle" /\ g.fresh) =>
    \E i \in DOMAIN accepted :
      /\ accepted[i].losses = losses
      /\ \A j \in 1 .. i - 1 : accepted[j].epoch # accepted[i].epoch
      /\ \A j \in i + 1 .. Len(accepted) : accepted[j].epoch = accepted[i].epoch
      /\ accepted[i].epoch < Week

\* What bench_gnss_status publishes as fresh, whenever it is called, is no older than
\* FreshFor at that moment, counted from the first delivery of its epoch.
PublishedFreshIsYoung ==
  (pc = "idle" /\ GnssTick(g, tick).fresh) =>
    \E i \in DOMAIN accepted :
      /\ tick - accepted[i].at <= FreshFor
      /\ \A j \in 1 .. i - 1 : accepted[j].epoch # accepted[i].epoch
      /\ \A j \in i .. Len(accepted) : accepted[j].epoch = accepted[i].epoch

\* "half-packets time out after 400 ms" (GNSS_DIAGNOSTICS.md:33): the parser gives a
\* packet up only when the last byte it has is that old, also when it is a late byte that
\* ends the wait (gnss.c:70 then takes that byte's time).
TimeoutMeansSilence ==
  [][g'.timeouts # g.timeouts => tick - g.lastByte > Timeout]_vars
==============================================================================
