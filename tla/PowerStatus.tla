------------------------------ MODULE PowerStatus ------------------------------
(***************************************************************************)
(* The power monitor (m3_firmware/src/power_status.c,                      *)
(* power_status_stm32.c): fault and source inputs watched by the external  *)
(* interrupt and by SysTick, which update one record that the main loop    *)
(* copies out.                                                             *)
(*                                                                         *)
(* EXTI (priority 14) preempts SysTick (15) and the main loop, SysTick     *)
(* preempts the main loop, and nothing preempts while PRIMASK is set; the  *)
(* pins and the edge latch PR1 follow the hardware at any moment. A        *)
(* handler loads the record in one step and stores it in a later one.      *)
(***************************************************************************)
EXTENDS Integers, FiniteSets

CONSTANTS
  Faults,     \* inputs latched on a falling edge (PD0, PD4, PD6)
  Mux,        \* inputs latched on both edges (PD1)
  CountMax,   \* irq_count saturates here (UINT32_MAX)
  GapLimit,   \* a longer gap between two samples is flagged (5 ms)
  MaxTick,    \* bound: uptime of a behaviour, below the wrap of the tick
  MaxEdges    \* bound: latched edges of a behaviour

ASSUME PowerAssumption ==
  /\ Faults \cap Mux = {}
  /\ CountMax \in Nat \ {0} /\ GapLimit \in Nat
  /\ MaxTick \in Nat /\ MaxEdges \in Nat

Pins == Faults \cup Mux

VARIABLES
  high,       \* GPIOD->IDR: the inputs that are high
  pr1,        \* EXTI->PR1: the latched edges
  tick,       \* HAL_GetTick
  primask,    \* interrupts disabled
  pc,         \* where initialization, SysTick, EXTI and the copy are
  hold,       \* what SysTick and EXTI hold between load and store
  ready, r,   \* ready, status.r
  copy,       \* what bench_power_status has copied
  fell, edges \* history: fault inputs that fell, edges latched

vars == <<high, pr1, tick, primask, pc, hold, ready, r, copy, fell, edges>>

\* Left out: CONFIGURED, and what configuration_ok reads back from the registers.
Flags == {"TICK_SEEN", "IRQ_SEEN", "GAP_SEEN", "COUNT_SATURATED"}

Status ==
  [flags : SUBSET Flags, gpio : SUBSET Pins, lowSeen : SUBSET Pins, highSeen : SUBSET Pins,
   sampled : Nat, lastEvent : Nat, irqCount : 0 .. CountMax, maxGap : Int]

Started(now, gpio) ==
  [flags |-> {}, gpio |-> gpio, lowSeen |-> {}, highSeen |-> {},
   sampled |-> now, lastEvent |-> now, irqCount |-> 0, maxGap |-> 0]
Zero == Started(0, {})
NoHold == [now |-> 0, gpio |-> {}, pending |-> {}, old |-> Zero]

Init ==
  /\ high \in SUBSET Pins /\ pr1 \in SUBSET Pins /\ tick = 0 /\ primask = FALSE
  /\ pc = [main |-> "boot", sys |-> "idle", ext |-> "idle"]
  /\ hold = [sys |-> NoHold, ext |-> NoHold]
  /\ ready = FALSE /\ r = Zero /\ copy = Zero /\ fell = {} /\ edges = 0

-----------------------------------------------------------------------------
(***************************************************************************)
(* power_status_observe and power_status_init                              *)
(***************************************************************************)
\* Fault: the latch is not believed once the input has recovered.
LowSeen_LevelOnly(s, gpio, pending) == s.lowSeen \cup (Pins \ gpio)

\* A falling-edge latch is evidence; the source input latches both edges and tells nothing.
LowSeen(s, gpio, pending) == s.lowSeen \cup (Pins \ gpio) \cup (pending \cap Faults)

\* Faults: the counter does not stop when full; periodic samples count.
Counted_Unbounded(s, pending) == IF pending = {} THEN s.irqCount ELSE s.irqCount + 1
Counted_EverySample(s, pending) == IF s.irqCount = CountMax THEN CountMax ELSE s.irqCount + 1

Counted(s, pending) ==
  IF pending = {} \/ s.irqCount = CountMax THEN s.irqCount ELSE s.irqCount + 1

Observe(s, now, gpio, pending, periodic) ==
  LET gap  == now - s.sampled
      seen == (IF gap > GapLimit THEN {"GAP_SEEN"} ELSE {})
              \cup (IF periodic THEN {"TICK_SEEN"} ELSE {})
              \cup (IF pending # {} THEN {"IRQ_SEEN"} ELSE {})
              \cup (IF pending # {} /\ s.irqCount = CountMax THEN {"COUNT_SATURATED"} ELSE {})
  IN  [flags     |-> s.flags \cup seen,
       gpio      |-> gpio,
       lowSeen   |-> LowSeen(s, gpio, pending),
       highSeen  |-> s.highSeen \cup gpio,
       sampled   |-> now,
       lastEvent |-> IF pending # {} \/ gpio # s.gpio THEN now ELSE s.lastEvent,
       irqCount  |-> Counted(s, pending),
       maxGap    |-> IF gap > s.maxGap THEN gap ELSE s.maxGap]

Configured(now, gpio) == Observe(Started(now, gpio), now, gpio, {}, FALSE)

\* A handler samples the tick and the inputs and loads the record...
Sample(who, pending) ==
  hold' = [hold EXCEPT ![who] =
             [now |-> tick, gpio |-> high, pending |-> pending, old |-> r]]

\* ...and stores the record it made of them.
Store(who, periodic) ==
  /\ r' = Observe(hold[who].old, hold[who].now, hold[who].gpio, hold[who].pending, periodic)
  /\ hold' = [hold EXCEPT ![who] = NoHold]
  /\ pc' = [pc EXCEPT ![who] = "idle"]
  /\ primask' = FALSE

-----------------------------------------------------------------------------
(***************************************************************************)
(* The hardware: an input changes, and the enabled edges are latched.      *)
(***************************************************************************)
Latches(p) == p \in Mux \/ p \in high

Edge(p) ==
  /\ pc.main # "boot" /\ (Latches(p) => edges < MaxEdges)
  /\ high' = IF p \in high THEN high \ {p} ELSE high \cup {p}
  /\ pr1' = IF Latches(p) THEN pr1 \cup {p} ELSE pr1
  /\ edges' = IF Latches(p) THEN edges + 1 ELSE edges
  /\ fell' = IF p \in Faults \cap high THEN fell \cup {p} ELSE fell
  /\ UNCHANGED <<tick, primask, pc, hold, ready, r, copy>>

-----------------------------------------------------------------------------
(***************************************************************************)
(* bench_power_initialize, with interrupts disabled                        *)
(***************************************************************************)
InMain(at) == pc.sys = "idle" /\ pc.ext = "idle" /\ pc.main = at

\* Edges from before the monitor are discarded.
InitializeClear ==
  /\ InMain("boot")
  /\ primask' = TRUE /\ pr1' = {}
  /\ pc' = [pc EXCEPT !.main = "arming"]
  /\ UNCHANGED <<high, tick, hold, ready, r, copy, fell, edges>>

InitializeReady ==
  /\ InMain("arming")
  /\ r' = Configured(tick, high)
  /\ ready' = TRUE /\ primask' = FALSE
  /\ pc' = [pc EXCEPT !.main = "run"]
  /\ UNCHANGED <<high, pr1, tick, hold, copy, fell, edges>>

-----------------------------------------------------------------------------
(***************************************************************************)
(* SysTick_Handler and bench_power_tick                                    *)
(***************************************************************************)
\* Fault: a tick samples only when an input has changed.
SysTick_OnChange ==
  /\ ~primask /\ pc.sys = "idle" /\ pc.ext = "idle" /\ tick < MaxTick
  /\ tick' = tick + 1
  /\ pc' = [pc EXCEPT !.sys = IF ready /\ r.gpio # high THEN "tick" ELSE "idle"]
  /\ UNCHANGED <<high, pr1, primask, hold, ready, r, copy, fell, edges>>

SysTick ==
  /\ ~primask /\ pc.sys = "idle" /\ pc.ext = "idle" /\ tick < MaxTick
  /\ tick' = tick + 1
  /\ pc' = [pc EXCEPT !.sys = IF ready THEN "tick" ELSE "idle"]
  /\ UNCHANGED <<high, pr1, primask, hold, ready, r, copy, fell, edges>>

\* Fault: interrupts stay enabled between load and store.
TickSample_Unmasked ==
  /\ pc.sys = "tick" /\ pc.ext = "idle"
  /\ Sample("sys", {})
  /\ pc' = [pc EXCEPT !.sys = "store"]
  /\ UNCHANGED <<high, pr1, tick, primask, ready, r, copy, fell, edges>>

TickSample ==
  /\ pc.sys = "tick" /\ pc.ext = "idle"
  /\ primask' = TRUE
  /\ Sample("sys", {})
  /\ pc' = [pc EXCEPT !.sys = "store"]
  /\ UNCHANGED <<high, pr1, tick, ready, r, copy, fell, edges>>

TickStore ==
  /\ pc.sys = "store" /\ pc.ext = "idle"
  /\ Store("sys", TRUE)
  /\ UNCHANGED <<high, pr1, tick, ready, copy, fell, edges>>

-----------------------------------------------------------------------------
(***************************************************************************)
(* event: one of the four EXTI handlers, each with the line it handles     *)
(***************************************************************************)
EventEnter(p) ==
  /\ ~primask /\ pc.ext = "idle" /\ pc.main # "boot" /\ p \in pr1
  /\ primask' = TRUE
  /\ hold' = [hold EXCEPT !.ext = [NoHold EXCEPT !.pending = pr1 \cap {p}]]
  /\ pc' = [pc EXCEPT !.ext = "clear"]
  /\ UNCHANGED <<high, pr1, tick, ready, r, copy, fell, edges>>

\* Fault: every latch is cleared, not the handled line's.
EventClear_All ==
  /\ pc.ext = "clear"
  /\ pr1' = {}
  /\ pc' = [pc EXCEPT !.ext = "sample"]
  /\ UNCHANGED <<high, tick, primask, hold, ready, r, copy, fell, edges>>

\* Writing ones clears the handled line alone.
EventClear ==
  /\ pc.ext = "clear"
  /\ pr1' = pr1 \ hold.ext.pending
  /\ pc' = [pc EXCEPT !.ext = "sample"]
  /\ UNCHANGED <<high, tick, primask, hold, ready, r, copy, fell, edges>>

EventSample ==
  /\ pc.ext = "sample"
  /\ Sample("ext", hold.ext.pending)
  /\ pc' = [pc EXCEPT !.ext = "store"]
  /\ UNCHANGED <<high, pr1, tick, primask, ready, r, copy, fell, edges>>

EventStore ==
  /\ pc.ext = "store"
  /\ Store("ext", FALSE)
  /\ UNCHANGED <<high, pr1, tick, ready, copy, fell, edges>>

-----------------------------------------------------------------------------
(***************************************************************************)
(* bench_power_status: the record is copied in two parts                   *)
(***************************************************************************)
\* Fault: the copy is made with interrupts enabled.
StatusBegin_Unmasked ==
  /\ InMain("run")
  /\ copy' = [r EXCEPT !.sampled = copy.sampled, !.lastEvent = copy.lastEvent,
                       !.irqCount = copy.irqCount, !.maxGap = copy.maxGap]
  /\ pc' = [pc EXCEPT !.main = "copying"]
  /\ UNCHANGED <<high, pr1, tick, primask, hold, ready, r, fell, edges>>

StatusBegin ==
  /\ InMain("run")
  /\ primask' = TRUE
  /\ copy' = [r EXCEPT !.sampled = copy.sampled, !.lastEvent = copy.lastEvent,
                       !.irqCount = copy.irqCount, !.maxGap = copy.maxGap]
  /\ pc' = [pc EXCEPT !.main = "copying"]
  /\ UNCHANGED <<high, pr1, tick, hold, ready, r, fell, edges>>

StatusEnd ==
  /\ InMain("copying")
  /\ primask' = FALSE
  /\ copy' = [copy EXCEPT !.sampled = r.sampled, !.lastEvent = r.lastEvent,
                          !.irqCount = r.irqCount, !.maxGap = r.maxGap]
  /\ pc' = [pc EXCEPT !.main = "run"]
  /\ UNCHANGED <<high, pr1, tick, hold, ready, r, fell, edges>>

Handlers ==
  \/ TickSample \/ TickStore
  \/ (\E p \in Pins : EventEnter(p)) \/ EventClear \/ EventSample \/ EventStore

Next ==
  \/ \E p \in Pins : Edge(p)
  \/ InitializeClear \/ InitializeReady
  \/ SysTick \/ Handlers
  \/ StatusBegin \/ StatusEnd

Spec == Init /\ [][Next]_vars

\* Code that began goes on. The interrupt controller serves a latched line as
\* soon as interrupts are enabled: they are again and again, never for good
\* (SF), since copies and ticks go on disabling them.
Fairness ==
  /\ WF_vars(TickSample) /\ WF_vars(TickStore)
  /\ \A p \in Pins : SF_vars(EventEnter(p))
  /\ WF_vars(EventClear) /\ WF_vars(EventSample) /\ WF_vars(EventStore)
  /\ WF_vars(InitializeReady) /\ WF_vars(StatusEnd)

FairSpec == Spec /\ Fairness

-----------------------------------------------------------------------------
(***************************************************************************)
(* Properties                                                              *)
(***************************************************************************)
\* The record and what the handlers hold are well formed; a masked section
\* has one owner.
Holds == [now : 0 .. MaxTick, gpio : SUBSET Pins, pending : SUBSET Pins, old : Status]

TypeOK ==
  /\ high \in SUBSET Pins /\ pr1 \in SUBSET Pins
  /\ tick \in 0 .. MaxTick /\ primask \in BOOLEAN
  /\ pc \in [main : {"boot", "arming", "run", "copying"}, sys : {"idle", "tick", "store"},
             ext : {"idle", "clear", "sample", "store"}]
  /\ hold \in [sys : Holds, ext : Holds]
  /\ ready \in BOOLEAN /\ r \in Status /\ copy \in Status
  /\ fell \in SUBSET Faults /\ edges \in 0 .. MaxEdges

\* A fault input that fell since the monitor began is in the recorded history,
\* or is still latched, or is in the hands of the handler, however soon it
\* recovered and whatever ran in between (power_status.c:22-25: a falling-edge
\* latch is evidence even if the input recovered before the ISR).
FaultEdgeKept ==
  pc.main # "boot" => fell \subseteq r.lowSeen \cup pr1 \cup hold.ext.pending

\* What the main loop copied is of one moment: the flags agree with the
\* counters they summarise (bench_power_status copies with interrupts disabled).
CopyCoherent ==
  pc.main = "run" =>
    /\ "IRQ_SEEN" \in copy.flags <=> copy.irqCount > 0
    /\ "GAP_SEEN" \in copy.flags <=> copy.maxGap > GapLimit

\* irq_count never exceeds the edges latched: the host reports it as a lower
\* bound (power_status.py:12); and only a full counter is flagged saturated.
CountIsLowerBound ==
  /\ r.irqCount <= edges
  /\ "COUNT_SATURATED" \in r.flags => r.irqCount = CountMax

\* The record is never more than the tick in progress behind the clock, so the
\* host's limit on its age only fails when ticks are not taken at all; and the
\* largest gap is one tick: the gap is counted in the ticks that sample, so
\* time with interrupts disabled never shows in it (power_status.py:16).
SampledEveryTick ==
  ready => /\ tick - r.sampled <= (IF pc.sys = "idle" THEN 0 ELSE 1)
           /\ r.maxGap <= 1

\* No step takes a bit out of the histories or counts down, neither in the
\* record nor in what is published of it: the host calls that a reset,
\* corruption or wrong firmware (power_status.py:32-33).
Extends(s, t) ==
  s.lowSeen \subseteq t.lowSeen /\ s.highSeen \subseteq t.highSeen /\ s.irqCount <= t.irqCount
HistoryNeverCleared == [][Extends(r, r') /\ Extends(copy, copy')]_vars

\* A latched edge of a fault input reaches the recorded history.
FaultRecorded ==
  \A p \in Faults : (pc.main # "boot" /\ p \in pr1) ~> (p \in r.lowSeen)
=============================================================================
