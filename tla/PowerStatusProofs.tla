--------------------------- MODULE PowerStatusProofs ---------------------------
(***************************************************************************)
(* Proofs about PowerStatus, for every set of inputs and every bound.      *)
(* PRIMASK makes each handler's load and store one step for everybody      *)
(* else: whoever is between the two still holds the record as it stands.   *)
(***************************************************************************)
EXTENDS PowerStatus, FiniteSetTheorems, TLAPS

\* PRIMASK is set exactly while somebody is in a masked section...
Masked ==
  primask <=> \/ pc.ext # "idle" \/ pc.sys = "store"
              \/ pc.main \in {"arming", "copying"}

\* ...and nobody preempts a masked section.
OneOwner ==
  /\ pc.ext # "idle" => pc.sys # "store" /\ pc.main = "run"
  /\ pc.sys # "idle" => pc.main = "run"
  /\ ready <=> pc.main \in {"run", "copying"}

\* What a handler loaded is what stands, and of the current tick.
Loaded ==
  /\ pc.ext = "idle" => hold.ext.pending = {}
  /\ \A who \in {"sys", "ext"} :
       pc[who] = "store" => hold[who].old = r /\ hold[who].now = tick

\* The flags of the record summarise its counters, and nothing precedes the monitor.
Summary(s) ==
  /\ "IRQ_SEEN" \in s.flags <=> s.irqCount > 0
  /\ "GAP_SEEN" \in s.flags <=> s.maxGap > GapLimit

RecordInv ==
  /\ Summary(r)
  /\ ~ready => r = Zero /\ copy = Zero
  /\ pc.main = "boot" => fell = {}

\* The copy never runs ahead of the record.
CopyInv ==
  /\ copy.lowSeen \subseteq r.lowSeen /\ copy.highSeen \subseteq r.highSeen
  /\ copy.irqCount <= r.irqCount
  /\ pc.main # "copying" => Summary(copy)
  /\ pc.main = "copying" => copy.flags = r.flags

IInv ==
  /\ TypeOK /\ Masked /\ OneOwner /\ Loaded /\ RecordInv /\ CopyInv
  /\ FaultEdgeKept /\ SampledEveryTick

-----------------------------------------------------------------------------
(***************************************************************************)
(* What one observation makes of a record                                  *)
(***************************************************************************)
LEMMA ObserveType ==
  ASSUME NEW s \in Status, NEW now \in Nat, NEW gpio \in SUBSET Pins,
         NEW pending \in SUBSET Pins, NEW periodic \in BOOLEAN
  PROVE  Observe(s, now, gpio, pending, periodic) \in Status
BY PowerAssumption DEF Observe, LowSeen, Counted, Status, Flags, Pins

\* It takes nothing out, counts no further than one, and keeps the summary.
LEMMA ObserveExtends ==
  ASSUME NEW s \in Status, NEW now \in Nat, NEW gpio \in SUBSET Pins,
         NEW pending \in SUBSET Pins, NEW periodic \in BOOLEAN, Summary(s)
  PROVE  /\ Extends(s, Observe(s, now, gpio, pending, periodic))
         /\ Summary(Observe(s, now, gpio, pending, periodic))
         /\ pending \cap Faults \subseteq Observe(s, now, gpio, pending, periodic).lowSeen
         /\ Observe(s, now, gpio, pending, periodic).sampled = now
<1>1. s.irqCount \in 0 .. CountMax /\ CountMax > 0 /\ s.maxGap \in Int /\ s.sampled \in Nat
  BY PowerAssumption DEF Status
<1>2. GapLimit \in Nat
  BY PowerAssumption
<1> DEFINE o == Observe(s, now, gpio, pending, periodic)
<1>3. Extends(s, o) /\ o.sampled = now /\ pending \cap Faults \subseteq o.lowSeen
  BY <1>1 DEF Observe, LowSeen, Counted, Extends
<1>4. "IRQ_SEEN" \in o.flags <=> o.irqCount > 0
  BY <1>1 DEF Observe, Counted, Summary
<1>5. "GAP_SEEN" \in o.flags <=> o.maxGap > GapLimit
  BY <1>1, <1>2 DEF Observe, Summary
<1> QED
  BY <1>3, <1>4, <1>5 DEF Summary

\* Sampled within a tick of the last time, it keeps the largest gap at one.
LEMMA ObserveGap ==
  ASSUME NEW s \in Status, NEW now \in Nat, NEW gpio \in SUBSET Pins,
         NEW pending \in SUBSET Pins, NEW periodic \in BOOLEAN,
         now - s.sampled <= 1, s.maxGap <= 1
  PROVE  Observe(s, now, gpio, pending, periodic).maxGap <= 1
BY DEF Observe, Counted, Status

LEMMA StartedType ==
  ASSUME NEW now \in Nat, NEW gpio \in SUBSET Pins
  PROVE  Started(now, gpio) \in Status /\ Summary(Started(now, gpio))
BY PowerAssumption DEF Started, Status, Summary

LEMMA ZeroType == Zero \in Status /\ NoHold \in Holds /\ Summary(Zero)
<1>1. Zero \in Status /\ Summary(Zero)
  BY StartedType DEF Zero
<1> QED
  BY <1>1, PowerAssumption DEF NoHold, Holds

-----------------------------------------------------------------------------
(***************************************************************************)
(* The invariant is inductive                                              *)
(***************************************************************************)
LEMMA InitInv == Init => IInv
<1> SUFFICES ASSUME Init PROVE IInv
  OBVIOUS
<1> USE PowerAssumption, ZeroType DEF Init
<1>1. TypeOK
  <2>1. tick \in 0 .. MaxTick /\ edges \in 0 .. MaxEdges
    BY DEF Init
  <2>2. /\ hold \in [sys : Holds, ext : Holds] /\ r \in Status /\ copy \in Status
        /\ fell \in SUBSET Faults
    BY DEF Init
  <2> QED
    BY <2>1, <2>2 DEF TypeOK
<1>2. Masked /\ OneOwner /\ Loaded
  BY DEF Masked, OneOwner, Loaded, NoHold
<1>3. RecordInv /\ CopyInv
  BY DEF RecordInv, CopyInv, Zero, Started, Summary
<1>4. FaultEdgeKept /\ SampledEveryTick
  BY DEF FaultEdgeKept, SampledEveryTick
<1> QED
  BY <1>1, <1>2, <1>3, <1>4 DEF IInv

LEMMA EdgeStep == ASSUME IInv, NEW p \in Pins, Edge(p) PROVE IInv'
<1> USE PowerAssumption DEF IInv, Edge, Latches
<1>1. TypeOK'
  BY DEF TypeOK, Holds, Status, NoHold, Zero
<1>2. Masked'
  BY DEF TypeOK, Masked, OneOwner, Loaded
<1>3. OneOwner'
  BY DEF TypeOK, Masked, OneOwner, Loaded
<1>4. Loaded'
  BY DEF TypeOK, Masked, OneOwner, Loaded
<1>5. RecordInv'
  BY DEF RecordInv, OneOwner, Summary
<1>6. CopyInv'
  BY DEF CopyInv, RecordInv, OneOwner, Masked, Summary
<1>7. FaultEdgeKept'
  BY DEF TypeOK, Masked, OneOwner, Loaded, FaultEdgeKept
<1>8. SampledEveryTick'
  BY DEF TypeOK, Masked, OneOwner, Loaded, SampledEveryTick
<1> QED
  BY <1>1, <1>2, <1>3, <1>4, <1>5, <1>6, <1>7, <1>8

LEMMA InitializeClearStep == ASSUME IInv, InitializeClear PROVE IInv'
<1> USE PowerAssumption DEF IInv, InitializeClear, InMain
<1>1. TypeOK'
  BY DEF TypeOK, Holds, Status, NoHold, Zero
<1>2. Masked'
  BY DEF TypeOK, Masked, OneOwner, Loaded
<1>3. OneOwner'
  BY DEF TypeOK, Masked, OneOwner, Loaded
<1>4. Loaded'
  BY DEF TypeOK, Masked, OneOwner, Loaded
<1>5. RecordInv'
  BY DEF RecordInv, OneOwner, Summary
<1>6. CopyInv'
  BY DEF CopyInv, RecordInv, OneOwner, Masked, Summary
<1>7. FaultEdgeKept'
  BY DEF RecordInv, FaultEdgeKept
<1>8. SampledEveryTick'
  BY DEF TypeOK, Masked, OneOwner, Loaded, SampledEveryTick
<1> QED
  BY <1>1, <1>2, <1>3, <1>4, <1>5, <1>6, <1>7, <1>8

LEMMA InitializeReadyStep == ASSUME IInv, InitializeReady PROVE IInv'
<1> USE PowerAssumption DEF IInv, InitializeReady, InMain, Configured
<1> DEFINE o == Observe(Started(tick, high), tick, high, {}, FALSE)
<1>a. /\ Started(tick, high) \in Status /\ Summary(Started(tick, high))
      /\ tick \in Nat /\ high \in SUBSET Pins /\ {} \in SUBSET Pins /\ FALSE \in BOOLEAN
      /\ tick - Started(tick, high).sampled <= 1 /\ Started(tick, high).maxGap <= 1
  <2>1. tick \in Nat /\ high \in SUBSET Pins
    BY DEF TypeOK
  <2> QED
    BY ONLY <2>1, StartedType DEF Started
<1>b. r' = o /\ o \in Status
  BY <1>a, ObserveType DEF Zero
<1>c. /\ Summary(o) /\ o.sampled = tick
  BY ONLY <1>a, ObserveExtends
<1>e. o.maxGap <= 1
  BY ONLY <1>a, ObserveGap
<1>1. TypeOK'
  BY <1>b, ZeroType DEF TypeOK
<1>2. Masked'
  BY DEF TypeOK, Masked, OneOwner
<1>3. OneOwner'
  BY DEF TypeOK, Masked, OneOwner
<1>4. Loaded'
  BY DEF TypeOK, Masked, OneOwner, Loaded, NoHold
<1>5. RecordInv'
  BY <1>b, <1>c DEF TypeOK, RecordInv, OneOwner
<1>6. CopyInv'
  <2>0. r' \in Status
    BY <1>b
  <2>1. r'.irqCount \in Nat
    BY ONLY <2>0, PowerAssumption DEF Status
  <2>2. copy' = Zero /\ pc'.main = "run"
    BY DEF RecordInv, OneOwner, TypeOK
  <2> QED
    BY ONLY <2>1, <2>2, ZeroType DEF CopyInv, Zero, Started
<1>7. FaultEdgeKept'
  <2>1. r.lowSeen = {} /\ pc.main = "arming"
    BY DEF OneOwner, RecordInv, Zero, Started
  <2>2. fell \subseteq pr1 \cup hold.ext.pending
    BY <2>1 DEF FaultEdgeKept
  <2> QED
    BY <2>2 DEF FaultEdgeKept
<1>8. SampledEveryTick'
  <2>1. r'.sampled = tick /\ r'.maxGap <= 1 /\ tick' = tick
    BY <1>b, <1>c, <1>e
  <2>2. pc'.sys = "idle"
    BY DEF TypeOK
  <2> QED
    BY ONLY <2>1, <2>2, <1>a DEF SampledEveryTick
<1> QED
  BY <1>1, <1>2, <1>3, <1>4, <1>5, <1>6, <1>7, <1>8

LEMMA SysTickStep == ASSUME IInv, SysTick PROVE IInv'
<1> USE PowerAssumption DEF IInv, SysTick
<1>1. TypeOK'
  BY DEF TypeOK, Holds, Status, NoHold, Zero
<1>2. Masked'
  BY DEF TypeOK, Masked, OneOwner, Loaded
<1>3. OneOwner'
  BY DEF TypeOK, Masked, OneOwner, Loaded
<1>4. Loaded'
  BY DEF TypeOK, Masked, OneOwner, Loaded
<1>5. RecordInv'
  BY DEF RecordInv, OneOwner, Summary
<1>6. CopyInv'
  BY DEF CopyInv, RecordInv, OneOwner, Masked, Summary
<1>7. FaultEdgeKept'
  BY DEF TypeOK, Masked, OneOwner, Loaded, FaultEdgeKept
<1>8. SampledEveryTick'
  BY DEF TypeOK, Status, OneOwner, SampledEveryTick
<1> QED
  BY <1>1, <1>2, <1>3, <1>4, <1>5, <1>6, <1>7, <1>8

LEMMA TickSampleStep == ASSUME IInv, TickSample PROVE IInv'
<1> USE PowerAssumption DEF IInv, TickSample, Sample
<1>1. TypeOK'
  BY DEF TypeOK, Holds, Status, NoHold, Zero
<1>2. Masked'
  BY DEF TypeOK, Masked, OneOwner, Loaded
<1>3. OneOwner'
  BY DEF TypeOK, Masked, OneOwner, Loaded
<1>4. Loaded'
  BY DEF TypeOK, Masked, OneOwner, Loaded
<1>5. RecordInv'
  BY DEF RecordInv, OneOwner, Summary
<1>6. CopyInv'
  BY DEF CopyInv, RecordInv, OneOwner, Masked, Summary
<1>7. FaultEdgeKept'
  BY DEF TypeOK, Masked, OneOwner, Loaded, FaultEdgeKept
<1>8. SampledEveryTick'
  BY DEF TypeOK, Masked, OneOwner, Loaded, SampledEveryTick
<1> QED
  BY <1>1, <1>2, <1>3, <1>4, <1>5, <1>6, <1>7, <1>8

LEMMA TickStoreStep == ASSUME IInv, TickStore PROVE IInv'
<1> USE PowerAssumption DEF IInv, TickStore, Store
<1> DEFINE o == Observe(hold.sys.old, hold.sys.now, hold.sys.gpio, hold.sys.pending, TRUE)
<1>a. /\ hold.sys.old \in Status /\ hold.sys.now \in Nat /\ hold.sys.gpio \in SUBSET Pins
      /\ hold.sys.pending \in SUBSET Pins /\ TRUE \in BOOLEAN
      /\ Summary(hold.sys.old)
  BY ZeroType DEF TypeOK, Holds, Loaded, RecordInv, Summary, Status, Zero
<1>b. r' = o /\ o \in Status
  BY <1>a, ObserveType DEF Zero
<1>c. /\ Extends(hold.sys.old, o) /\ Summary(o) /\ hold.sys.pending \cap Faults \subseteq o.lowSeen
      /\ o.sampled = hold.sys.now
  BY ONLY <1>a, ObserveExtends
<1>d. /\ hold.sys.now = tick /\ hold.sys.old = r /\ ready /\ tick \in Nat
      /\ r \in Status /\ r.sampled \in Nat /\ r.maxGap \in Int
      /\ tick - r.sampled <= 1 /\ r.maxGap <= 1
  BY DEF TypeOK, Status, Loaded, OneOwner, SampledEveryTick
<1>e. o.maxGap <= 1
  BY ONLY <1>a, <1>d, ObserveGap
<1>1. TypeOK'
  BY <1>b, ZeroType DEF TypeOK
<1>2. Masked'
  BY DEF TypeOK, Masked, OneOwner
<1>3. OneOwner'
  BY DEF TypeOK, Masked, OneOwner
<1>4. Loaded'
  BY DEF TypeOK, Masked, OneOwner, Loaded, NoHold
<1>5. RecordInv'
  BY <1>b, <1>c DEF TypeOK, RecordInv, OneOwner
<1>6. CopyInv'
  <2>1. /\ r.lowSeen \subseteq r'.lowSeen /\ r.highSeen \subseteq r'.highSeen
        /\ r.irqCount <= r'.irqCount /\ copy' = copy /\ pc'.main = "run" /\ pc.main = "run"
    BY <1>b, <1>c, <1>d DEF TypeOK, OneOwner, Extends
  <2>2. copy \in Status /\ r \in Status /\ r' \in Status
    BY <1>b DEF TypeOK
  <2>3. copy.irqCount \in Int /\ r.irqCount \in Int /\ r'.irqCount \in Int
    BY ONLY <2>2, PowerAssumption DEF Status
  <2>4. CopyInv
    OBVIOUS
  <2> QED
    BY ONLY <2>1, <2>3, <2>4 DEF CopyInv, Summary
<1>7. FaultEdgeKept'
  BY <1>b, <1>c DEF TypeOK, FaultEdgeKept, Extends, Masked, OneOwner, Loaded, RecordInv, NoHold, Zero
<1>8. SampledEveryTick'
  <2>1. r'.sampled = tick /\ r'.maxGap <= 1 /\ tick' = tick /\ pc'.sys \in {"idle", "tick"}
    BY <1>b, <1>c, <1>d, <1>e DEF TypeOK, OneOwner
  <2> QED
    BY ONLY <2>1, <1>d DEF SampledEveryTick
<1> QED
  BY <1>1, <1>2, <1>3, <1>4, <1>5, <1>6, <1>7, <1>8

LEMMA EventClearStep == ASSUME IInv, EventClear PROVE IInv'
<1> USE PowerAssumption DEF IInv, EventClear
<1>1. TypeOK'
  BY DEF TypeOK, Holds, Status, NoHold, Zero
<1>2. Masked'
  BY DEF TypeOK, Masked, OneOwner, Loaded
<1>3. OneOwner'
  BY DEF TypeOK, Masked, OneOwner, Loaded
<1>4. Loaded'
  BY DEF TypeOK, Masked, OneOwner, Loaded
<1>5. RecordInv'
  BY DEF RecordInv, OneOwner, Summary
<1>6. CopyInv'
  BY DEF CopyInv, RecordInv, OneOwner, Masked, Summary
<1>7. FaultEdgeKept'
  BY DEF TypeOK, Masked, OneOwner, Loaded, FaultEdgeKept
<1>8. SampledEveryTick'
  BY DEF TypeOK, Masked, OneOwner, Loaded, SampledEveryTick
<1> QED
  BY <1>1, <1>2, <1>3, <1>4, <1>5, <1>6, <1>7, <1>8

LEMMA EventSampleStep == ASSUME IInv, EventSample PROVE IInv'
<1> USE PowerAssumption DEF IInv, EventSample, Sample
<1>1. TypeOK'
  BY DEF TypeOK, Holds, Status, NoHold, Zero
<1>2. Masked'
  BY DEF TypeOK, Masked, OneOwner, Loaded
<1>3. OneOwner'
  BY DEF TypeOK, Masked, OneOwner, Loaded
<1>4. Loaded'
  BY DEF TypeOK, Masked, OneOwner, Loaded
<1>5. RecordInv'
  BY DEF RecordInv, OneOwner, Summary
<1>6. CopyInv'
  BY DEF CopyInv, RecordInv, OneOwner, Masked, Summary
<1>7. FaultEdgeKept'
  BY DEF TypeOK, Masked, OneOwner, Loaded, FaultEdgeKept
<1>8. SampledEveryTick'
  BY DEF TypeOK, Masked, OneOwner, Loaded, SampledEveryTick
<1> QED
  BY <1>1, <1>2, <1>3, <1>4, <1>5, <1>6, <1>7, <1>8

LEMMA EventStoreStep == ASSUME IInv, EventStore PROVE IInv'
<1> USE PowerAssumption DEF IInv, EventStore, Store
<1> DEFINE o == Observe(hold.ext.old, hold.ext.now, hold.ext.gpio, hold.ext.pending, FALSE)
<1>a. /\ hold.ext.old \in Status /\ hold.ext.now \in Nat /\ hold.ext.gpio \in SUBSET Pins
      /\ hold.ext.pending \in SUBSET Pins /\ FALSE \in BOOLEAN
      /\ Summary(hold.ext.old)
  BY ZeroType DEF TypeOK, Holds, Loaded, RecordInv, Summary, Status, Zero
<1>b. r' = o /\ o \in Status
  BY <1>a, ObserveType DEF Zero
<1>c. /\ Extends(hold.ext.old, o) /\ Summary(o) /\ hold.ext.pending \cap Faults \subseteq o.lowSeen
      /\ o.sampled = hold.ext.now
  BY ONLY <1>a, ObserveExtends
<1>d. /\ hold.ext.now = tick /\ hold.ext.old = r /\ ready /\ tick \in Nat
      /\ r \in Status /\ r.sampled \in Nat /\ r.maxGap \in Int
      /\ tick - r.sampled <= 1 /\ r.maxGap <= 1
  BY DEF TypeOK, Status, Loaded, OneOwner, SampledEveryTick
<1>e. o.maxGap <= 1
  BY ONLY <1>a, <1>d, ObserveGap
<1>1. TypeOK'
  BY <1>b, ZeroType DEF TypeOK
<1>2. Masked'
  BY DEF TypeOK, Masked, OneOwner
<1>3. OneOwner'
  BY DEF TypeOK, Masked, OneOwner
<1>4. Loaded'
  BY DEF TypeOK, Masked, OneOwner, Loaded, NoHold
<1>5. RecordInv'
  BY <1>b, <1>c DEF TypeOK, RecordInv, OneOwner
<1>6. CopyInv'
  <2>1. /\ r.lowSeen \subseteq r'.lowSeen /\ r.highSeen \subseteq r'.highSeen
        /\ r.irqCount <= r'.irqCount /\ copy' = copy /\ pc'.main = "run" /\ pc.main = "run"
    BY <1>b, <1>c, <1>d DEF TypeOK, OneOwner, Extends
  <2>2. copy \in Status /\ r \in Status /\ r' \in Status
    BY <1>b DEF TypeOK
  <2>3. copy.irqCount \in Int /\ r.irqCount \in Int /\ r'.irqCount \in Int
    BY ONLY <2>2, PowerAssumption DEF Status
  <2>4. CopyInv
    OBVIOUS
  <2> QED
    BY ONLY <2>1, <2>3, <2>4 DEF CopyInv, Summary
<1>7. FaultEdgeKept'
  BY <1>b, <1>c DEF TypeOK, FaultEdgeKept, Extends, Masked, OneOwner, Loaded, RecordInv, NoHold, Zero
<1>8. SampledEveryTick'
  <2>1. r'.sampled = tick /\ r'.maxGap <= 1 /\ tick' = tick /\ pc'.sys \in {"idle", "tick"}
    BY <1>b, <1>c, <1>d, <1>e DEF TypeOK, OneOwner
  <2> QED
    BY ONLY <2>1, <1>d DEF SampledEveryTick
<1> QED
  BY <1>1, <1>2, <1>3, <1>4, <1>5, <1>6, <1>7, <1>8

LEMMA StatusBeginStep == ASSUME IInv, StatusBegin PROVE IInv'
<1> USE PowerAssumption DEF IInv, StatusBegin, InMain
<1>1. TypeOK'
  BY DEF TypeOK, Holds, Status, NoHold, Zero
<1>2. Masked'
  BY DEF TypeOK, Masked, OneOwner, Loaded
<1>3. OneOwner'
  BY DEF TypeOK, Masked, OneOwner, Loaded
<1>4. Loaded'
  BY DEF TypeOK, Masked, OneOwner, Loaded
<1>5. RecordInv'
  BY DEF RecordInv, OneOwner, Summary
<1>6. CopyInv'
  BY DEF CopyInv, RecordInv, OneOwner, Masked, Summary
<1>7. FaultEdgeKept'
  BY DEF TypeOK, Masked, OneOwner, Loaded, FaultEdgeKept
<1>8. SampledEveryTick'
  BY DEF TypeOK, Masked, OneOwner, Loaded, SampledEveryTick
<1> QED
  BY <1>1, <1>2, <1>3, <1>4, <1>5, <1>6, <1>7, <1>8

LEMMA StatusEndStep == ASSUME IInv, StatusEnd PROVE IInv'
<1> USE PowerAssumption DEF IInv, StatusEnd, InMain
<1>1. TypeOK'
  BY DEF TypeOK, Holds, Status, NoHold, Zero
<1>2. Masked'
  BY DEF TypeOK, Masked, OneOwner, Loaded
<1>3. OneOwner'
  BY DEF TypeOK, Masked, OneOwner, Loaded
<1>4. Loaded'
  BY DEF TypeOK, Masked, OneOwner, Loaded
<1>5. RecordInv'
  BY DEF RecordInv, OneOwner, Summary
<1>6. CopyInv'
  BY DEF TypeOK, Status, CopyInv, RecordInv, OneOwner, Masked, Summary
<1>7. FaultEdgeKept'
  BY DEF TypeOK, Masked, OneOwner, Loaded, FaultEdgeKept
<1>8. SampledEveryTick'
  BY DEF TypeOK, Masked, OneOwner, Loaded, SampledEveryTick
<1> QED
  BY <1>1, <1>2, <1>3, <1>4, <1>5, <1>6, <1>7, <1>8

LEMMA EventEnterStep == ASSUME IInv, NEW p \in Pins, EventEnter(p) PROVE IInv'
<1> USE PowerAssumption DEF IInv, EventEnter
<1>1. TypeOK'
  <2>1. [NoHold EXCEPT !.pending = pr1 \cap {p}] \in Holds
    BY ZeroType DEF TypeOK, Holds
  <2> QED
    BY <2>1 DEF TypeOK
<1>2. Masked'
  BY DEF TypeOK, Masked, OneOwner, Loaded
<1>3. OneOwner'
  BY DEF TypeOK, Masked, OneOwner, Loaded
<1>4. Loaded'
  BY DEF TypeOK, Masked, OneOwner, Loaded
<1>5. RecordInv'
  BY DEF RecordInv, OneOwner, Summary
<1>6. CopyInv'
  BY DEF CopyInv, RecordInv, OneOwner, Masked, Summary
<1>7. FaultEdgeKept'
  BY DEF TypeOK, Masked, OneOwner, Loaded, FaultEdgeKept
<1>8. SampledEveryTick'
  BY DEF TypeOK, Masked, OneOwner, Loaded, SampledEveryTick
<1> QED
  BY <1>1, <1>2, <1>3, <1>4, <1>5, <1>6, <1>7, <1>8

LEMMA NextInv == IInv /\ [Next]_vars => IInv'
<1> SUFFICES ASSUME IInv, [Next]_vars PROVE IInv'
  OBVIOUS
<1>1. CASE UNCHANGED vars
  BY <1>1 DEF vars, IInv, TypeOK, Masked, OneOwner, Loaded, RecordInv, CopyInv, Summary,
     FaultEdgeKept, SampledEveryTick
<1>2. CASE Next
  BY <1>2, EdgeStep, EventEnterStep, InitializeClearStep, InitializeReadyStep, SysTickStep, TickSampleStep, TickStoreStep, EventClearStep, EventSampleStep, EventStoreStep, StatusBeginStep, StatusEndStep DEF Next, Handlers
<1> QED
  BY <1>1, <1>2

\* The invariant holds of every behaviour.
THEOREM Invariant == Spec => []IInv
<1> QED
  BY InitInv, NextInv, PTL DEF Spec

\* No fault edge is lost (FaultEdgeKept), whatever preempts whom.
THEOREM NoFaultEdgeLost == Spec => []FaultEdgeKept
<1>1. IInv => FaultEdgeKept
  BY DEF IInv
<1> QED
  BY <1>1, Invariant, PTL

\* The published record is of one moment (CopyCoherent).
THEOREM CopyIsCoherent == Spec => []CopyCoherent
<1>1. IInv => CopyCoherent
  BY DEF IInv, CopyInv, CopyCoherent, Summary
<1> QED
  BY <1>1, Invariant, PTL

\* The record keeps up with the clock, and the gap it reports never exceeds
\* one tick (SampledEveryTick).
THEOREM GapNeverShows == Spec => []SampledEveryTick
<1>1. IInv => SampledEveryTick
  BY DEF IInv
<1> QED
  BY <1>1, Invariant, PTL

\* The histories never shrink, in the record or in its copies (HistoryNeverCleared).
LEMMA ExtendsStep == IInv /\ [Next]_vars => Extends(r, r') /\ Extends(copy, copy')
<1> SUFFICES ASSUME IInv, [Next]_vars PROVE Extends(r, r') /\ Extends(copy, copy')
  OBVIOUS
<1> USE PowerAssumption DEF Extends
<1>1. r \in Status /\ copy \in Status /\ r.irqCount \in Int /\ copy.irqCount \in Int
  BY DEF IInv, TypeOK, Status
<1>2. CASE r' = r /\ copy' = copy
  BY <1>1, <1>2
<1>3. CASE InitializeReady
  <2>1. r.lowSeen = {} /\ r.highSeen = {} /\ r.irqCount = 0 /\ copy' = copy
    BY <1>3 DEF IInv, RecordInv, OneOwner, InitializeReady, InMain, Zero, Started
  <2>2. r' \in Status
    BY <1>3, InitializeReadyStep DEF IInv, TypeOK
  <2>3. r'.irqCount \in Nat
    BY ONLY <2>2, PowerAssumption DEF Status
  <2> QED
    BY <1>1, <2>1, <2>3
<1>4. ASSUME NEW who \in {"sys", "ext"}, NEW periodic \in BOOLEAN, pc[who] = "store",
             Store(who, periodic), copy' = copy
      PROVE  Extends(r, r') /\ Extends(copy, copy')
  <2>1. /\ hold[who].now \in Nat /\ hold[who].gpio \in SUBSET Pins
        /\ hold[who].pending \in SUBSET Pins /\ hold[who].old = r /\ Summary(r)
    BY <1>4 DEF IInv, TypeOK, Holds, Loaded, RecordInv
  <2>2. Extends(r, r')
    BY <1>1, <1>4, <2>1, ObserveExtends DEF Store
  <2> QED
    BY <1>1, <1>4, <2>2
<1>5. CASE StatusBegin
  BY <1>1, <1>5 DEF IInv, CopyInv, StatusBegin, Status
<1>6. CASE StatusEnd
  BY <1>1, <1>6 DEF IInv, CopyInv, StatusEnd, Status
<1>7. CASE TickStore
  BY <1>4, <1>7 DEF TickStore
<1>8. CASE EventStore
  BY <1>4, <1>8 DEF EventStore
<1> QED
  BY <1>2, <1>3, <1>5, <1>6, <1>7, <1>8 DEF Next, Handlers, vars, Edge, InitializeClear, SysTick, TickSample,
     EventEnter, EventClear, EventSample

THEOREM HistoryIsNeverCleared == Spec => HistoryNeverCleared
<1> QED
  BY Invariant, ExtendsStep, PTL DEF Spec, HistoryNeverCleared
-----------------------------------------------------------------------------
(***************************************************************************)
(* The count of interrupts is a lower bound                                *)
(*                                                                         *)
(* An edge of the hardware is still latched, or in the hands of the event  *)
(* handler, or counted, or merged with one of the same input: each of the  *)
(* first three is at most once what `edges' counted.                       *)
(***************************************************************************)
InHand == IF pc.ext \in {"sample", "store"} THEN 1 ELSE 0

HandlerInv ==
  /\ hold.sys.pending = {}
  /\ pc.ext # "idle" => \E p \in Pins : hold.ext.pending = {p}
  /\ pc.ext = "clear" => hold.ext.pending \subseteq pr1

EdgeInv ==
  pc.main # "boot" =>
    IsFiniteSet(pr1) /\ Cardinality(pr1) + InHand + r.irqCount <= edges

SaturatedInv == "COUNT_SATURATED" \in r.flags => r.irqCount = CountMax

CountInv == HandlerInv /\ EdgeInv /\ SaturatedInv

LEMMA InitCount == Init => CountInv
BY PowerAssumption DEF Init, CountInv, HandlerInv, EdgeInv, SaturatedInv, NoHold, Zero, Started

\* What an observation does to the count.
Counts(s, o, pending) ==
  /\ pending = {} => o.irqCount = s.irqCount
  /\ o.irqCount \in Nat /\ o.irqCount <= s.irqCount + 1
  /\ "COUNT_SATURATED" \in o.flags =>
       "COUNT_SATURATED" \in s.flags \/ o.irqCount = CountMax
  /\ s.irqCount = CountMax => o.irqCount = CountMax

LEMMA ObserveCount ==
  ASSUME NEW s \in Status, NEW now, NEW gpio, NEW pending, NEW periodic
  PROVE  s.irqCount \in Nat /\ Counts(s, Observe(s, now, gpio, pending, periodic), pending)
<1>1. s.irqCount \in Nat /\ CountMax \in Nat
  BY PowerAssumption DEF Status
<1> QED BY <1>1 DEF Observe, Counted, Counts

\* The latch gains one input, or loses the one that is handled.
LEMMA LatchOne ==
  ASSUME NEW S, IsFiniteSet(S), NEW p
  PROVE  /\ Cardinality(S) \in Nat
         /\ IsFiniteSet(S \cup {p}) /\ Cardinality(S \cup {p}) \in Nat
         /\ Cardinality(S \cup {p}) <= Cardinality(S) + 1
         /\ IsFiniteSet(S \ {p}) /\ Cardinality(S \ {p}) \in Nat
         /\ p \in S => Cardinality(S \ {p}) = Cardinality(S) - 1
<1>1. Cardinality(S) \in Nat
  BY FS_CardinalityType
<1>2. IsFiniteSet(S \cup {p}) /\ Cardinality(S \cup {p}) <= Cardinality(S) + 1
  BY <1>1, FS_AddElement
<1>3. IsFiniteSet(S \ {p}) /\ (p \in S => Cardinality(S \ {p}) = Cardinality(S) - 1)
  BY <1>1, FS_RemoveElement
<1> QED BY <1>1, <1>2, <1>3, FS_CardinalityType

LEMMA EdgeCount ==
  ASSUME IInv, CountInv, NEW p \in Pins, Edge(p)
  PROVE  CountInv'
<1>1. /\ UNCHANGED <<pc, hold, r>> /\ pc.main # "boot"
      /\ \/ pr1' = pr1 \cup {p} /\ edges' = edges + 1
         \/ pr1' = pr1 /\ edges' = edges
  BY DEF Edge
<1>2. HandlerInv' /\ SaturatedInv'
  BY <1>1 DEF CountInv, HandlerInv, SaturatedInv
<1>3. EdgeInv'
  <2>1. /\ edges \in Nat /\ r.irqCount \in Nat /\ InHand \in Nat
        /\ IsFiniteSet(pr1) /\ Cardinality(pr1) + InHand + r.irqCount <= edges
    BY <1>1, PowerAssumption DEF IInv, TypeOK, Status, CountInv, EdgeInv, InHand
  <2>2. InHand' = InHand /\ r' = r
    BY <1>1 DEF InHand
  <2>3. Cardinality(pr1) \in Nat /\ IsFiniteSet(pr1 \cup {p})
        /\ Cardinality(pr1 \cup {p}) \in Nat /\ Cardinality(pr1 \cup {p}) <= Cardinality(pr1) + 1
    BY <2>1, LatchOne
  <2>4. CASE pr1' = pr1 \cup {p} /\ edges' = edges + 1
    BY <2>1, <2>2, <2>3, <2>4 DEF EdgeInv
  <2>5. CASE pr1' = pr1 /\ edges' = edges
    BY <2>1, <2>2, <2>5 DEF EdgeInv
  <2> QED BY <1>1, <2>4, <2>5
<1> QED BY <1>2, <1>3 DEF CountInv

LEMMA InitializeCount ==
  ASSUME IInv, CountInv, InitializeClear \/ InitializeReady
  PROVE  CountInv'
<1>0. /\ pc.ext = "idle" /\ pc.main # "run" /\ r.irqCount = 0 /\ r.flags = {}
      /\ edges \in Nat /\ pc'.ext = "idle" /\ hold' = hold /\ edges' = edges
  BY DEF IInv, TypeOK, OneOwner, RecordInv, Zero, Started, InitializeClear, InitializeReady,
         InMain
<1>1. HandlerInv'
  BY <1>0 DEF CountInv, HandlerInv
<1>2. CASE InitializeClear
  <2>1. pr1' = {} /\ r' = r /\ InHand' = 0
    BY <1>0, <1>2 DEF InitializeClear, InHand
  <2>2. IsFiniteSet({}) /\ Cardinality({}) = 0
    BY FS_EmptySet
  <2> QED BY <1>0, <1>1, <2>1, <2>2 DEF CountInv, EdgeInv, SaturatedInv
<1>3. CASE InitializeReady
  <2>1. pr1' = pr1 /\ pc.main = "arming" /\ InHand' = 0 /\ InHand = 0
    BY <1>0, <1>3 DEF InitializeReady, InMain, InHand
  <2>2. r' = Observe(Started(tick, high), tick, high, {}, FALSE)
    BY <1>3 DEF InitializeReady, Configured
  <2>3. Started(tick, high) \in Status
    BY StartedType, PowerAssumption DEF IInv, TypeOK
  <2>5. Counts(Started(tick, high), r', {})
    BY <2>2, <2>3, ObserveCount
  <2>4. r'.irqCount = 0 /\ SaturatedInv'
    BY <2>5 DEF Counts, Started, SaturatedInv
  <2> QED BY <1>0, <1>1, <2>1, <2>4 DEF CountInv, EdgeInv
<1> QED BY <1>2, <1>3

LEMMA HandlerCount ==
  ASSUME IInv, CountInv,
         TickSample \/ TickStore \/ (\E p \in Pins : EventEnter(p)) \/ EventClear
         \/ EventSample \/ EventStore
  PROVE  CountInv'
<1>a. /\ edges \in Nat /\ r \in Status
      /\ hold \in [sys : Holds, ext : Holds]
      /\ pc \in [main : {"boot", "arming", "run", "copying"}, sys : {"idle", "tick", "store"},
                 ext : {"idle", "clear", "sample", "store"}]
  BY PowerAssumption DEF IInv, TypeOK
<1>b. r.irqCount \in Nat
  BY <1>a, PowerAssumption DEF Status
<1>c. edges' = edges
  BY DEF TickSample, TickStore, EventEnter, EventClear, EventSample, EventStore
<1>0. /\ edges \in Nat /\ r \in Status /\ r.irqCount \in Nat /\ edges' = edges
      /\ hold \in [sys : Holds, ext : Holds]
      /\ pc \in [main : {"boot", "arming", "run", "copying"}, sys : {"idle", "tick", "store"},
                 ext : {"idle", "clear", "sample", "store"}]
      /\ HandlerInv /\ EdgeInv /\ SaturatedInv
  BY <1>a, <1>b, <1>c DEF CountInv
<1>1. CASE TickSample
  <2>1. /\ UNCHANGED <<pr1, r>> /\ pc'.main = pc.main /\ pc'.ext = pc.ext
        /\ hold'.sys.pending = {} /\ hold'.ext = hold.ext
    BY <1>0, <1>1 DEF TickSample, Sample
  <2> QED BY <1>0, <2>1 DEF CountInv, HandlerInv, EdgeInv, SaturatedInv, InHand
<1>2. CASE TickStore
  <2>1. /\ UNCHANGED pr1 /\ pc'.main = pc.main /\ pc'.ext = pc.ext
        /\ hold'.sys.pending = {} /\ hold'.ext = hold.ext /\ hold.sys.old = r
        /\ r' = Observe(r, hold.sys.now, hold.sys.gpio, {}, TRUE)
    BY <1>0, <1>2 DEF TickStore, Store, IInv, Loaded, NoHold, HandlerInv
  <2>2. Counts(r, r', {})
    BY <1>0, <2>1, ObserveCount
  <2>3. r'.irqCount = r.irqCount /\ SaturatedInv'
    BY <1>0, <2>2 DEF Counts, SaturatedInv
  <2> QED BY <1>0, <2>1, <2>3 DEF CountInv, HandlerInv, EdgeInv, InHand
<1>3. ASSUME NEW p \in Pins, EventEnter(p)
      PROVE  CountInv'
  <2>1. /\ UNCHANGED <<pr1, r>> /\ pc'.main = pc.main /\ pc'.ext = "clear" /\ pc.ext = "idle"
        /\ hold'.sys = hold.sys /\ hold'.ext.pending = {p} /\ p \in pr1
    BY <1>0, <1>3 DEF EventEnter, NoHold
  <2>2. InHand' = InHand
    BY <2>1 DEF InHand
  <2> QED BY <1>0, <1>3, <2>1, <2>2 DEF CountInv, HandlerInv, EdgeInv, SaturatedInv
<1>4. CASE EventClear
  <2>1. /\ UNCHANGED <<r, hold>> /\ pc'.main = pc.main /\ pc'.ext = "sample"
        /\ pc.ext = "clear" /\ pc.main # "boot"
        /\ pr1' = pr1 \ hold.ext.pending
    BY <1>0, <1>4 DEF EventClear, IInv, OneOwner
  <2>2. PICK p \in Pins : hold.ext.pending = {p}
    BY <1>0, <2>1 DEF HandlerInv
  <2>3. p \in pr1 /\ IsFiniteSet(pr1) /\ Cardinality(pr1) + InHand + r.irqCount <= edges
    BY <1>0, <2>1, <2>2 DEF HandlerInv, EdgeInv
  <2>4. /\ IsFiniteSet(pr1') /\ Cardinality(pr1) \in Nat
        /\ Cardinality(pr1') = Cardinality(pr1) - 1
    BY <2>1, <2>2, <2>3, LatchOne
  <2>5. InHand = 0 /\ InHand' = 1
    BY <2>1 DEF InHand
  <2>6. EdgeInv'
    BY <1>0, <2>1, <2>3, <2>4, <2>5 DEF EdgeInv
  <2> QED BY <1>0, <2>1, <2>6 DEF CountInv, HandlerInv, SaturatedInv
<1>5. CASE EventSample
  <2>1. /\ UNCHANGED <<pr1, r>> /\ pc'.main = pc.main /\ pc'.ext = "store"
        /\ pc.ext = "sample" /\ hold'.sys = hold.sys
        /\ hold'.ext.pending = hold.ext.pending
    BY <1>0, <1>5 DEF EventSample, Sample
  <2> QED BY <1>0, <2>1 DEF CountInv, HandlerInv, EdgeInv, SaturatedInv, InHand
<1>6. CASE EventStore
  <2>1. /\ UNCHANGED pr1 /\ pc'.main = pc.main /\ pc'.ext = "idle" /\ pc.ext = "store"
        /\ pc.main # "boot" /\ hold'.sys = hold.sys /\ hold.ext.old = r
        /\ r' = Observe(r, hold.ext.now, hold.ext.gpio, hold.ext.pending, FALSE)
    BY <1>0, <1>6 DEF EventStore, Store, IInv, Loaded, OneOwner
  <2>7. Counts(r, r', hold.ext.pending)
    BY <1>0, <2>1, ObserveCount
  <2>2. r'.irqCount \in Nat /\ r'.irqCount <= r.irqCount + 1 /\ SaturatedInv'
    BY <1>0, <2>7 DEF Counts, SaturatedInv
  <2>3. InHand = 1 /\ InHand' = 0
    BY <2>1 DEF InHand
  <2>4. IsFiniteSet(pr1) /\ Cardinality(pr1) \in Nat
        /\ Cardinality(pr1) + InHand + r.irqCount <= edges
    BY <1>0, <2>1, FS_CardinalityType DEF EdgeInv
  <2>5. EdgeInv'
    <3>1. Cardinality(pr1) + 0 + r'.irqCount <= edges
      BY <1>0, <2>2, <2>3, <2>4
    <3> QED BY <1>0, <2>1, <2>3, <2>4, <3>1 DEF EdgeInv
  <2> QED BY <1>0, <2>1, <2>2, <2>5 DEF CountInv, HandlerInv
<1> QED BY <1>1, <1>2, <1>3, <1>4, <1>5, <1>6

LEMMA NextCount == IInv /\ CountInv /\ [Next]_vars => CountInv'
<1> SUFFICES ASSUME IInv, CountInv, [Next]_vars PROVE CountInv'
  OBVIOUS
<1>1. CASE SysTick \/ StatusBegin \/ StatusEnd \/ UNCHANGED vars
  <2>1. UNCHANGED <<pr1, hold, r, edges>> /\ pc'.ext = pc.ext
        /\ (pc'.main = "boot" <=> pc.main = "boot")
    BY <1>1 DEF IInv, TypeOK, SysTick, StatusBegin, StatusEnd, InMain, vars
  <2> QED BY <2>1 DEF CountInv, HandlerInv, EdgeInv, SaturatedInv, InHand
<1> QED BY <1>1, EdgeCount, InitializeCount, HandlerCount DEF Next, Handlers

\* The record, its copy and what the handlers hold keep their types (power_status.h), for
\* every set of inputs: no flag, input or count outside what the host can decode.
THEOREM TypeCorrect == Spec => []TypeOK
<1>1. IInv => TypeOK
  BY DEF IInv
<1> QED
  BY <1>1, Invariant, PTL

\* However edges merge in the latch and handlers interleave, irq_count never exceeds the
\* edges there were, and only a full counter is flagged saturated (power_status.c:31-34):
\* the host may report it as a lower bound.
THEOREM CountNeverExceeds == Spec => []CountIsLowerBound
<1>1. Init => CountInv
  BY InitCount
<1>2. IInv /\ CountInv => CountIsLowerBound
  <2> SUFFICES ASSUME IInv, CountInv PROVE CountIsLowerBound
    OBVIOUS
  <2>1. r.irqCount \in Nat /\ edges \in Nat
    BY PowerAssumption DEF IInv, TypeOK, Status
  <2>2. CASE pc.main = "boot"
    BY <2>1, <2>2 DEF IInv, OneOwner, RecordInv, Zero, Started, CountInv, SaturatedInv,
       CountIsLowerBound
  <2>3. CASE pc.main # "boot"
    <3>1. Cardinality(pr1) \in Nat /\ InHand \in Nat
          /\ Cardinality(pr1) + InHand + r.irqCount <= edges
      BY <2>3, FS_CardinalityType DEF CountInv, EdgeInv, InHand
    <3> QED BY <2>1, <3>1 DEF CountInv, SaturatedInv, CountIsLowerBound
  <2> QED BY <2>2, <2>3
<1> QED
  BY <1>1, <1>2, NextCount, Invariant, PTL DEF Spec
=============================================================================
