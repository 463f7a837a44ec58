------------------------- MODULE StorageArbiterProofs -------------------------
(***************************************************************************)
(* Proofs about StorageArbiter, for any number of commands in a phase.     *)
(* The flag storage_busy and the status together are the lock: the         *)
(* invariant says what each place of the main loop and of the dump implies *)
(* about them and about the controller.                                    *)
(***************************************************************************)
EXTENDS StorageArbiter, TLAPS

InCall == main \in {"init", "settle", "identify", "scan", "progress", "append", "wait"}

\* storage_busy is set exactly during a call, and calls do not overlap.
Locked ==
  /\ busy = 1 <=> usb.pc # "idle" \/ InCall
  /\ usb.pc # "idle" => main = "loop"

\* The status tells where the main loop is...
Phase ==
  /\ main = "boot" => store.status = "NOT_STARTED"
  /\ InCall /\ main \notin {"append", "wait"} => store.status = "SCANNING"
  /\ main \in {"scan", "progress"} => store.initialized = 1
  /\ main \in {"append", "wait"} => store.status = "READY" /\ mode = "RECORD"
  /\ main = "loop" => store.status \in {"READY", "STOPPED"}

\* ...and, together with the dump's place, what the controller does.
Controller ==
  /\ store.status # "STOPPED" =>
       qspi = [state |-> IF store.mapped = 1 THEN "MAPPED" ELSE "INDIRECT", cs |-> "CONNECTED"]
  /\ store.status \in {"NOT_STARTED", "SCANNING"} => store.mapped = 0
  /\ mode = "RECORD" => store.mapped = 0
  /\ store.status = "READY" =>
       /\ store.initialized = 1
       /\ usb.pc \in {"idle", "abort"} => store.mapped = MappedWhenReady
       /\ usb.pc \in {"read", "map"} => store.mapped = 0

Dump ==
  usb.pc # "idle" =>
    /\ store.status = "READY"
    /\ usb.wasMapped = MappedWhenReady
    /\ usb.pc \in {"abort", "map"} => usb.wasMapped = 1

IInv == TypeOK /\ Locked /\ Phase /\ Controller /\ Dump /\ PublishedSettled

\* A storage that stops keeps everything but its status, and records why.
LEMMA StoppedIs ==
  ASSUME NEW s \in Store, NEW e \in Errors
  PROVE  /\ Stopped(s, e) \in Store /\ Stopped(s, e).status = "STOPPED"
         /\ Stopped(s, e).mapped = s.mapped /\ Stopped(s, e).initialized = s.initialized
         /\ s.history \subseteq Stopped(s, e).history
BY DEF Stopped, Store

LEMMA ErrorNames == {"CLOCK", "IO", "BOUNDS", "CHECK"} \subseteq Errors
BY DEF Errors

LEMMA InitInv == Init => IInv
BY ArbiterAssumption DEF Init, IInv, TypeOK, Store, InCall, Locked, Phase, Controller, Dump,
   PublishedSettled, QspiStates, MappedWhenReady

LEMMA BeginStep == ASSUME IInv, Begin PROVE IInv'
<1> USE ArbiterAssumption, StoppedIs, ErrorNames DEF IInv, TypeOK, Store, QspiStates, MappedWhenReady, Begin, MainAt
<1>1. TypeOK'
  OBVIOUS
<1>2. Locked'
  BY DEF InCall, Locked
<1>3. Phase'
  BY DEF InCall, Locked, Phase
<1>4. Controller'
  BY DEF InCall, Locked, Phase, Controller, Dump
<1>5. Dump'
  BY DEF InCall, Locked, Phase, Controller, Dump
<1>6. PublishedSettled'
  BY DEF InCall, Locked, Phase, Controller, PublishedSettled
<1> QED
  BY <1>1, <1>2, <1>3, <1>4, <1>5, <1>6

LEMMA InitBusStep == ASSUME IInv, InitBus PROVE IInv'
<1> USE ArbiterAssumption, StoppedIs, ErrorNames DEF IInv, TypeOK, Store, QspiStates, MappedWhenReady, InitBus, MainAt, Return, ReturnFailed
<1>1. TypeOK'
  OBVIOUS
<1>2. Locked'
  BY DEF InCall, Locked
<1>3. Phase'
  BY DEF InCall, Locked, Phase
<1>4. Controller'
  BY DEF InCall, Locked, Phase, Controller, Dump
<1>5. Dump'
  BY DEF InCall, Locked, Phase, Controller, Dump
<1>6. PublishedSettled'
  BY DEF InCall, Locked, Phase, Controller, PublishedSettled
<1> QED
  BY <1>1, <1>2, <1>3, <1>4, <1>5, <1>6

LEMMA IdentifyStep == ASSUME IInv, Identify PROVE IInv'
<1> USE ArbiterAssumption, StoppedIs, ErrorNames DEF IInv, TypeOK, Store, QspiStates, MappedWhenReady, Identify, MainAt, Return, ReturnFailed, Command, Failing
<1>1. TypeOK'
  OBVIOUS
<1>2. Locked'
  BY DEF InCall, Locked
<1>3. Phase'
  BY DEF InCall, Locked, Phase
<1>4. Controller'
  BY DEF InCall, Locked, Phase, Controller, Dump
<1>5. Dump'
  BY DEF InCall, Locked, Phase, Controller, Dump
<1>6. PublishedSettled'
  BY DEF InCall, Locked, Phase, Controller, PublishedSettled
<1> QED
  BY <1>1, <1>2, <1>3, <1>4, <1>5, <1>6

LEMMA IdentifiedStep == ASSUME IInv, Identified PROVE IInv'
<1> USE ArbiterAssumption, StoppedIs, ErrorNames DEF IInv, TypeOK, Store, QspiStates, MappedWhenReady, Identified, MainAt
<1>1. TypeOK'
  OBVIOUS
<1>2. Locked'
  BY DEF InCall, Locked
<1>3. Phase'
  BY DEF InCall, Locked, Phase
<1>4. Controller'
  BY DEF InCall, Locked, Phase, Controller, Dump
<1>5. Dump'
  BY DEF InCall, Locked, Phase, Controller, Dump
<1>6. PublishedSettled'
  BY DEF InCall, Locked, Phase, Controller, PublishedSettled
<1> QED
  BY <1>1, <1>2, <1>3, <1>4, <1>5, <1>6

LEMMA ScanSectorStep == ASSUME IInv, ScanSector PROVE IInv'
<1> USE ArbiterAssumption, StoppedIs, ErrorNames DEF IInv, TypeOK, Store, QspiStates, MappedWhenReady, ScanSector, MainAt, Read, Return, ReturnFailed, Command, Failing
<1>1. TypeOK'
  OBVIOUS
<1>2. Locked'
  BY DEF InCall, Locked
<1>3. Phase'
  BY DEF InCall, Locked, Phase
<1>4. Controller'
  BY DEF InCall, Locked, Phase, Controller, Dump
<1>5. Dump'
  BY DEF InCall, Locked, Phase, Controller, Dump
<1>6. PublishedSettled'
  BY DEF InCall, Locked, Phase, Controller, PublishedSettled
<1> QED
  BY <1>1, <1>2, <1>3, <1>4, <1>5, <1>6

LEMMA ProgressStep == ASSUME IInv, Progress PROVE IInv'
<1> USE ArbiterAssumption, StoppedIs, ErrorNames DEF IInv, TypeOK, Store, QspiStates, MappedWhenReady, Progress, MainAt
<1>1. TypeOK'
  OBVIOUS
<1>2. Locked'
  BY DEF InCall, Locked
<1>3. Phase'
  BY DEF InCall, Locked, Phase
<1>4. Controller'
  BY DEF InCall, Locked, Phase, Controller, Dump
<1>5. Dump'
  BY DEF InCall, Locked, Phase, Controller, Dump
<1>6. PublishedSettled'
  BY DEF InCall, Locked, Phase, Controller, PublishedSettled
<1> QED
  BY <1>1, <1>2, <1>3, <1>4, <1>5, <1>6

LEMMA ScanDoneStep == ASSUME IInv, ScanDone PROVE IInv'
<1> USE ArbiterAssumption, StoppedIs, ErrorNames DEF IInv, TypeOK, Store, QspiStates, MappedWhenReady, ScanDone, MainAt, Return, ReturnFailed
<1>b. /\ main = "scan" /\ usb.pc = "idle" /\ store.status = "SCANNING" /\ store.mapped = 0
      /\ qspi = [state |-> "INDIRECT", cs |-> "CONNECTED"]
      /\ UNCHANGED <<mode, usb>>
  BY DEF InCall, Phase, Controller
<1>c. store.initialized = 1
  BY <1>b DEF Phase
<1>d. CASE /\ mode = "INSPECT" /\ qspi' = [qspi EXCEPT !.state = "MAPPED"]
           /\ Return([store EXCEPT !.status = "READY", !.mapped = 1])
  <2>1. /\ store' = [store EXCEPT !.status = "READY", !.mapped = 1] /\ frame' = store'
        /\ busy' = 0 /\ main' = "loop" /\ left' = 0
        /\ qspi' = [state |-> "MAPPED", cs |-> "CONNECTED"]
    BY <1>b, <1>d
  <2>a. store \in Store
    OBVIOUS
  <2>0. store' \in Store /\ frame' \in Store
    <3>1. store' = [[store EXCEPT !.status = "READY"] EXCEPT !.mapped = 1]
      BY ONLY <2>1, <2>a DEF Store
    <3>2. [store EXCEPT !.status = "READY"] \in Store
      BY ONLY <2>a DEF Store
    <3>3. \A x \in Store : [x EXCEPT !.mapped = 1] \in Store
      BY ONLY 1 \in 0 .. 1 DEF Store
    <3> QED
      BY ONLY <2>1, <3>1, <3>2, <3>3
  <2>2. TypeOK'
    BY <1>b, <2>0, <2>1
  <2>3. Locked' /\ Phase' /\ Controller' /\ Dump' /\ PublishedSettled'
    BY <1>b, <1>c, <1>d, <2>1 DEF InCall, Locked, Phase, Controller, Dump, PublishedSettled
  <2> QED
    BY <2>2, <2>3
<1>e. CASE mode = "RECORD" /\ Return([store EXCEPT !.status = "READY"]) /\ UNCHANGED qspi
  <2>1. /\ store' = [store EXCEPT !.status = "READY"] /\ frame' = store'
        /\ busy' = 0 /\ main' = "loop" /\ left' = 0
    BY <1>b, <1>e
  <2>2. TypeOK'
    BY <1>b, <1>e, <2>1
  <2>3. Locked' /\ Phase' /\ Controller' /\ Dump' /\ PublishedSettled'
    BY <1>b, <1>c, <1>e, <2>1 DEF InCall, Locked, Phase, Controller, Dump, PublishedSettled
  <2> QED
    BY <2>2, <2>3
<1>f. ASSUME NEW e \in {"IO", "CHECK"}, ReturnFailed(e), UNCHANGED qspi PROVE IInv'
  <2>1. /\ store' \in Store /\ store'.status = "STOPPED" /\ store'.mapped = 0 /\ frame' = store'
        /\ busy' = 0 /\ main' = "loop" /\ left' = 0
    BY <1>b, <1>f
  <2>2. TypeOK'
    BY <1>b, <1>f, <2>1
  <2>3. Locked' /\ Phase' /\ Controller' /\ Dump' /\ PublishedSettled'
    BY <1>b, <2>1 DEF InCall, Locked, Phase, Controller, Dump, PublishedSettled
  <2> QED
    BY <2>2, <2>3
<1> QED
  BY <1>d, <1>e, <1>f

LEMMA AppendNothingStep == ASSUME IInv, AppendNothing PROVE IInv'
<1> USE ArbiterAssumption, StoppedIs, ErrorNames DEF IInv, TypeOK, Store, QspiStates, MappedWhenReady, AppendNothing, MainAt
<1>1. TypeOK'
  OBVIOUS
<1>2. Locked'
  BY DEF InCall, Locked
<1>3. Phase'
  BY DEF InCall, Locked, Phase
<1>4. Controller'
  BY DEF InCall, Locked, Phase, Controller, Dump
<1>5. Dump'
  BY DEF InCall, Locked, Phase, Controller, Dump
<1>6. PublishedSettled'
  BY DEF InCall, Locked, Phase, Controller, PublishedSettled
<1> QED
  BY <1>1, <1>2, <1>3, <1>4, <1>5, <1>6

LEMMA AppendStep == ASSUME IInv, Append PROVE IInv'
<1> USE ArbiterAssumption, StoppedIs, ErrorNames DEF IInv, TypeOK, Store, QspiStates, MappedWhenReady, Append, MainAt
<1>1. TypeOK'
  OBVIOUS
<1>2. Locked'
  BY DEF InCall, Locked
<1>3. Phase'
  BY DEF InCall, Locked, Phase
<1>4. Controller'
  BY DEF InCall, Locked, Phase, Controller, Dump
<1>5. Dump'
  BY DEF InCall, Locked, Phase, Controller, Dump
<1>6. PublishedSettled'
  BY DEF InCall, Locked, Phase, Controller, PublishedSettled
<1> QED
  BY <1>1, <1>2, <1>3, <1>4, <1>5, <1>6

LEMMA AppendCommandStep == ASSUME IInv, AppendCommand PROVE IInv'
<1> USE ArbiterAssumption, StoppedIs, ErrorNames DEF IInv, TypeOK, Store, QspiStates, MappedWhenReady, AppendCommand, MainAt, Return, ReturnFailed, Command, Failing
<1>1. TypeOK'
  OBVIOUS
<1>2. Locked'
  BY DEF InCall, Locked
<1>3. Phase'
  BY DEF InCall, Locked, Phase
<1>4. Controller'
  BY DEF InCall, Locked, Phase, Controller, Dump
<1>5. Dump'
  BY DEF InCall, Locked, Phase, Controller, Dump
<1>6. PublishedSettled'
  BY DEF InCall, Locked, Phase, Controller, PublishedSettled
<1> QED
  BY <1>1, <1>2, <1>3, <1>4, <1>5, <1>6

LEMMA AppendWaitedStep == ASSUME IInv, AppendWaited PROVE IInv'
<1> USE ArbiterAssumption, StoppedIs, ErrorNames DEF IInv, TypeOK, Store, QspiStates, MappedWhenReady, AppendWaited, MainAt
<1>1. TypeOK'
  OBVIOUS
<1>2. Locked'
  BY DEF InCall, Locked
<1>3. Phase'
  BY DEF InCall, Locked, Phase
<1>4. Controller'
  BY DEF InCall, Locked, Phase, Controller, Dump
<1>5. Dump'
  BY DEF InCall, Locked, Phase, Controller, Dump
<1>6. PublishedSettled'
  BY DEF InCall, Locked, Phase, Controller, PublishedSettled
<1> QED
  BY <1>1, <1>2, <1>3, <1>4, <1>5, <1>6

LEMMA AppendDoneStep == ASSUME IInv, AppendDone PROVE IInv'
<1> USE ArbiterAssumption, StoppedIs, ErrorNames DEF IInv, TypeOK, Store, QspiStates, MappedWhenReady, AppendDone, MainAt, Return
<1>1. TypeOK'
  OBVIOUS
<1>2. Locked'
  BY DEF InCall, Locked
<1>3. Phase'
  BY DEF InCall, Locked, Phase
<1>4. Controller'
  BY DEF InCall, Locked, Phase, Controller, Dump
<1>5. Dump'
  BY DEF InCall, Locked, Phase, Controller, Dump
<1>6. PublishedSettled'
  BY DEF InCall, Locked, Phase, Controller, PublishedSettled
<1> QED
  BY <1>1, <1>2, <1>3, <1>4, <1>5, <1>6

LEMMA UsbRefusedStep == ASSUME IInv, UsbRefused PROVE IInv'
<1> USE ArbiterAssumption, StoppedIs, ErrorNames DEF IInv, TypeOK, Store, QspiStates, MappedWhenReady, UsbRefused, Answer, Waits, Available
<1>1. TypeOK'
  OBVIOUS
<1>2. Locked'
  BY DEF InCall, Locked
<1>3. Phase'
  BY DEF InCall, Locked, Phase
<1>4. Controller'
  BY DEF InCall, Locked, Phase, Controller, Dump
<1>5. Dump'
  BY DEF InCall, Locked, Phase, Controller, Dump
<1>6. PublishedSettled'
  BY DEF InCall, Locked, Phase, Controller, PublishedSettled
<1> QED
  BY <1>1, <1>2, <1>3, <1>4, <1>5, <1>6

LEMMA UsbReadStep == ASSUME IInv, UsbRead PROVE IInv'
<1> USE ArbiterAssumption, StoppedIs, ErrorNames DEF IInv, TypeOK, Store, QspiStates, MappedWhenReady, UsbRead, Waits, Available
<1>a. /\ usb' = [usb EXCEPT !.pc = usb'.pc, !.wasMapped = store.mapped]
      /\ usb'.pc \in {"abort", "read"} /\ usb'.wasMapped = store.mapped
      /\ usb'.pc = (IF store.mapped = 1 THEN "abort" ELSE "read")
      /\ usb.pc = "idle" /\ busy = 0 /\ store.status = "READY"
  OBVIOUS
<1>b. main = "loop"
  BY <1>a DEF InCall, Locked, Phase
<1>1. TypeOK'
  OBVIOUS
<1>2. Locked'
  BY <1>a, <1>b DEF InCall, Locked
<1>3. Phase'
  BY <1>b DEF InCall, Phase
<1>4. Controller'
  BY <1>a DEF Controller
<1>5. Dump'
  BY <1>a DEF Controller, Dump
<1>6. PublishedSettled'
  BY DEF PublishedSettled
<1> QED
  BY <1>1, <1>2, <1>3, <1>4, <1>5, <1>6

LEMMA UsbAbortStep == ASSUME IInv, UsbAbort PROVE IInv'
<1> USE ArbiterAssumption, StoppedIs, ErrorNames DEF IInv, TypeOK, Store, QspiStates, MappedWhenReady, UsbAbort, Ended, Answer
<1> DEFINE unmapped == [store EXCEPT !.mapped = 0]
<1>b. /\ main = "loop" /\ usb.pc = "abort" /\ store.status = "READY" /\ usb.wasMapped = 1
      /\ mode = "INSPECT" /\ busy = 1 /\ UNCHANGED <<mode, main, left, frame>>
  BY DEF InCall, Locked, Dump
<1>c. /\ unmapped \in Store /\ unmapped.status = "READY" /\ unmapped.mapped = 0
      /\ unmapped.initialized = store.initialized
  BY <1>b
<1>d. CASE /\ store' = unmapped /\ qspi' = [qspi EXCEPT !.state = "INDIRECT"]
           /\ usb' = [usb EXCEPT !.pc = "read"] /\ UNCHANGED busy
  <2>1. TypeOK'
    BY <1>b, <1>c, <1>d
  <2>2. Locked' /\ Phase' /\ Dump' /\ PublishedSettled'
    BY <1>b, <1>c, <1>d DEF InCall, Locked, Phase, Dump, PublishedSettled
  <2>3. Controller'
    BY <1>b, <1>c, <1>d DEF Controller
  <2> QED
    BY <2>1, <2>2, <2>3
<1>e. CASE /\ Ended(Stopped(unmapped, "IO"), "READ_ERROR")
           /\ \E state \in QspiStates : qspi' = [qspi EXCEPT !.state = state]
  <2>1. store' \in Store /\ store'.status = "STOPPED" /\ store'.mapped = 0
    BY <1>c, <1>e
  <2>2. busy' = 0 /\ usb' = [usb EXCEPT !.pc = "idle", !.answer = "READ_ERROR"]
    BY <1>e
  <2>3. TypeOK'
    <3>1. qspi' \in [state : QspiStates, cs : {"CONNECTED", "RELEASED"}]
      BY <1>e
    <3>2. usb' \in [pc : {"idle", "abort", "read", "map"}, wasMapped : 0 .. 1,
                    answer : {"NONE", "OK", "BUSY", "READ_ERROR"}]
      BY <2>2
    <3> QED
      BY <1>b, <2>1, <2>2, <3>1, <3>2
  <2>4. Locked' /\ Phase' /\ Controller' /\ Dump' /\ PublishedSettled'
    BY <1>b, <2>1, <2>2 DEF InCall, Locked, Phase, Controller, Dump, PublishedSettled
  <2> QED
    BY <2>3, <2>4
<1> QED
  BY <1>d, <1>e

LEMMA UsbTransferStep == ASSUME IInv, UsbTransfer PROVE IInv'
<1> USE ArbiterAssumption, StoppedIs, ErrorNames DEF IInv, TypeOK, Store, QspiStates, MappedWhenReady, UsbTransfer, Read, Ended, EndedFailed, Answer, Command, Failing
<1>b. /\ main = "loop" /\ usb.pc = "read" /\ store.status = "READY" /\ busy = 1
      /\ usb.wasMapped = MappedWhenReady /\ store.mapped = 0 /\ store.initialized = 1
      /\ qspi = [state |-> "INDIRECT", cs |-> "CONNECTED"]
      /\ UNCHANGED <<mode, main, left, frame>>
  BY DEF InCall, Locked, Controller, Dump
<1>c. CASE /\ usb.wasMapped = 1 /\ usb' = [usb EXCEPT !.pc = "map"]
           /\ UNCHANGED <<store, busy, qspi>>
  BY <1>b, <1>c DEF InCall, Locked, Phase, Controller, Dump, PublishedSettled
<1>d. CASE usb.wasMapped # 1 /\ Ended(store, "OK") /\ UNCHANGED qspi
  <2>1. store' = store /\ busy' = 0 /\ usb' = [usb EXCEPT !.pc = "idle", !.answer = "OK"]
    BY <1>d
  <2>2. TypeOK'
    BY <1>b, <1>d, <2>1
  <2>3. Locked' /\ Phase' /\ Controller' /\ Dump' /\ PublishedSettled'
    BY <1>b, <1>d, <2>1 DEF InCall, Locked, Phase, Controller, Dump, PublishedSettled
  <2> QED
    BY <2>2, <2>3
<1>e. CASE EndedFailed("IO") /\ qspi' = Failing(qspi)
  <2>1. store' \in Store /\ store'.status = "STOPPED" /\ store'.mapped = store.mapped
    BY <1>e
  <2>2. busy' = 0 /\ usb' = [usb EXCEPT !.pc = "idle", !.answer = "READ_ERROR"]
    BY <1>e
  <2>3. TypeOK'
    <3>1. qspi' \in [state : QspiStates, cs : {"CONNECTED", "RELEASED"}]
      BY ONLY <1>b, <1>e DEF Failing, QspiStates
    <3>2. usb' \in [pc : {"idle", "abort", "read", "map"}, wasMapped : 0 .. 1,
                    answer : {"NONE", "OK", "BUSY", "READ_ERROR"}]
      BY ONLY <2>2, TypeOK DEF TypeOK
    <3> QED
      BY ONLY <1>b, <2>1, <2>2, <3>1, <3>2, TypeOK DEF TypeOK
  <2>4. Locked' /\ Phase' /\ Controller' /\ Dump' /\ PublishedSettled'
    BY <1>b, <2>1, <2>2 DEF InCall, Locked, Phase, Controller, Dump, PublishedSettled
  <2> QED
    BY <2>3, <2>4
<1> HIDE DEF IInv, TypeOK, Store, Ended, EndedFailed, Answer, Failing
<1>f. Command(IF usb.wasMapped = 1
              THEN usb' = [usb EXCEPT !.pc = "map"] /\ UNCHANGED <<store, busy>>
              ELSE Ended(store, "OK"), EndedFailed("IO"))
  BY ONLY UsbTransfer, <1>b DEF UsbTransfer, Read
<1>g. CASE EndedFailed("IO") /\ qspi' = Failing(qspi)  BY <1>e, <1>g
<1>h. CASE /\ UNCHANGED qspi
           /\ IF usb.wasMapped = 1
              THEN usb' = [usb EXCEPT !.pc = "map"] /\ UNCHANGED <<store, busy>>
              ELSE Ended(store, "OK")
  BY <1>c, <1>d, <1>h
<1> QED
  BY ONLY <1>f, <1>g, <1>h DEF Command

LEMMA UsbMapStep == ASSUME IInv, UsbMap PROVE IInv'
<1> USE ArbiterAssumption, StoppedIs, ErrorNames DEF IInv, TypeOK, Store, QspiStates, MappedWhenReady, UsbMap, Ended, EndedFailed, Answer
<1>b. /\ main = "loop" /\ usb.pc = "map" /\ store.status = "READY" /\ busy = 1
      /\ MappedWhenReady = 1 /\ store.mapped = 0 /\ store.initialized = 1
      /\ qspi = [state |-> "INDIRECT", cs |-> "CONNECTED"]
      /\ UNCHANGED <<mode, main, left, frame>>
  BY DEF InCall, Locked, Controller, Dump
<1>c. CASE Ended([store EXCEPT !.mapped = 1], "OK") /\ qspi' = [qspi EXCEPT !.state = "MAPPED"]
  <2>1. /\ store' = [store EXCEPT !.mapped = 1] /\ busy' = 0
        /\ usb' = [usb EXCEPT !.pc = "idle", !.answer = "OK"]
        /\ qspi' = [state |-> "MAPPED", cs |-> "CONNECTED"]
    BY <1>b, <1>c
  <2>2. TypeOK'
    BY <1>b, <2>1
  <2>3. Locked' /\ Phase' /\ Controller' /\ Dump' /\ PublishedSettled'
    BY <1>b, <2>1 DEF InCall, Locked, Phase, Controller, Dump, PublishedSettled
  <2> QED
    BY <2>2, <2>3
<1>d. CASE EndedFailed("IO") /\ UNCHANGED qspi
  <2>1. store' \in Store /\ store'.status = "STOPPED" /\ store'.mapped = store.mapped
    BY <1>d
  <2>2. busy' = 0 /\ usb' = [usb EXCEPT !.pc = "idle", !.answer = "READ_ERROR"]
    BY <1>d
  <2>3. TypeOK'
    BY <1>b, <1>d, <2>1, <2>2
  <2>4. Locked' /\ Phase' /\ Controller' /\ Dump' /\ PublishedSettled'
    BY <1>b, <2>1, <2>2 DEF InCall, Locked, Phase, Controller, Dump, PublishedSettled
  <2> QED
    BY <2>3, <2>4
<1> QED
  BY <1>c, <1>d

LEMMA NextInv == IInv /\ [Next]_vars => IInv'
<1> SUFFICES ASSUME IInv, [Next]_vars PROVE IInv'
  OBVIOUS
<1>1. CASE UNCHANGED vars
  BY <1>1 DEF vars, IInv, TypeOK, InCall, Locked, Phase, Controller, Dump,
     PublishedSettled, MappedWhenReady
<1>2. CASE Next
  BY <1>2, BeginStep, InitBusStep, IdentifyStep, IdentifiedStep, ScanSectorStep, ProgressStep, ScanDoneStep, AppendNothingStep, AppendStep, AppendCommandStep, AppendWaitedStep, AppendDoneStep, UsbRefusedStep, UsbReadStep, UsbAbortStep, UsbTransferStep, UsbMapStep DEF Next
<1> QED
  BY <1>1, <1>2

\* The invariant holds of every behaviour.
THEOREM Invariant == Spec => []IInv
<1> QED
  BY InitInv, NextInv, PTL DEF Spec

\* The lock, the record and the controller keep their types in every interleaving of the
\* main loop and a dump (storage_stm32.c): the phase never issues more commands than it has.
THEOREM ArbiterTypes == Spec => []TypeOK
<1>1. IInv => TypeOK
  BY DEF IInv
<1> QED
  BY <1>1, Invariant, PTL

\* What the main loop publishes as ready is mapped as its build has it, though a dump takes
\* the mapping away while it reads (storage_stm32.c:123-137): the record never shows that
\* window.
THEOREM PublishedIsSettled == Spec => []PublishedSettled
<1>1. IInv => PublishedSettled
  BY DEF IInv
<1> QED
  BY <1>1, Invariant, PTL

\* A dump never runs inside a storage call of the main loop (NeverNested).
THEOREM DumpsNeverNest == Spec => []NeverNested
<1>1. IInv => NeverNested
  BY DEF IInv, Locked, NeverNested
<1> QED
  BY <1>1, Invariant, PTL

\* No command goes into a mapped window or to a chip no longer selected
\* (CommandsReachChip).
THEOREM EveryCommandReachesChip == Spec => []CommandsReachChip
<1>1. IInv => CommandsReachChip
  BY DEF IInv, TypeOK, Store, InCall, Locked, Phase, Controller, Dump, MappedWhenReady, CommandsReachChip
<1> QED
  BY <1>1, Invariant, PTL

\* Between calls storage is as its build has it, or stopped (RestoredOrStopped).
THEOREM StorageIsRestored == Spec => []RestoredOrStopped
<1>1. IInv => RestoredOrStopped
  BY DEF IInv, TypeOK, Store, InCall, Locked, Phase, Controller,
     MappedWhenReady, QspiWhenReady, RestoredOrStopped
<1> QED
  BY <1>1, Invariant, PTL

\* The answers tell whether storage goes on, and stopping is final (AnswersAreHonest).
THEOREM HonestAnswers == Spec => AnswersAreHonest
<1> DEFINE Honest ==
      /\ usb.pc # "idle" /\ usb'.pc = "idle" =>
           (usb'.answer = "OK" <=> store'.status = "READY")
      /\ store.status = "STOPPED" => store'.status = "STOPPED"
      /\ store.history \subseteq store'.history
<1>1. ASSUME IInv, [Next]_vars PROVE Honest
  <2> USE <1>1, StoppedIs, ErrorNames DEF IInv, TypeOK, Store, InCall, Locked, Phase, Dump
  <2>1. CASE Begin
    BY <2>1 DEF Begin, MainAt
  <2>2. CASE InitBus
    BY <2>2 DEF InitBus, MainAt, Return, ReturnFailed
  <2>3. CASE Identify
    BY <2>3 DEF Identify, MainAt, Return, ReturnFailed, Command, Failing
  <2>4. CASE Identified
    BY <2>4 DEF Identified, MainAt
  <2>5. CASE ScanSector
    BY <2>5 DEF ScanSector, MainAt, Read, Return, ReturnFailed, Command, Failing
  <2>6. CASE Progress
    BY <2>6 DEF Progress, MainAt
  <2>7. CASE ScanDone
    BY <2>7 DEF ScanDone, MainAt, Return, ReturnFailed
  <2>8. CASE AppendNothing
    BY <2>8 DEF AppendNothing, MainAt
  <2>9. CASE Append
    BY <2>9 DEF Append, MainAt
  <2>10. CASE AppendCommand
    BY <2>10 DEF AppendCommand, MainAt, Return, ReturnFailed, Command, Failing
  <2>11. CASE AppendWaited
    BY <2>11 DEF AppendWaited, MainAt
  <2>12. CASE AppendDone
    BY <2>12 DEF AppendDone, MainAt, Return
  <2>13. CASE UsbRefused
    BY <2>13 DEF UsbRefused, Answer, Waits, Available
  <2>14. CASE UsbRead
    BY <2>14 DEF UsbRead, Waits, Available
  <2>15. CASE UsbAbort
    <3>1. /\ [store EXCEPT !.mapped = 0] \in Store /\ store.status = "READY"
          /\ [store EXCEPT !.mapped = 0].history = store.history
      BY <2>15 DEF UsbAbort
    <3>2. \/ usb'.pc = "read" /\ store'.history = store.history
          \/ /\ usb'.answer = "READ_ERROR" /\ store'.status = "STOPPED"
             /\ store.history \subseteq store'.history
      <4>1. CASE Ended(Stopped([store EXCEPT !.mapped = 0], "IO"), "READ_ERROR")
        BY <4>1, <3>1 DEF Ended, Answer
      <4>2. CASE store' = [store EXCEPT !.mapped = 0] /\ usb' = [usb EXCEPT !.pc = "read"]
        BY <4>2, <3>1
      <4> QED
        BY <2>15, <4>1, <4>2 DEF UsbAbort
    <3> QED
      BY <3>1, <3>2
  <2>16. CASE UsbTransfer
    <3>1. store.status = "READY"
      BY <2>16 DEF UsbTransfer
    <3>2. \/ usb'.pc = "map" /\ store' = store
          \/ usb'.answer = "OK" /\ store' = store
          \/ /\ usb'.answer = "READ_ERROR" /\ store'.status = "STOPPED"
             /\ store.history \subseteq store'.history
      <4>1. ASSUME NEW e \in {"IO", "BOUNDS"}, EndedFailed(e)
            PROVE  usb'.answer = "READ_ERROR" /\ store'.status = "STOPPED"
                   /\ store.history \subseteq store'.history
        BY <4>1 DEF EndedFailed, Ended, Answer
      <4>2. CASE Ended(store, "OK")
        BY <4>2 DEF Ended, Answer
      <4>3. CASE store' = store /\ usb' = [usb EXCEPT !.pc = "map"]
        BY <4>3
      <4> QED
        BY <2>16, <4>1, <4>2, <4>3 DEF UsbTransfer, Read, Command
    <3> QED
      BY <3>1, <3>2
  <2>17. CASE UsbMap
    BY <2>17 DEF UsbMap, Ended, EndedFailed, Answer
  <2>18. CASE UNCHANGED vars
    BY <2>18 DEF vars
  <2> QED
    BY <2>1, <2>2, <2>3, <2>4, <2>5, <2>6, <2>7, <2>8, <2>9, <2>10, <2>11, <2>12, <2>13, <2>14, <2>15, <2>16, <2>17, <2>18 DEF Next
<1> QED
  BY <1>1, Invariant, PTL DEF Spec, AnswersAreHonest
=============================================================================
