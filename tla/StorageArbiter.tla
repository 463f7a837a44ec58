---------------------------- MODULE StorageArbiter ----------------------------
(***************************************************************************)
(* Who uses the flash when (m3_firmware/src/storage_stm32.c over           *)
(* storage.c): the main loop begins the journal and appends to it, and     *)
(* each of its waits runs the USB task, which may read flash for a dump.   *)
(* Everything runs on one stack: a request comes only where the main loop  *)
(* waits, and ends before the main loop goes on.                           *)
(*                                                                         *)
(* What FlashLog tells apart, the pages and the checks on them, is here a  *)
(* number of commands that each may fail, in an inspecting or a recording  *)
(* build.                                                                  *)
(***************************************************************************)
EXTENDS Integers

CONSTANTS
  Commands    \* bound: commands of one phase of the journal, a wait after any

ASSUME ArbiterAssumption == Commands \in Nat \ {0}

VARIABLES
  mode,   \* the build: INSPECT maps the flash for reading, RECORD never does
  main,   \* where the main loop is
  left,   \* commands left in its phase
  store,  \* store.result and store.initialized
  busy,   \* storage_busy
  qspi,   \* the controller: memory-mapped or not, and whether PB6 still selects the chip
  usb,    \* bench_storage_usb_read: where it is, was_mapped, its last answer
  frame   \* what the main loop publishes of store.result

vars == <<mode, main, left, store, busy, qspi, usb, frame>>

QspiStates == {"INDIRECT", "MAPPED"}
Errors == {"CLOCK", "IO", "BOUNDS", "CHECK"}  \* CHECK: the flash is not as expected
Store ==
  [status : {"NOT_STARTED", "SCANNING", "READY", "STOPPED"}, history : SUBSET Errors,
   mapped : 0 .. 1, initialized : 0 .. 1]

Init ==
  /\ mode \in {"INSPECT", "RECORD"}
  /\ main = "boot" /\ left = 0 /\ busy = 0
  /\ store = [status |-> "NOT_STARTED", history |-> {}, mapped |-> 0, initialized |-> 0]
  /\ qspi = [state |-> "INDIRECT", cs |-> "CONNECTED"]
  /\ usb = [pc |-> "idle", wasMapped |-> 0, answer |-> "NONE"]
  /\ frame = store

-----------------------------------------------------------------------------
(***************************************************************************)
(* Commands to the chip                                                    *)
(***************************************************************************)
Stopped(s, e) == [s EXCEPT !.status = "STOPPED", !.history = @ \cup {e}]

\* exchange: the HAL refuses a command while it is mapped, and a command may
\* fail. A failed one releases chip select, and nothing selects the chip again.
Failing(q) == [q EXCEPT !.cs = "RELEASED"]
Command(Succeeds, Fails) ==
  \/ qspi.state = "INDIRECT" /\ Succeeds /\ UNCHANGED qspi
  \/ Fails /\ qspi' = Failing(qspi)

\* storage_read: not while mapped.
Read(Succeeds, Fails, Refused) ==
  IF store.mapped = 1 THEN Refused /\ UNCHANGED qspi ELSE Command(Succeeds, Fails)

-----------------------------------------------------------------------------
(***************************************************************************)
(* The main loop: bench_storage_begin                                      *)
(***************************************************************************)
MainAt(pc) == main = pc /\ usb.pc = "idle"

\* A storage call returns: its result is published.
Return(s) == store' = s /\ frame' = s /\ busy' = 0 /\ main' = "loop" /\ left' = 0
ReturnFailed(e) == Return(Stopped(store, e))

Begin ==
  /\ MainAt("boot")
  /\ busy' = 1 /\ main' = "init" /\ left' = Commands
  /\ store' = [store EXCEPT !.status = "SCANNING"]
  /\ UNCHANGED <<mode, qspi, usb, frame>>

\* The bus is set up; the wait after it lets the chip power up.
InitBus ==
  /\ MainAt("init")
  /\ \/ main' = "settle" /\ UNCHANGED <<left, store, busy, frame>>
     \/ ReturnFailed("CLOCK")
  /\ UNCHANGED <<mode, qspi, usb>>

\* Registers, identity and, to record, the protection bits; these are checked before the
\* adapter is initialized here, after it in the code, which a stopped storage cannot tell.
Identify ==
  /\ MainAt("settle") \/ MainAt("identify")
  /\ left > 0
  /\ \/ Command(/\ left' = left - 1 /\ main' = "identify"
                /\ UNCHANGED <<store, busy, frame>>, ReturnFailed("IO"))
     \/ ReturnFailed("CHECK") /\ UNCHANGED qspi
  /\ UNCHANGED <<mode, usb>>

Identified ==
  /\ MainAt("identify") /\ left = 0
  /\ main' = "scan" /\ left' = Commands
  /\ store' = [store EXCEPT !.initialized = 1]
  /\ UNCHANGED <<mode, busy, qspi, usb, frame>>

\* Fault: the scan does not stop at the last sector.
ScanSector_PastEnd ==
  /\ MainAt("scan")
  /\ Read(/\ left' = left - 1 /\ main' \in {"scan", "progress"}
          /\ UNCHANGED <<store, busy, frame>>,
          ReturnFailed("IO"), ReturnFailed("BOUNDS"))
  /\ UNCHANGED <<mode, usb>>

\* Sectors are read; after some of them progress publishes and serves USB.
ScanSector ==
  /\ MainAt("scan") /\ left > 0
  /\ Read(/\ left' = left - 1 /\ main' \in {"scan", "progress"}
          /\ UNCHANGED <<store, busy, frame>>,
          ReturnFailed("IO"), ReturnFailed("BOUNDS"))
  /\ UNCHANGED <<mode, usb>>

Progress ==
  /\ MainAt("progress")
  /\ main' = "scan" /\ frame' = store
  /\ UNCHANGED <<mode, left, store, busy, qspi, usb>>

\* A recording build is refused the mapping, and does not ask for it.
ScanDone ==
  /\ MainAt("scan") /\ left = 0
  /\ \/ /\ mode = "INSPECT" /\ qspi' = [qspi EXCEPT !.state = "MAPPED"]
        /\ Return([store EXCEPT !.status = "READY", !.mapped = 1])
     \/ mode = "INSPECT" /\ ReturnFailed("IO") /\ UNCHANGED qspi
     \/ mode = "RECORD" /\ Return([store EXCEPT !.status = "READY"]) /\ UNCHANGED qspi
     \/ mode = "RECORD" /\ ReturnFailed("CHECK") /\ UNCHANGED qspi
  /\ UNCHANGED <<mode, usb>>

-----------------------------------------------------------------------------
(***************************************************************************)
(* The main loop: bench_storage_append                                     *)
(***************************************************************************)
\* Nothing to do in an inspecting build, and nothing is written once stopped.
AppendNothing ==
  /\ MainAt("loop") /\ (mode = "INSPECT" \/ store.status # "READY")
  /\ frame' = store
  /\ UNCHANGED <<mode, main, left, store, busy, qspi, usb>>

Append ==
  /\ MainAt("loop") /\ mode = "RECORD" /\ store.status = "READY"
  /\ busy' = 1 /\ main' = "append" /\ left' = Commands
  /\ UNCHANGED <<mode, store, qspi, usb, frame>>

\* While a page is programmed the poll waits between two status reads.
AppendCommand ==
  /\ MainAt("append") /\ left > 0
  /\ \/ Command(/\ left' = left - 1 /\ main' \in {"append", "wait"}
                /\ UNCHANGED <<store, busy, frame>>, ReturnFailed("IO"))
     \/ ReturnFailed("CHECK") /\ UNCHANGED qspi
  /\ UNCHANGED <<mode, usb>>

AppendWaited ==
  /\ MainAt("wait")
  /\ main' = "append"
  /\ UNCHANGED <<mode, left, store, busy, qspi, usb, frame>>

AppendDone ==
  /\ MainAt("append") /\ left = 0
  /\ Return(store)
  /\ UNCHANGED <<mode, qspi, usb>>

-----------------------------------------------------------------------------
(***************************************************************************)
(* bench_storage_usb_read, from the waits of the main loop                 *)
(***************************************************************************)
Waits == {"boot", "settle", "progress", "wait", "loop"}

\* Fault: a failed read does not stop the journal.
EndedFailed_GoesOn(e) ==
  /\ store' = [store EXCEPT !.history = @ \cup {e}] /\ busy' = 0
  /\ usb' = [usb EXCEPT !.pc = "idle", !.answer = "READ_ERROR"]

Answer(a) == usb' = [usb EXCEPT !.pc = "idle", !.answer = a]
Ended(s, a) == store' = s /\ busy' = 0 /\ Answer(a)
EndedFailed(e) == Ended(Stopped(store, e), "READ_ERROR")

\* Faults: the read does not look whether storage is in use, or has stopped.
Available_InUse == store.status = "READY" /\ store.initialized = 1
Available_Stopped == busy = 0 /\ store.initialized = 1

Available == busy = 0 /\ store.status = "READY" /\ store.initialized = 1

UsbRefused ==
  /\ main \in Waits /\ usb.pc = "idle" /\ ~Available
  /\ Answer("BUSY")
  /\ UNCHANGED <<mode, main, left, store, busy, qspi, frame>>

UsbRead ==
  /\ main \in Waits /\ usb.pc = "idle" /\ Available
  /\ busy' = 1
  /\ usb' = [usb EXCEPT !.pc = IF store.mapped = 1 THEN "abort" ELSE "read",
                        !.wasMapped = store.mapped]
  /\ UNCHANGED <<mode, main, left, store, qspi, frame>>

\* Fault: the change of the mapping is reported as progress.
UsbAbort_Publishes ==
  /\ usb.pc = "abort"
  /\ store' = [store EXCEPT !.mapped = 0] /\ qspi' = [qspi EXCEPT !.state = "INDIRECT"]
  /\ usb' = [usb EXCEPT !.pc = "read"] /\ frame' = store'
  /\ UNCHANGED <<mode, main, left, busy>>

\* A failed abort leaves the controller mapped or not.
UsbAbort ==
  /\ usb.pc = "abort"
  /\ LET unmapped == [store EXCEPT !.mapped = 0]
     IN  \/ /\ store' = unmapped /\ qspi' = [qspi EXCEPT !.state = "INDIRECT"]
            /\ usb' = [usb EXCEPT !.pc = "read"] /\ UNCHANGED busy
         \/ /\ Ended(Stopped(unmapped, "IO"), "READ_ERROR")
            /\ \E state \in QspiStates : qspi' = [qspi EXCEPT !.state = state]
  /\ UNCHANGED <<mode, main, left, frame>>

\* Fault: the mapping is not restored.
UsbTransfer_Unmapped ==
  /\ usb.pc = "read"
  /\ Read(Ended(store, "OK"), EndedFailed("IO"), EndedFailed("BOUNDS"))
  /\ UNCHANGED <<mode, main, left, frame>>

UsbTransfer ==
  /\ usb.pc = "read"
  /\ Read(IF usb.wasMapped = 1 THEN usb' = [usb EXCEPT !.pc = "map"] /\ UNCHANGED <<store, busy>>
          ELSE Ended(store, "OK"), EndedFailed("IO"), EndedFailed("BOUNDS"))
  /\ UNCHANGED <<mode, main, left, frame>>

UsbMap ==
  /\ usb.pc = "map"
  /\ \/ /\ Ended([store EXCEPT !.mapped = 1], "OK")
        /\ qspi' = [qspi EXCEPT !.state = "MAPPED"]
     \/ EndedFailed("IO") /\ UNCHANGED qspi
  /\ UNCHANGED <<mode, main, left, frame>>

Next ==
  \/ Begin \/ InitBus \/ Identify \/ Identified \/ ScanSector \/ Progress \/ ScanDone
  \/ AppendNothing \/ Append \/ AppendCommand \/ AppendWaited \/ AppendDone
  \/ UsbRefused \/ UsbRead \/ UsbAbort \/ UsbTransfer \/ UsbMap

Spec == Init /\ [][Next]_vars

-----------------------------------------------------------------------------
(***************************************************************************)
(* Properties                                                              *)
(***************************************************************************)
\* Every part of the state is well formed.
TypeOK ==
  /\ mode \in {"INSPECT", "RECORD"}
  /\ main \in {"boot", "init", "settle", "identify", "scan", "progress", "loop", "append", "wait"}
  /\ left \in 0 .. Commands /\ busy \in 0 .. 1 /\ store \in Store /\ frame \in Store
  /\ qspi \in [state : QspiStates, cs : {"CONNECTED", "RELEASED"}]
  /\ usb \in [pc : {"idle", "abort", "read", "map"}, wasMapped : 0 .. 1,
              answer : {"NONE", "OK", "BUSY", "READ_ERROR"}]

MappedWhenReady == IF mode = "INSPECT" THEN 1 ELSE 0
QspiWhenReady == IF mode = "INSPECT" THEN "MAPPED" ELSE "INDIRECT"

\* USB reads are serialized against initialization and programming
\* (storage_stm32.c:128): a request that reaches the bus found the main loop
\* outside every storage call, though all its waits inside them serve USB.
NeverNested == usb.pc # "idle" => main = "loop" /\ busy = 1

\* A command is only issued while the controller takes commands and the chip is
\* selected: never into a mapped window, and never after a failure released
\* chip select, whoever failed (storage_stm32.c:83-87, :129).
CommandsReachChip ==
  \/ usb.pc = "read"
  \/ usb.pc = "idle" /\ left > 0 /\ main \in {"settle", "identify", "scan", "append"}
  => qspi = [state |-> "INDIRECT", cs |-> "CONNECTED"]

\* Between calls storage is free, and it is READY only as its build has it:
\* mapped by an inspecting one, in the controller as in the record, and taking
\* commands in a recording one (the abort was undone, or the journal stopped).
RestoredOrStopped ==
  usb.pc = "idle" /\ main = "loop" =>
    /\ busy = 0
    /\ store.status = "READY" =>
         /\ store.initialized = 1 /\ store.mapped = MappedWhenReady
         /\ qspi = [state |-> QspiWhenReady, cs |-> "CONNECTED"]

\* The window in which a dump has taken the mapping away is never published.
PublishedSettled == frame.status = "READY" => frame.mapped = MappedWhenReady

\* A request that reached the bus is answered OK exactly when storage goes on,
\* and a storage that stopped stays stopped with its errors: a failed dump
\* ends the journal, and is not hidden from the next record.
AnswersAreHonest ==
  [][/\ usb.pc # "idle" /\ usb'.pc = "idle" =>
          (usb'.answer = "OK" <=> store'.status = "READY")
     /\ store.status = "STOPPED" => store'.status = "STOPPED"
     /\ store.history \subseteq store'.history]_vars
=============================================================================
