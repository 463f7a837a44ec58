# Verification of the M3 bench firmware and its host tools

This directory holds TLA+ specifications of the diagnostic firmware of the M3
rocket flight computer (`m3_firmware/src`) and of the host programs that read
its evidence (`diagnostics`). The board records acquisitions in an append-only
journal on a NOR flash, publishes its state in a record in SRAM that a debug
probe or a USB host reads while it runs, and follows a GNSS receiver through an
interrupt. The code has no operating system: one main loop, the interrupts that
cut into it, and the host on the other side of a wire. Its promises are of the
kind "never": never erase, never reuse a sector, never accept a torn record,
never call an old position fresh. Those are what is specified here.

## 1. Inventory

| Part | Code | State | Operations | Hard part |
|---|---|---|---|---|
| Journal writer | `storage.c`, `storage.h` | session, sector, slot and chunk of the next page; counters; sticky error | `storage_begin`, `storage_append`, `storage_program_page` | power loss or reset between any two transfers; ambiguous programs; wrong reads |
| Journal recovery | `diagnostics/storage.py` | none: a function of the image | `page_decode`, `recover` | leftovers of earlier boots and of builds of another layout |
| Result mailbox | `main.c` | the record in AXI SRAM, `seq`, `frame` | clear at boot, `publish`, `assert_failed` | the probe reads in the middle of the copy; resets restart the sequence |
| SWD capture | `diagnostics/mailbox.py`, `transport.py` | attempt, samples, evidence file | `read_consistent`, `capture_mailbox`, `analyze_mailbox` | torn reads, retries, bus faults, a killed worker |
| GNSS receive path | `gnss_stm32.c`, `gnss.c` | ring, loss counts, parser, epoch | USART6 interrupt, `bench_gnss_task`, `gnss_feed`, `gnss_tick`, `gnss_loss` | interrupt against task; overflow; times taken at different moments |
| Storage adapter | `storage_stm32.c` | `storage_busy`, mapped mode | `exchange`, `map`, `bench_storage_usb_read` | USB served from inside the writer's own delays |
| USB device | `usb_stm32.c`, `usb_wire.c` | connection state, one request, one reply | `bench_usb_task`, `usb_wire_feed`, callbacks of the stack | partial frames, a session that ends with a reply queued, loss of clock |
| USB host | `diagnostics/usb.py` | request number, deadline | `Client.request`, `capture`, `dump` | stale replies; a reset during a long dump |
| Power status | `power_status.c`, `power_status_stm32.c` | seen-low and seen-high history, saturating count | `event`, `bench_power_tick`, `bench_power_status` | edges between samples; three contexts under PRIMASK |
| Camera query | `camera.c`, `camera_stm32.c` | one exchange | `camera_query` | timeouts, echo, trailing bytes |
| IMU sampling | `imu.c`, `imu_stm32.c` | sample and error history | `imu_begin`, `imu_sample` | registers that update during the read |
| Self-test, barometer, ADC | `main.c`, `checks.c`, `voltage.c` | fields of `frame` | `test_*`, `sample_*` | sequential I/O and arithmetic |
| Diagnosis engine, triage | `diagnostics/engine.py`, `triage*.py` | none: functions of evidence | rule evaluation | none of concurrency |

How they meet: `main` owns every module and calls them in turn. `HAL_Delay` is
replaced by a loop that serves `bench_usb_task`, which serves
`bench_gnss_task` first; so USB and GNSS run inside the waits of the sensor
code, and inside the writer's progress callback. The USART6 interrupt shares
the ring with `bench_gnss_task`; SysTick and four EXTI interrupts share the
power history. The probe shares the SRAM record with `publish` and nothing
else. The flash is shared by the writer and by USB reads, with the
`storage_busy` flag between them.

What makes each part correct: the journal loses nothing it counted and mixes
nothing; the mailbox reader accepts only a frame that stood whole; the GNSS
path counts every byte it loses and never calls old data fresh; the storage
adapter never lets two users talk to the chip; a USB reply answers the request
that is outstanding; no power edge is lost between interrupt and tick.

## 2. Modules

| Module | Models |
|---|---|
| `Journal` | What the diagnostic log promises: a set of records that only grows, in order, without a gap inside a boot, of which counted records stay. |
| `FlashLog` | `storage_begin` and `storage_append` against the chip and the power supply, and `recover` as operators over the image. Refines `Journal`. |
| `MCFlashLog` | A small instance: two layouts in two sectors. |
| `FlashLogProofs` | The writer's promises, what the host recovers, and the refinement of `Journal`. |
| `Mailbox` | `main`'s clearing and `publish`, word by word, and the probe's capture of it. |
| `MailboxProofs` | The meaning of an even sequence word, and what the probe may accept, trust and call live. |
| `Gnss` | The receive interrupt, the ring, the task and the parser. |
| `GnssProofs` | The account of every byte, the order of the ring, and that nothing old is fresh. |
| `PowerStatus` | EXTI, SysTick and the main loop's copy over one record, with edges between their steps. |
| `PowerStatusProofs` | No fault edge lost, none counted twice, the copy coherent, the gap and the history honest. |
| `StorageArbiter` | The writer's calls and the dump over USB on one bus: `storage_busy`, abort, remap, stop. |
| `StorageArbiterProofs` | The arbitration and what is published of it, its invariant step by step. |
| `UsbLink` | The host tool, TinyUSB's queues, `bench_usb_task` and `usb_wire`, over several sessions and faults. |
| `UsbLinkProofs` | Answers are fresh, captures of one boot, sessions handed over clean, buffers never overrun. |
| `Imu` | `imu_begin` and `imu_sample` against a sensor that samples and resets by itself. |
| `ImuProofs` | A good sample is one new sample of the configured sensor. |
| `Camera` | `camera_query` against any sequence of bytes. |
| `CameraProofs` | The query ends with the first good frame. |

### FlashLog

The chip is `flash` (a row of pages per sector), `prog` (the page program it
executes) and `wel`, its write-enable latch. A page is `Blank`, `Torn`, a
`Header` or a `Data` page; `Torn` stands for every content whose CRC is wrong.
The writer is at one of the places of `storage.c` (`pc`), and its variables are
the fields of `Storage`. One action is one transfer with the chip together with
the decision that follows it, since power can go between any two transfers:
`Identify`, `ScanSector`, `ScanDone` are `storage_begin`; `Append`,
`OpenSector` and then `CheckPage`, `WriteEnable`, `ProgramPage`, `PollStatus`,
`VerifyPage` (`storage_program_page`) are `storage_append`. Every transfer may
fail; a failing program may have reached the chip in full, in part or not at
all. `misreads` counts reads that return wrong data and no error.
`ProcessorReset` leaves the chip as it is, with a program under way and the
latch set; `PowerLoss` ends the program with nothing, a torn page or the page.
`ValidHeader` to `Recovered` are `page_decode` and `recover`; what a payload says
(`prefix_decode`, `storage.py:110`) is left out, since a record here is only who
wrote it and when.

### Mailbox

Cell 0 of `box` stands for the constant header words, `boxSeq` is the sequence
word, the other cells are the body, the CRC-32 the last. A body cell holds the
number of the frame its value comes from, so that the CRC holds exactly when
all are of one frame. `Clear`, `Publish`, `CopyWord` and `Commit` store one word
each. The host reads one word per step in the order of `read_consistent`, with
the header read again by `enable_storage_mailbox` (`Grant`, `Granted`). `stood`
and `quiet` are history: the frames that stood whole in SRAM during the attempt,
and whether nothing moved. `Trusted` and `Live` are the rules of
`analyze_mailbox`. The uptime, which the code also requires to advance, is left
out: the liveness rule of the model is weaker than the one of the code, and the
property holds all the same. So is `Accepts`: it is the test of the CRC alone, and
the other checks of `decode` (`mailbox.py:119-157`, `188-191`) refuse more. The
evidence of a worker that the parent has killed is not followed: the worker writes
CAPTURED last, and the parent writes ABORTED over what such a worker left.

### Gnss

Byte n of the stream is byte n % PacketLen of its packet and carries the iTOW of
that packet, so a packet is whole when its bytes are consecutive. `Receive` and
`ReceiveError` are one call of the interrupt; an error may conceal up to two
bytes (an overrun) or come with none. `signalled` is history: the calls so far,
which is what the counts can know about. `TaskBegin`, `CheckLoss`, `Discard`, `ReadSlot`, `Feed` and
`TaskTick` are the steps of `bench_gnss_task` between which an interrupt can
come. `Discard` is one step: the code holds PRIMASK. `Status` is
`bench_gnss_status`, which the main loop calls between two passes. A NAV-PVT
packet is all the receiver sends: NMEA, MON-VER and the length errors change
counters that no property here reads. A slot of the ring that has been released
is forgotten, which keeps the state small and hides nothing: a slot outside the
queue is never read.

### PowerStatus

`Edge` is the hardware: an input changes and, where the edge is enabled, `PR1`
latches it. `EventEnter` to `EventStore` are one call of `event` for one line,
`TickSample` and `TickStore` are `bench_power_tick`, `InitializeReady` ends
`bench_power_initialize`, and `StatusBegin` to `StatusEnd` copy the record.
A handler loads the record in one step and stores it in a later one; whether
anyone comes between the two depends on `primask` and the priorities, as in
the code. `edges` and the sets of edges that fell are history. The read-back
of the configuration registers (`configuration_ok`) is left out.

### StorageArbiter

Two users of one controller: the main loop in a storage call, and a dump that
`bench_usb_task` serves from any wait inside that call or between calls. Both
go through `exchange`, any of whose commands may fail; so may the abort and
the mapping of the dump. `Available` is the guard of `bench_storage_usb_read`.
What the commands write is `FlashLog`'s subject; here a command has a number.
The list of opcodes `exchange` admits, the argument check of a dump
(`storage_stm32.c:132`, which changes nothing) and the set-up of clock and pins are
left out.

### UsbLink

The path of a byte has a variable for each place where it can wait: `queue`
(TinyUSB's events), `cdc` (its receive FIFO), `wire` (`usb_wire`'s request and
reply), `fifo` and `endpoint` on the way back. A request is `Frame` bytes that
carry its number, so a CRC holds when they are the bytes of one request in
order; a reply is two packets and carries the boot, the moment and what it
answers as history. `Task...` are the steps of `bench_usb_task` between which
the host or the line may act, `Open` to `Deadline` are `Client.request` under
`capture` or `dump`. A close of the port (`Close`) lowers DTR, but the stack
may see a later line state only, and a packet already in the endpoint survives,
as `research/usb/USB_INTEGRATION.md:21` says. `BusReset`, `Unplug`, `ClockLost`,
`BoardReset` and `Noise` are the faults; at most `Faults` happen. A board that
resets leaves the bus, and the tool's port is assumed to fail with it: `OneBoot`
rests on that. The comparison of uptimes at the end of a dump (`ClockMovedOn`,
`usb.py:161`) is modelled too, but is never what stops a dump across a reset. Random request
numbers are modelled as numbers no two sessions share. A snapshot may be
refused by the tool for what it says. Left out: suspend and resume (they only
pause), the stack's limit of events and the pass's limit of bytes (more than
ever wait here), the status counters.

### Imu and Camera

In `Imu` a sample is its number and the life of the sensor it belongs to;
`SensorSamples` and `SensorResets` come between any two steps of the driver,
also between the halves of the burst. A step that reads the status forgets it,
also when the read then fails. The soft reset may have been taken although its write failed.

In `Camera` a byte is the header, the version or neither, the checksum is some
function of four bytes, and a deadline may pass in every round. The reply may be
any sequence of bytes, so a late, repeated or stale frame is among them.
`Arrive` is the camera that sends while the query is on its way: the byte waits in
the UART's FIFO and is read first in the reply, so `early`, a history variable,
says how many of the bytes received are older than the query. Of what the camera
begins after that, nothing in the protocol tells whether it is the response.

## 3. Runs

| Run | Configuration | Question |
|---|---|---|
| `flashlog` | 2 sectors of 4 data pages, layouts 2x2 and 1x4, 3 boots, 1 drop per boot, 2 wrong reads, counter modulo 4 | What may the writer do to the array, and does it count its calls? |
| `flashlog_journal` | the same with 2 boots, counter modulo 5, fair writer | What does the host recover after each step, is it the promised log, and does each call return? |
| `mailbox` | 2 body cells, sequence modulo 4, 2 attempts, 2 samples, 2 boots, 3 frames, version 7 | Which samples may be accepted and trusted? |
| `mailbox_status` | the same with version 8; a violation is expected | Is a quiet record of the power-status build readable over SWD? |
| `gnss` | ring of 3, budget 2, packets of 3, 9 bytes, 2 losses, ticks 0 to 2, limits of 1 tick, iTOW 3, 0 and 4 in a week of 4 | Is each byte accounted for, once and in order, and nothing old published as fresh? |
| `gnss_timeout` | the same with 6 bytes and 1 loss; a violation is expected | Does a packet time out only after silence? |
| `power` | 1 fault input, 1 source input, count up to 2, gap limit 1, ticks 0 to 2, 3 edges | Is each fault edge in the record, and the copy one record? |
| `arbiter` | 3 commands per call, both builds | Do writer and dump keep apart, and does storage end restored or stopped? |
| `usb` | requests of 2 bytes, 1 block, clock modulo 4, 2 sessions, 1 fault | Does the tool keep fresh answers of one boot only, and is a whole request served? |
| `imu` | 3 polls, 4 samples, 3 resets | Is a good sample one new sample of the configured sensor? |
| `camera` | receive limit 8, FIFO of 2 | Does the query end with the first good frame? |
| `camera_stale` | the same; a violation is expected | Is a frame that began before the query was out ever its reply? |

The properties, by hazard:

* `OnlyBlankProgrammed` (never erase), `SessionPerBoot` (never reuse),
  `OneTornPagePerBoot`, `EveryCallCounted`, `RecoveredIntact`, `JournalSpec`
  (the refinement) and `CallsReturn` for the journal;
* `EvenIsWhole`, `AcceptedStoodWhole`, `LiveMeansNewer` and
  `QuietAttemptAccepted` for the mailbox;
* `EveryByteAccounted`, `RingInOrder`, `FreshIsNew`, `PublishedFreshIsYoung`
  and `TimeoutMeansSilence` for GNSS;
* `FaultEdgeKept`, `CopyCoherent`, `CountIsLowerBound`, `SampledEveryTick`,
  `HistoryNeverCleared` and `FaultRecorded` (liveness) for the power monitor;
* `NeverNested`, `CommandsReachChip`, `RestoredOrStopped`, `PublishedSettled`
  and `AnswersAreHonest` for the flash bus;
* `AnswersAreFresh`, `OneBoot`, `CleanHandover` and `RequestsAreServed`
  (liveness) for the USB link;
* `GoodIsOneNewSample` for the IMU, `FirstFrameWins` and `NeverStaleReply` for
  the camera.

Bounds. Two sectors and three boots let a boot start in a sector another boot
left torn, fill one and open the next, and find the flash full; two layouts
make a page of one build stand where another expects its own. Two wrong reads
are as many as `OnlyBlankProgrammed` survives: a page of an earlier boot is
programmed only after the scan, the sector check and the page check have all
read it wrong. The counter wraps within a boot in `flashlog`; in
`flashlog_journal` it does not, since the writer refuses a counter that wrapped
and stops. A sequence word modulo 4 wraps inside one attempt, so a frame can be
replaced by another with the same number; three frames over two boots let one
boot's frame be read as if it were the other's. A ring of three slots holds two
bytes, less than a packet, so it overflows in the middle of one; of two losses one
lets the task's check find something, and the other comes between the check and the
discard, or while the task feeds bytes; more losses are left to the theorems, which
hold for every number. Three packets
with iTOW values at the end of the week, at its start and out of range give
repeats, steps back and the rollover; the two in range lie within half a week, which
the theorem about freshness assumes too (section 5). Three edges let one fall while the one
before is latched, while it is being handled and after it was cleared. Three
commands put a dump before, between and after two commands of one call. Two
sessions let the second meet what the first left, and one fault comes at any
moment of either; two bytes are the least a frame can be cut in, one block
makes a dump of three requests. A clock modulo 4 wraps within a session and lets a
board that was reset report what the one before might have. Eight bytes hold
two candidates that overlap in any way, and the longest noise a header can hide
in before a whole frame; one byte in the FIFO is enough to be the header of a
frame that is too early, and two let an early byte be noise before it.

`arbiter` and `imu` check for deadlock. The others do not: boots, frames, bytes,
ticks, sessions and queries are bounded there, and a bounded behaviour ends.

Fairness, property by property:

* `CallsReturn`. The firmware is one loop that keeps running, so a step of the
  writer that stays enabled is taken: weak fairness of the writer's steps. The
  disjuncts that only a fault takes (`Faults`) are excluded, so that the loop is
  not rescued by an error that need not come; the chip is owed nothing, and the
  poll's limit alone ends the wait.
* `FaultRecorded`. Weak fairness of the handlers' own steps and of the main
  loop's masked sections, which all end. Entering the handler of a latched line
  is strongly fair: SysTick and the copy mask it again and again, and the
  interrupt controller serves a pending line as soon as nothing masks it. The
  edges of the inputs are owed nothing.
* `RequestsAreServed`. Weak fairness of `bench_usb_task`, which the main loop and
  every `HAL_Delay` call for ever, and of the tool's read while it waits. Whether
  a tool opens, writes or gives up is owed nothing, and no fault has to come.

## 4. Findings

* `mailbox_status`: `transport.py:147` opens the extended record for versions
  5, 6 and 7 only, while `mailbox.py:181` asks for it for version 8 too. An SWD
  capture of the power-status build can only be partial, though
  `m3_firmware/README.md:53` and `POWER_STATUS_DIAGNOSTICS.md:31` offer it.
  `UnknownVersionReadsNothing` proves that no timing helps: with version 8 no
  sample is ever accepted. `diagnostics/test_usb.py:152` asserts just that refusal,
  so the test and the documentation cannot both be right.
* `gnss_timeout`: `gnss_stm32.c:74` compares the time at which the task began
  with the time of a byte received after that. The unsigned difference wraps, and
  a packet in the middle of reception is given up and counted as a timeout, where
  `GNSS_DIAGNOSTICS.md:33` says after 400 ms. `TimeoutMeansSilence` measures the
  silence from the last byte the packet had, not from a late byte that ends the
  wait (`gnss.c:70`); with the current tick in place of `now` it holds.
* `camera_stale`: `camera.c:57` promises never to accept a stale frame as the
  response to the new query. The drain ends at the first read that finds nothing,
  and what comes from then until the query is out waits in the receive FIFO
  (`camera_stm32.c:55`) and is read as the reply. A second drain once `tx_done` says
  that the query is out would discard it.

## 5. Proofs

The assumptions on the constants are `LayoutAssumption` and `BoundAssumption`
(the pages of a sector are the slots times the width of every layout; at most
two wrong reads), `MailboxAssumption` (an even sequence modulus, at least one
body cell besides the CRC), `GnssAssumption` (a ring of two slots or more, a
packet of three bytes or more, ticks below the modulus of the clock),
`PowerAssumption`, `ArbiterAssumption`, `ImuAssumption`, `CameraAssumption` and
`UsbAssumption` (the types of the bounds, a receive limit of at least one, a
request of two bytes or more). Four theorems have a hypothesis besides:
`QuietIsAccepted` is about versions up to 7 and `UnknownVersionReadsNothing` about
version 8, which are all there are; `FreshMeansNew` and `StatusIsYoung` assume
`TowsInHalfAWeek`, explained below. Nothing else is assumed. Each inductive
invariant below was first checked by TLC on a small instance.

### The journal

* `TypeCorrect`. `TypeOK` is not inductive: that `slot`, `chunk` and the target
  page stay in range depends on where the writer is. `ControlInv` adds that a
  record is only under way with `next` inside the array and that a sector that
  is not open has no slot. `PageOfInSector` is the one piece of arithmetic.
* `OnlyBlankPagesProgrammed`. The inductive invariant `BlankInv` counts what a
  used page ahead of the writer costs in wrong reads: one when the scan took its
  sector for blank, two when the sector check did so too. The page check would
  need a third, and at most two are assumed, so the program under way aims at a
  blank page.
* `SessionsSeparate`. `RecordInv` describes the whole image, the page the chip is
  programming included (`FlightInv`). `FlashInv` says of what stands in the array:
  headers only on a sector's first page (`HeaderPages`), data where the layout of
  its sector's header puts them (`DataPagesPlaced`), one boot to a sector and to
  a session, and counters that rise with the position in a session
  (`CountersRise`). `NewBoot` says that a boot that has not ended its
  scan has left nothing, `ReadyInv` what the writer relies on: the pages of its
  sector (`OwnPages`), of the record under way (`OwnRecord`) and its counters
  (`OwnCounters`). A header that was programmed but reported as failed is in the
  image and ends the session, so its number is not taken again.
* `RecordsIntact`, `NothingRefused`. The slots of a session are in the order of
  their counters, and the chunks of a slot are of one record: so a record with all
  its chunks is one boot's, and the test of `recover` for a counter that does not
  rise refuses nothing this writer wrote, whatever was torn.
* `JournalImplemented`. The mapping is `RecoveredLog`. A step that does not
  complete a record changes no candidate and stutters, also one that tears a page;
  the program of a last chunk adds one record, after all others of its session, of
  the next number of its boot. Of a program that failed but reached the chip in
  full the record is in the log and not in the count, which `Journal` allows.
* `CallsCounted`. `CountInv` follows the counter through the places of the call:
  it is taken before the outcome is known, so the sum is one short in between.
* `DamageBounded`. `DamageInv` counts the torn pages and the page the chip is
  programming together: fewer than the boots until this boot has begun a program
  that was not yet read back, at most as many from then on. A program that is
  read back wrong or fails stops the boot, so it damages no second page.

### The mailbox

* `MailboxTypeCorrect`. One lemma for the firmware's steps, one for the host's;
  `Parity` shows that the sequence alternates through its wrap.
* `EvenSequenceIsWhole`. `WriterInv` says, for each place of the writer, which
  prefix of the body is of the frame under way and what parity the sequence word
  has; between boots it is the property itself, which is why a reset at any
  word is harmless. A power loss leaves no header.
* `AcceptedFrameStood`. Equal sequence words prove nothing, since the number wraps
  and restarts. It is the order of the words that does: the firmware
  writes the first body word first and the CRC last (`BodyInv`), and the probe reads
  in the same order. So once the probe has read the first word, its frame either
  stood whole during the attempt or its CRC does not stand (`AttemptInv`), and the
  store of that CRC makes the body whole. A sample whose last word is of the
  frame of its first is therefore of a frame that stood.
* `QuietIsAccepted`. `QuietInv`: while nothing has moved since the attempt began,
  each word read is the word that stands, and the sequence is even.
* `LiveSamplesAreNewer`. `OrderInv`: whatever stood in an attempt or stands now is
  no earlier than any sample before it, so samples never step back. That they do
  not repeat is what the rule of `analyze_mailbox` asks for.
* `UnknownVersionReadsNothing`. `ShutInv`: no attempt gets past the grant.

### GNSS

* `GnssTypeCorrect`. `GnssTypeOK` is not inductive at `Feed`, which takes one
  from the budget: `FeedInv` adds that a slot is only held while the queue is not
  empty and a budget is left.
* `NoByteUncounted`. `Distance` turns the remainder in `Queued` into two
  cases, the queue before or across the end of the ring; `NextSlot` does so for
  an index. Each step then moves one byte from one term of the sum to another.
* `BytesInOrder`. `OrderInv` adds that every byte in the queue was sent before
  the next one the receiver sends; a full ring leaves one slot between `head`
  and `tail`, so the slot the task holds is never written.
* `FreshMeansNew`, `StatusIsYoung`. The parser keeps one epoch and compares the
  next with it modulo a week: a difference below half a week is forward. That is
  an order only among iTOWs that lie within half a week (`TowsInHalfAWeek`), as
  those of a session at the bench do; there `AheadIsLater` makes it the order of
  their offsets from the first. Without the hypothesis the property is false: in
  a week of 7 the epochs 0, 4, 3, 4 make the first 4 a step back, and the second
  4 a new epoch. Under it `EpochInv` says that the parser's epoch has the greatest
  offset of all accepted in range (`LastInv`), that one that is current was new
  and unbroken when it came (`CurrentInv`), and that a fresh one is current whenever a
  status can be published (`FreshInv`): a loss the task has taken makes it stale at
  the next tick, the one that ends the pass. A loss that is only signalled has not
  reached the parser, and what stood before it is still fresh.
  `StampInv` gives the bytes that wait their time; since the clock has not
  wrapped, an age is a difference of two times.

### Power status

* `NoFaultEdgeLost`, `CopyIsCoherent`, `GapNeverShows`, `HistoryIsNeverCleared`.
  `Masked` and `OneOwner` say who may hold a masked section; `Loaded` follows:
  what a handler loaded is what stands, so its store forgets nothing. `Summary`
  ties the flags of a record to its counters, and `CopyInv` says that a copy
  under way is behind the record in every word.
* `TypeCorrect`, `CountNeverExceeds`. An edge is in one place at a time: `EdgeInv`
  bounds the latched lines, those in the hands of a handler and the count
  together by the edges so far. For that a handler must hold one line, which stays
  latched until it clears it (`HandlerInv`), so an edge that falls in between
  is lost from the count and never added twice. `LatchOne` does the sum of
  cardinalities, `SaturatedInv` the flag of the full counter.

### The flash bus

* `ArbiterTypes`, `PublishedIsSettled`, `DumpsNeverNest`,
  `EveryCommandReachesChip`, `StorageIsRestored`, `HonestAnswers`. `Locked` ties
  the flag to the place of the main loop, `Controller` the state of the
  controller to the status and to the place of the dump; one lemma per step
  shows that the three survive it. What is published is copied when no dump is in
  progress.

### USB

* `FreshAnswers`, `OneRun`, `HandOver`. Each byte and packet between the tool and
  the board carries the number of a request. `OnlyKnown` says of all five places
  where one can wait that the number is past, or is that of the request that
  waits, with an answer later than it and of this run of the board; `Onward` is
  what any step may do to the numbers, and what was known stays known under it
  (`KnownGrows`). For the hand-over the order in the queue counts as well:
  `Ordered` says that behind a fall of DTR nothing of a session before it comes.
* `BuffersBounded`. `RoomInv` has a part for each side: between two bytes the
  request buffer of `usb_wire` is never full, since a full one is executed or
  loses its first byte, and TinyUSB's FIFO takes a packet only when the one before
  has left it. `HandInv` bounds the sessions the board has seen by those the
  host opened.

### IMU and camera

* `ImuTypes`, `GoodSamples`. A reset after `imu_begin` is never repaired
  (`ConfiguredOnce`), so past the check of the configuration it still shows in
  the status (`ResetShows`). The status was read once before the polls, so a
  sample that is ready came after the call (`ReadyIsNew`), and while the status
  shows nothing, what was read of the burst is what the registers hold
  (`BurstIsData`).
* `CameraTypes`, `FirstFrame`. The property alone is not inductive: a discarded
  byte must not become the start of a good frame by what comes later.
  `NoFrameLost` adds that it is no header, or the header of a whole bad frame;
  `ResyncResult` shows that the resynchronization skips no header. No step opens
  the definition of the checksum, so the result holds of CRC-8 too.

Only model-checked: the liveness properties `CallsReturn`, `FaultRecorded` and
`RequestsAreServed`, since liveness under fairness is out of the prover's reach.
Every safety property of the passing runs is a theorem. The three runs that expect a
violation have none, apart from `UnknownVersionReadsNothing`.

## 6. Not modelled

The parts of section 1 without a module, for these reasons. The self-test, the
barometer and the ADC are one bounded sequential exchange each, with register
I/O and arithmetic that a test drives well. The diagnosis engine, the triage
and the GNSS report map one evidence file to a report. USB descriptors and
mailbox field offsets are tables. The board design, the build and the audit
tools do not run on the system. The HAL, CMSIS and TinyUSB are vendored;
TinyUSB's queues appear in `UsbLink` as far as the firmware's own code depends
on them. By lines nearly all of the C outside `vendor` is the device header
`diagnostics/sources/stm32h743xx.h`, the core header beside it and the tables
the build writes (`build_*/generated.h`): constants without behaviour.

Inside the modelled parts: CRC and SHA values (a content either matches or does
not), the 49.7-day wrap of the millisecond counter in the age of a solution,
the GNSS poll transmitter, the UART of the receiver, which is an environment
that sends bytes or loses them, and what section 2 names as left out.

## 7. Plan

1. The GNSS poll packet and its 200 ms limit, beside the receive path.
2. `UsbLink`: suspend and resume.
3. The recovery of a layout by the host from an image of mixed builds on a
   larger flash.
4. Proofs: what a new action adds to the invariants of section 5, and a bound on
   the steps of a storage call, the safety half of `CallsReturn`.
