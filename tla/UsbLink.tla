-------------------------------- MODULE UsbLink --------------------------------
(***************************************************************************)
(* The host tool (diagnostics/usb.py) and the board's USB task             *)
(* (m3_firmware/src/usb_stm32.c over usb_wire.c and TinyUSB): one request  *)
(* at a time, one session of the serial port after another, and between    *)
(* them a line that is closed, reset, unplugged or shared with noise, and  *)
(* a board that resets.                                                    *)
(*                                                                         *)
(* A request is Frame bytes; its CRC holds when they are the bytes of one  *)
(* request in their order. A reply is two packets, more than the FIFO of   *)
(* the board holds, or one when it reports an error.                       *)
(***************************************************************************)
EXTENDS Integers, Sequences

CONSTANTS
  Frame,     \* bytes of a request (24 in the code)
  Blocks,    \* blocks of flash in a dump
  Clock,     \* the millisecond counter wraps here (2^32 in the code)
  Sessions,  \* bound: ports opened
  Faults     \* bound: noise bytes, silences and faults of the line or the board

ASSUME UsbAssumption ==
  /\ Frame \in Nat \ {0, 1} /\ Blocks \in Nat \ {0} /\ Clock \in Nat \ {0}
  /\ Sessions \in Nat \ {0} /\ Faults \in Nat

VARIABLES
  host,      \* the tool: its request and the answers it kept
  queue,     \* on their way to the USB task: bytes, DTR changes, bus resets
  dev,       \* the USB task: ready, active, vbus and clock, DTR, where it is
  wire,      \* usb_wire: the bytes received of a request, the packets left to send
  cdc,       \* bytes TinyUSB received
  fifo,      \* packets TinyUSB is to send
  endpoint,  \* the packet in the endpoint, which only the host takes away
  board,     \* boots, and the clock as last reported
  served,    \* history: requests executed
  fallen,    \* history: sessions the device saw end
  faults     \* faults so far

vars == <<host, queue, dev, wire, cdc, fifo, endpoint, board, served, fallen, faults>>

Snapshot == [op |-> "SNAPSHOT", address |-> 0]
Block(i) == [op |-> "FLASH", address |-> i]

\* capture and dump: what they ask for, one after the other.
Script(job) ==
  IF job = "capture" THEN <<Snapshot, Snapshot>>
  ELSE <<Snapshot>> \o [i \in 1 .. Blocks |-> Block(i - 1)] \o <<Snapshot>>

NoWire == [rx |-> <<>>, tx |-> <<>>]
Started(ready) ==
  [ready |-> ready, active |-> FALSE, vbus |-> TRUE, clock |-> TRUE, dtr |-> 0, task |-> "rest"]

Init ==
  /\ host = [pc |-> "closed", session |-> 0, job |-> "capture", written |-> 0, since |-> 0,
             got |-> <<>>, kept |-> <<>>, state |-> "NONE"]
  /\ dev = Started(TRUE)
  /\ queue = <<>> /\ wire = NoWire /\ cdc = <<>> /\ fifo = <<>> /\ endpoint = <<>>
  /\ board \in [boot : {0}, uptime : 0 .. Clock - 1]
  /\ served = 0 /\ fallen = {} /\ faults = 0

-----------------------------------------------------------------------------
(***************************************************************************)
(* The host                                                                *)
(***************************************************************************)
\* Fault: the numbers of requests start from the same one in every session.
Ident_Restarts == <<1, Len(host.kept) + 1>>

\* The number of a request: random for the first, then counted on. Two
\* sessions never share one here.
Ident == <<host.session, Len(host.kept) + 1>>
Asked == Script(host.job)[Len(host.kept) + 1]
RequestBytes == [i \in 1 .. Frame |-> [ident |-> Ident, asks |-> Asked, pos |-> i]]

ByteItem(b) == [kind |-> "BYTE", byte |-> b]
DtrItem(session) == [kind |-> "DTR", session |-> session]
ResetItem == [kind |-> "RESET"]

\* An exception: what is kept stays, and says how far it got.
Failed(h) ==
  [h EXCEPT !.pc = "closed", !.got = <<>>,
            !.state = IF Len(h.kept) > (IF h.job = "dump" THEN 1 ELSE 0)
                      THEN "PARTIAL" ELSE "CONNECTION_FAILED"]
\* The port is gone under the tool: the next read or write raises.
PortLost(h) == IF h.pc = "closed" THEN h ELSE Failed(h)

\* The fall of DTR is lost when the board leaves the request unanswered for so
\* long that the next one replaces it.
Fault == faults < Faults /\ faults' = faults + 1
Close(h) ==
  /\ host' = h
  /\ \/ queue' = Append(queue, DtrItem(0)) /\ UNCHANGED faults
     \/ Fault /\ UNCHANGED queue
Fail == Close(Failed(host))

Enumerated == dev.ready /\ dev.active /\ dev.vbus /\ dev.clock
                /\ \A i \in DOMAIN queue : queue[i].kind # "RESET"

\* serial_client: DTR rises with the open; reset_input_buffer comes after it.
Open ==
  /\ host.pc = "closed" /\ host.session < Sessions /\ Enumerated
  /\ \E job \in {"capture", "dump"} :
       host' = [pc |-> "opened", session |-> host.session + 1, job |-> job, written |-> 0,
                since |-> 0, got |-> <<>>, kept |-> <<>>, state |-> "STARTED"]
  /\ queue' = Append(queue, DtrItem(host.session + 1))
  /\ UNCHANGED <<dev, wire, cdc, fifo, endpoint, board, served, fallen, faults>>

\* What arrived before reset_input_buffer is thrown away; what comes later is not.
Discard ==
  /\ host.pc = "opened" /\ endpoint # <<>> /\ endpoint' = <<>>
  /\ UNCHANGED <<host, queue, dev, wire, cdc, fifo, board, served, fallen, faults>>
InputReset ==
  /\ host.pc = "opened" /\ host' = [host EXCEPT !.pc = "ready"]
  /\ UNCHANGED <<queue, dev, wire, cdc, fifo, endpoint, board, served, fallen, faults>>

Request ==
  /\ host.pc = "ready"
  /\ host' = [host EXCEPT !.pc = "waiting", !.written = 0, !.since = served]
  /\ UNCHANGED <<queue, dev, wire, cdc, fifo, endpoint, board, served, fallen, faults>>

\* A write takes any number of the bytes left.
Write ==
  /\ host.pc = "waiting" /\ host.written < Frame
  /\ \E n \in host.written + 1 .. Frame :
       /\ host' = [host EXCEPT !.written = n]
       /\ queue' = queue \o [i \in 1 .. n - host.written |-> ByteItem(RequestBytes[host.written + i])]
  /\ UNCHANGED <<dev, wire, cdc, fifo, endpoint, board, served, fallen, faults>>

\* dump: the clock must have moved on between the two snapshots, modulo its range.
ClockMovedOn(before, after) ==
  LET elapsed == (after - before + Clock) % Clock IN 0 < elapsed /\ 2 * elapsed < Clock

\* The last answer decides; a dump looks at the clock first.
Accept(reply) ==
  LET kept == Append(host.kept, [since |-> host.since, reply |-> reply])
      more == [host EXCEPT !.pc = "ready", !.got = <<>>, !.kept = kept]
      last == Len(kept) >= Len(Script(host.job))
      good == host.job = "capture" \/ ClockMovedOn(kept[1].reply.uptime, reply.uptime)
      state == IF host.job = "capture" THEN "CAPTURED" ELSE "DOWNLOADED"
  IN  \/ ~last /\ host' = more /\ UNCHANGED <<queue, faults>>
      \/ last /\ good /\ Close([more EXCEPT !.pc = "closed", !.state = state])
      \/ last /\ ~good /\ Close(Failed(more))

\* The first packet must be the head of an answer to this very request.
HeaderMatches(p) == p.part = 1 /\ p.reply.ident = Ident /\ p.reply.asks = Asked

\* One packet is read: the head, which must match, or the rest, which the CRC
\* must bind to it. A snapshot may also be of a board the tool does not want.
Receive ==
  /\ host.pc = "waiting" /\ host.written = Frame /\ endpoint # <<>> /\ endpoint' = <<>>
  /\ LET p == endpoint[1] IN
     \/ /\ host.got = <<>> /\ HeaderMatches(p) /\ p.reply.ok
        /\ host' = [host EXCEPT !.got = <<p>>] /\ UNCHANGED <<queue, faults>>
     \/ host.got = <<>> /\ ~(HeaderMatches(p) /\ p.reply.ok) /\ Fail
     \/ host.got # <<>> /\ p = [host.got[1] EXCEPT !.part = 2] /\ Accept(p.reply)
     \/ host.got # <<>> /\ p # [host.got[1] EXCEPT !.part = 2] /\ Fail
     \/ host.got # <<>> /\ Asked.op = "SNAPSHOT" /\ Fail
  /\ UNCHANGED <<dev, wire, cdc, fifo, board, served, fallen>>

\* The deadline of a request, before or after its last byte was written.
Deadline ==
  /\ host.pc = "waiting" /\ Fail
  /\ UNCHANGED <<dev, wire, cdc, fifo, endpoint, board, served, fallen>>

-----------------------------------------------------------------------------
(***************************************************************************)
(* The board: bench_usb_task, which only interrupts come in between        *)
(***************************************************************************)
At(pc) == dev.ready /\ dev.task = pc
Powered == dev.vbus /\ dev.clock

\* deinit: the stack forgets everything and the host sees the board go.
Detached == /\ wire' = NoWire /\ cdc' = <<>> /\ fifo' = <<>> /\ endpoint' = <<>> /\ queue' = <<>>
            /\ host' = PortLost(host)

TaskDetach ==
  /\ At("rest") /\ dev.active /\ ~Powered
  /\ dev' = [dev EXCEPT !.active = FALSE, !.dtr = 0, !.ready = dev.clock]
  /\ Detached
  /\ UNCHANGED <<board, served, fallen, faults>>

\* VBUS was high for long enough; the stack may fail to start, for good.
TaskAttach ==
  /\ At("rest") /\ ~dev.active /\ Powered
  /\ \/ dev' = [dev EXCEPT !.active = TRUE, !.task = "events"] /\ UNCHANGED faults
     \/ dev' = [dev EXCEPT !.ready = FALSE] /\ Fault
  /\ UNCHANGED <<host, queue, wire, cdc, fifo, endpoint, board, served, fallen>>

TaskEnter ==
  /\ At("rest") /\ dev.active /\ Powered
  /\ dev' = [dev EXCEPT !.task = "events"]
  /\ UNCHANGED <<host, queue, wire, cdc, fifo, endpoint, board, served, fallen, faults>>

\* Fault: a fall of DTR clears TinyUSB's buffers and leaves the protocol as it is.
TaskEvent_KeepsWire ==
  /\ At("events") /\ queue # <<>> /\ queue' = Tail(queue)
  /\ LET e == Head(queue) IN
     \/ /\ e.kind = "BYTE" /\ cdc' = Append(cdc, e.byte)
        /\ UNCHANGED <<dev, fifo, fallen>>
     \/ /\ e.kind = "DTR" /\ e.session # 0 /\ dev' = [dev EXCEPT !.dtr = e.session]
        /\ UNCHANGED <<cdc, fifo, fallen>>
     \/ /\ e.kind = "DTR" /\ e.session = 0 /\ dev' = [dev EXCEPT !.dtr = 0]
        /\ cdc' = <<>> /\ fifo' = <<>> /\ fallen' = fallen \cup ({dev.dtr} \ {0})
     \/ /\ e.kind = "RESET" /\ dev' = [dev EXCEPT !.dtr = 0]
        /\ cdc' = <<>> /\ fifo' = <<>> /\ UNCHANGED fallen
  /\ UNCHANGED <<host, wire, endpoint, board, served, faults>>

\* tud_task: bytes are received; a fall of DTR clears what is ours and
\* TinyUSB's; a bus reset clears only what is TinyUSB's.
TaskEvent ==
  /\ At("events") /\ queue # <<>> /\ queue' = Tail(queue)
  /\ LET e == Head(queue) IN
     \/ /\ e.kind = "BYTE" /\ cdc' = Append(cdc, e.byte)
        /\ UNCHANGED <<dev, wire, fifo, fallen>>
     \/ /\ e.kind = "DTR" /\ e.session # 0 /\ dev' = [dev EXCEPT !.dtr = e.session]
        /\ UNCHANGED <<wire, cdc, fifo, fallen>>
     \/ /\ e.kind = "DTR" /\ e.session = 0 /\ dev' = [dev EXCEPT !.dtr = 0]
        /\ wire' = NoWire /\ cdc' = <<>> /\ fifo' = <<>> /\ fallen' = fallen \cup ({dev.dtr} \ {0})
     \/ /\ e.kind = "RESET" /\ dev' = [dev EXCEPT !.dtr = 0]
        /\ cdc' = <<>> /\ fifo' = <<>> /\ UNCHANGED <<wire, fallen>>
  /\ UNCHANGED <<host, endpoint, board, served, faults>>

\* The last packet was taken: the next goes into the endpoint.
TaskSent ==
  /\ At("events") /\ endpoint = <<>> /\ fifo # <<>>
  /\ endpoint' = <<Head(fifo)>> /\ fifo' = Tail(fifo)
  /\ UNCHANGED <<host, queue, dev, wire, cdc, board, served, fallen, faults>>

\* usb_wire_tick: a part of a request older than 500 ms is given up. Without
\* DTR nothing is fed or sent.
TaskTick ==
  /\ At("events") /\ queue = <<>> /\ ~(endpoint = <<>> /\ fifo # <<>>)
  /\ dev' = [dev EXCEPT !.task = IF dev.dtr # 0 THEN "feed" ELSE "rest"]
  /\ \/ UNCHANGED <<wire, faults>>
     \/ /\ wire.rx # <<>> /\ faults < Faults
        /\ wire' = [wire EXCEPT !.rx = <<>>] /\ faults' = faults + 1
  /\ UNCHANGED <<host, queue, cdc, fifo, endpoint, board, served, fallen>>

WholeRequest(s) ==
  Len(s) = Frame /\ \A i \in 1 .. Frame : s[i].pos = i /\ s[i].ident = s[1].ident

Packets(reply) ==
  IF reply.ok THEN <<[reply |-> reply, part |-> 1], [reply |-> reply, part |-> 2]>>
  ELSE <<[reply |-> reply, part |-> 1]>>

\* Fault: a frame that is no request is thrown away whole.
Resync_DropsAll(rx) == [wire EXCEPT !.rx = <<>>]

\* Fault: a full frame that is no request stays, and the next byte comes behind it.
Resync_KeepsFrame(rx) == [wire EXCEPT !.rx = rx]

\* A full frame that is no request loses its first byte only.
Resync(rx) == [wire EXCEPT !.rx = Tail(rx)]

\* The request is served at once, or refused; a snapshot tells the clock.
Execute(b) ==
  \E ok \in BOOLEAN, uptime \in IF b.asks = Snapshot THEN {0, 1} ELSE {0} :
    /\ board' = [board EXCEPT !.uptime = (@ + uptime) % Clock]
    /\ served' = served + 1
    /\ wire' = [rx |-> <<>>,
                tx |-> Packets([ident |-> b.ident, asks |-> b.asks, ok |-> ok, boot |-> board.boot,
                                uptime |-> IF b.asks = Snapshot THEN board'.uptime ELSE 0,
                                at |-> served + 1, session |-> dev.dtr])]

\* usb_wire_feed, while nothing waits to be sent.
TaskFeed ==
  /\ At("feed") /\ cdc # <<>> /\ wire.tx = <<>> /\ cdc' = Tail(cdc)
  /\ LET rx == Append(wire.rx, Head(cdc)) IN
     \/ /\ Len(rx) < Frame /\ wire' = [wire EXCEPT !.rx = rx] /\ UNCHANGED <<board, served>>
     \/ /\ Len(rx) = Frame /\ ~WholeRequest(rx) /\ wire' = Resync(rx) /\ UNCHANGED <<board, served>>
     \/ WholeRequest(rx) /\ Execute(Head(cdc))
  /\ UNCHANGED <<host, queue, dev, fifo, endpoint, fallen, faults>>

\* tud_cdc_write takes what the FIFO has room for, one packet here, and the
\* flush hands it on when the endpoint is free.
Room == IF fifo = <<>> /\ wire.tx # <<>> THEN 1 ELSE 0
TaskWrite ==
  /\ At("feed") /\ (cdc = <<>> \/ wire.tx # <<>>)
  /\ LET taken == SubSeq(wire.tx, 1, Room)
         sending == fifo \o taken
     IN  /\ wire' = [wire EXCEPT !.tx = SubSeq(@, Room + 1, Len(@))]
         /\ IF endpoint = <<>> /\ taken # <<>>
            THEN endpoint' = <<Head(sending)>> /\ fifo' = Tail(sending)
            ELSE fifo' = sending /\ UNCHANGED endpoint
  /\ dev' = [dev EXCEPT !.task = "rest"]
  /\ UNCHANGED <<host, queue, cdc, board, served, fallen, faults>>

-----------------------------------------------------------------------------
(***************************************************************************)
(* The line and the board                                                  *)
(***************************************************************************)
\* The host enumerates again without the board noticing the cable: also an
\* unplugging and plugging between two calls of the task.
BusReset ==
  /\ Enumerated /\ Fault
  /\ queue' = Append(queue, ResetItem) /\ endpoint' = <<>> /\ host' = PortLost(host)
  /\ UNCHANGED <<dev, wire, cdc, fifo, board, served, fallen>>

Unplug ==
  /\ dev.vbus /\ Fault
  /\ dev' = [dev EXCEPT !.vbus = FALSE] /\ host' = PortLost(host)
  /\ UNCHANGED <<queue, wire, cdc, fifo, endpoint, board, served, fallen>>
Plug ==
  /\ ~dev.vbus /\ dev' = [dev EXCEPT !.vbus = TRUE]
  /\ IF dev.active THEN queue' = Append(queue, ResetItem) /\ endpoint' = <<>>
     ELSE UNCHANGED <<queue, endpoint>>
  /\ UNCHANGED <<host, wire, cdc, fifo, board, served, fallen, faults>>

\* HSE or PLL3 stops.
ClockLost ==
  /\ dev.clock /\ Fault /\ dev' = [dev EXCEPT !.clock = FALSE]
  /\ UNCHANGED <<host, queue, wire, cdc, fifo, endpoint, board, served, fallen>>

\* Fault: the tool opens the port again when the board comes back, and goes on.
BoardReset_Reconnects ==
  /\ Fault /\ wire' = NoWire /\ cdc' = <<>> /\ fifo' = <<>> /\ endpoint' = <<>>
  /\ IF host.pc = "closed" THEN queue' = <<>> /\ UNCHANGED host
     ELSE /\ queue' = <<DtrItem(host.session)>>
          /\ host' = [host EXCEPT !.pc = "ready", !.got = <<>>]
  /\ dev' = [Started(TRUE) EXCEPT !.vbus = dev.vbus]
  /\ board' = [boot |-> board.boot + 1, uptime |-> 0]
  /\ UNCHANGED <<served, fallen>>

\* Everything starts again, or USB does not: bench_usb_initialize found no clock. The
\* device leaves the bus, and the environment is assumed to make the tool's port fail
\* with it, so no dump gets from a reset as far as ClockMovedOn.
BoardReset ==
  /\ Fault /\ Detached
  /\ \E ready \in BOOLEAN : dev' = [Started(ready) EXCEPT !.vbus = dev.vbus]
  /\ board' = [boot |-> board.boot + 1, uptime |-> 0]
  /\ UNCHANGED <<served, fallen>>

\* Another program of the host writes to the port.
Noise ==
  /\ host.pc # "closed" /\ Fault
  /\ queue' = Append(queue, ByteItem([ident |-> <<0, 0>>, asks |-> Snapshot, pos |-> 0]))
  /\ UNCHANGED <<host, dev, wire, cdc, fifo, endpoint, board, served, fallen>>

-----------------------------------------------------------------------------
Host == Open \/ Discard \/ InputReset \/ Request \/ Write \/ Receive \/ Deadline
Task == TaskDetach \/ TaskAttach \/ TaskEnter \/ TaskEvent \/ TaskSent \/ TaskTick
          \/ TaskFeed \/ TaskWrite
Line == BusReset \/ Unplug \/ Plug \/ ClockLost \/ BoardReset \/ Noise
Next == Host \/ Task \/ Line
Spec == Init /\ [][Next]_vars

\* The main loop and its waits call the task for ever; a tool that waits reads.
FairSpec == Spec /\ WF_vars(Task) /\ WF_vars(Receive)

-----------------------------------------------------------------------------
(***************************************************************************)
(* Properties                                                              *)
(***************************************************************************)
TypeOK ==
  /\ host.pc \in {"closed", "opened", "ready", "waiting"}
  /\ host.state \in {"NONE", "STARTED", "CAPTURED", "DOWNLOADED", "PARTIAL", "CONNECTION_FAILED"}
  /\ host.session \in 0 .. Sessions /\ host.written \in 0 .. Frame /\ Len(host.got) <= 1
  /\ dev.dtr \in 0 .. Sessions /\ dev.task \in {"rest", "events", "feed"}
  /\ Len(wire.rx) < Frame /\ Len(wire.tx) <= 2 /\ Len(fifo) <= 1 /\ Len(endpoint) <= 1
  /\ board.uptime \in 0 .. Clock - 1 /\ served \in Nat /\ faults \in 0 .. Faults
  /\ fallen \subseteq 0 .. Sessions

\* Client.request: what the tool keeps as the answer to a request was computed
\* by the board after the tool had asked, and for what it asked, whatever the
\* sessions before it left in the board (usb.py:62).
AnswersAreFresh ==
  \A i \in DOMAIN host.kept :
    LET k == host.kept[i] IN k.reply.at > k.since /\ k.reply.asks = Script(host.job)[i]

\* capture, dump: what ends as CAPTURED or DOWNLOADED is everything asked for,
\* and one run of the board gave it all: a reset between two requests of a dump
\* (usb.py:152) ends it, because the port fails with the board.
OneBoot ==
  host.state \in {"CAPTURED", "DOWNLOADED"} =>
    /\ Len(host.kept) = Len(Script(host.job))
    /\ \A i \in DOMAIN host.kept : host.kept[i].reply.boot = host.kept[1].reply.boot

\* tud_cdc_line_state_cb: once the board has seen a session end, nothing of it
\* is left but a packet in the endpoint: no byte of its requests can begin the
\* next one, no packet of its replies is sent into the next session.
CleanHandover ==
  /\ \A i \in DOMAIN wire.tx : wire.tx[i].reply.session \notin fallen
  /\ \A i \in DOMAIN fifo : fifo[i].reply.session \notin fallen
  /\ \A i \in DOMAIN wire.rx : wire.rx[i].ident[1] \notin fallen
  /\ \A i \in DOMAIN cdc : cdc[i].ident[1] \notin fallen

\* usb_wire_feed: a request that lies whole before the board, behind noise or
\* the rest of another, is executed unless the line or the board fails first or
\* the tool ends the session.
OnTheWay ==
  LET path == wire.rx \o cdc \o SelectSeq(queue, LAMBDA e : e.kind = "BYTE")
      Of(x) == IF "byte" \in DOMAIN x THEN x.byte ELSE x
  IN  /\ host.pc = "waiting"
      /\ \E i \in 0 .. Len(path) - Frame :
           [j \in 1 .. Frame |-> Of(path[i + j])] = RequestBytes
RequestsAreServed ==
  \A f \in 0 .. Faults :
    OnTheWay /\ faults = f ~> served > host.since \/ host.pc # "waiting" \/ faults # f
=============================================================================
