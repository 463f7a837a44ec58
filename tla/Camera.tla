--------------------------------- MODULE Camera ---------------------------------
(***************************************************************************)
(* The camera's device-information query (m3_firmware/src/camera.c) against *)
(* a camera that may answer late, in parts, twice or after noise.          *)
(*                                                                         *)
(* A byte is told apart as the header, as the protocol version the driver  *)
(* accepts, or neither; the check is any function of the bytes before it.  *)
(* A deadline may pass, and the tick may stall, in every round of a loop.  *)
(* What the UART receives while the driver sends waits in its FIFO and is  *)
(* read first in the reply.                                                *)
(***************************************************************************)
EXTENDS Integers, Sequences

CONSTANTS
  MaxRx,  \* CAM_MAX_RX: the bytes that end a reception (256 in the code)
  Fifo    \* bytes the receive FIFO of the UART holds (16 in the STM32H7)

ASSUME CameraAssumption == MaxRx \in Nat \ {0} /\ Fifo \in Nat

VARIABLES
  enabled,   \* the argument: 0 or 1
  pc,        \* the driver
  oe,        \* the output enable of the level shifter, as it reads back
  power,     \* the supply of the camera, as it reads back
  error,     \* CameraResult.error
  status,    \* CameraResult.status
  sent,      \* tx_count
  discarded, \* discarded
  crcErrors, \* crc_errors: 0, or 1 for any number
  packet,    \* packet[0 .. length]
  valid,     \* valid_length: 0, or 1 for 5
  received,  \* rx_count, and the bytes themselves
  drained,   \* history: discarded when the query began
  early      \* history: bytes that came after the drain and before the whole query

vars == <<enabled, pc, oe, power, error, status, sent, discarded, crcErrors, packet, valid,
          received, drained, early>>
line == <<sent, discarded, crcErrors, packet, valid, received, drained, early>>

Errors == {"NONE", "INIT", "CLOCK", "TX_TIMEOUT", "RX_TIMEOUT", "UART_ERROR", "BAD_CRC",
           "VERSION", "RX_LIMIT", "PIN_READBACK", "TICK_STALLED"}
Header == 2
Version == 1
Byte == 0 .. 2
Request == 3

camera_crc8(a, b, c, d) == (a + b + c + d) % 3
FrameAt(s, i) ==
  /\ i + 4 <= Len(s) /\ s[i] = Header
  /\ s[i + 4] = camera_crc8(s[i], s[i + 1], s[i + 2], s[i + 3])

Init ==
  /\ enabled \in 0 .. 1 /\ pc = "start" /\ oe \in 0 .. 1 /\ power \in 0 .. 1
  /\ error = "NONE" /\ status = "NOT_TESTED" /\ sent = 0 /\ discarded = 0 /\ crcErrors = 0
  /\ packet = <<>> /\ valid = 0 /\ received = <<>> /\ drained = 0 /\ early = 0

Stop(e) == pc' = "done" /\ error' = e
Fails(es) == \E e \in es : Stop(e) /\ UNCHANGED <<oe, power, status, line>>
Goes(next) == pc' = next /\ UNCHANGED error

-----------------------------------------------------------------------------
\* Both pins low, whatever they were; a pin may not follow its output.
Start ==
  /\ pc = "start" /\ oe' \in 0 .. 1 /\ power' \in 0 .. 1
  /\ \/ oe' + power' > 0 /\ Stop("PIN_READBACK") /\ UNCHANGED status
     \/ oe' + power' = 0 /\ enabled = 0 /\ pc' = "done" /\ UNCHANGED <<error, status>>
     \/ oe' + power' = 0 /\ enabled = 1 /\ Goes("init") /\ status' = "RUNNING"
  /\ UNCHANGED <<enabled, line>>

InitUart ==
  /\ pc = "init"
  /\ \/ Fails({"INIT", "CLOCK"})
     \/ Goes("power") /\ UNCHANGED <<oe, power, status, line>>
  /\ UNCHANGED enabled

PowerOn ==
  /\ pc = "power" /\ power' \in 0 .. 1
  /\ IF power' = 1 THEN Goes("boot") ELSE Stop("PIN_READBACK")
  /\ UNCHANGED <<enabled, oe, status, line>>

Boot ==
  /\ pc = "boot"
  /\ \/ Fails({"TICK_STALLED"}) /\ UNCHANGED enabled
     \/ /\ oe' \in 0 .. 1
        /\ IF oe' = 1 THEN Goes("drain") ELSE Stop("PIN_READBACK")
        /\ UNCHANGED <<enabled, power, status, line>>

\* Fault: the drain reads on for as long as something comes.
Drain_Unlimited ==
  /\ pc = "drain"
  /\ \/ Goes("send") /\ UNCHANGED line
     \/ /\ discarded' = discarded + 1 /\ drained' = discarded'
        /\ UNCHANGED <<pc, error, sent, crcErrors, packet, valid, received, early>>
  /\ UNCHANGED <<enabled, oe, power, status>>

\* What came before the query goes away, until nothing is there.
Drain ==
  /\ pc = "drain"
  /\ \/ Fails({"UART_ERROR"})
     \/ Goes("send") /\ UNCHANGED <<oe, power, status, line>>
     \/ /\ discarded' = discarded + 1 /\ drained' = discarded'
        /\ IF discarded' >= MaxRx
           THEN Stop("RX_LIMIT")
           ELSE \/ Stop("TICK_STALLED") \/ Stop("RX_LIMIT") \/ UNCHANGED <<pc, error>>
        /\ UNCHANGED <<oe, power, status, sent, crcErrors, packet, valid, received, early>>
  /\ UNCHANGED enabled

Send ==
  /\ pc = "send"
  /\ \/ Fails({"TICK_STALLED", "TX_TIMEOUT", "UART_ERROR"})
     \/ /\ sent < Request /\ sent' = sent + 1 /\ UNCHANGED <<pc, error>>
        /\ UNCHANGED <<oe, power, status, discarded, crcErrors, packet, valid, received, drained,
                       early>>
     \/ sent = Request /\ Goes("reply") /\ UNCHANGED <<oe, power, status, line>>
  /\ UNCHANGED enabled

\* The camera sends on although the drain has found nothing more: the byte waits in the
\* FIFO, before the driver has handed over the whole query. (One that finds no room is
\* a UART_ERROR of Send.)
Arrive ==
  /\ pc = "send" /\ sent < Request /\ early < Fifo /\ early' = early + 1
  /\ UNCHANGED <<enabled, pc, oe, power, error, status, sent, discarded, crcErrors, packet, valid,
                 received, drained>>

-----------------------------------------------------------------------------
(***************************************************************************)
(* The reply                                                               *)
(***************************************************************************)
\* Fault: a bad candidate is dropped with the header that follows in it.
Resync_DropsAll(p) == Len(p) + 1

\* Where a candidate that failed its check is taken up again: its next header.
Resync(p) ==
  CHOOSE n \in 2 .. Len(p) + 1 :
    /\ n = Len(p) + 1 \/ p[n] = Header
    /\ \A k \in 2 .. n - 1 : p[k] # Header

\* The limit is looked at after a byte that did not complete the reply.
Limit ==
  IF Len(received') >= MaxRx THEN Stop("RX_LIMIT") ELSE UNCHANGED <<pc, error>>

Receive(b) ==
  LET candidate == Append(packet, b)
      next == Resync(candidate)
  IN  /\ received' = Append(received, b)
      /\ \/ /\ packet = <<>> /\ b # Header /\ discarded' = discarded + 1 /\ Limit
            /\ UNCHANGED <<packet, crcErrors, valid>>
         \/ /\ packet # <<>> \/ b = Header
            /\ Len(candidate) < 5 /\ packet' = candidate /\ Limit
            /\ UNCHANGED <<discarded, crcErrors, valid>>
         \/ /\ FrameAt(candidate, 1) /\ packet' = candidate /\ valid' = 1
            /\ Stop(IF candidate[2] = Version THEN "NONE" ELSE "VERSION")
            /\ UNCHANGED <<discarded, crcErrors>>
         \/ /\ Len(candidate) = 5 /\ ~FrameAt(candidate, 1) /\ crcErrors' = 1
            /\ packet' = SubSeq(candidate, next, 5) /\ discarded' = discarded + next - 1
            /\ Limit /\ UNCHANGED valid
      /\ UNCHANGED <<enabled, oe, power, status, sent, drained, early>>

NoReply ==
  /\ Fails({"TICK_STALLED", "UART_ERROR", IF crcErrors = 1 THEN "BAD_CRC" ELSE "RX_TIMEOUT"})
  /\ UNCHANGED enabled

Reply == pc = "reply" /\ (NoReply \/ \E b \in Byte : Receive(b))

\* On every path: the output enable low, the supply of the camera as it is.
Done ==
  /\ pc = "done" /\ pc' = "ended" /\ oe' \in 0 .. 1 /\ power' \in 0 .. 1
  /\ IF error # "NONE"
     THEN error' = error
     ELSE error' \in {"NONE", "PIN_READBACK"} \cup (IF enabled = 1 THEN {"UART_ERROR"} ELSE {})
  /\ status' = IF error' # "NONE" THEN "FAIL" ELSE IF enabled = 1 THEN "OK" ELSE "NOT_TESTED"
  /\ UNCHANGED <<enabled, line>>

Next == \/ Start \/ InitUart \/ PowerOn \/ Boot \/ Drain \/ Send \/ Arrive \/ Reply \/ Done
Spec == Init /\ [][Next]_vars

-----------------------------------------------------------------------------
(***************************************************************************)
(* Properties                                                              *)
(***************************************************************************)
TypeOK ==
  /\ enabled \in 0 .. 1 /\ oe \in 0 .. 1 /\ power \in 0 .. 1
  /\ pc \in {"start", "init", "power", "boot", "drain", "send", "reply", "done", "ended"}
  /\ error \in Errors /\ status \in {"NOT_TESTED", "RUNNING", "OK", "FAIL"}
  /\ sent \in 0 .. Request /\ crcErrors \in 0 .. 1 /\ valid \in 0 .. 1
  /\ drained \in 0 .. MaxRx /\ discarded \in drained .. drained + MaxRx
  /\ packet \in Seq(Byte) /\ Len(packet) <= 5
  /\ received \in Seq(Byte) /\ Len(received) <= MaxRx /\ early \in 0 .. Fifo

\* camera_query: the bytes read after the query was sent are those discarded and the
\* candidate; no good frame began in a discarded one, and the query ends with
\* the first good frame when one came whole: noise, a frame cut short or a bad
\* one never costs the next (camera.c:84).
FirstFrameWins ==
  LET lost == discarded - drained
  IN  /\ Len(received) = lost + Len(packet)
      /\ \A k \in 1 .. Len(packet) : packet[k] = received[lost + k]
      /\ \A i \in 1 .. lost : ~FrameAt(received, i)
      /\ valid = 1 <=> FrameAt(received, lost + 1)
      /\ valid = 1 => error \notin {"RX_TIMEOUT", "BAD_CRC", "RX_LIMIT"}
      /\ status = "OK" => valid = 1

\* "Never accept a stale device-info frame as the response to our new query."
\* (camera.c:57): no frame that is accepted began before the query was out, so what
\* came that early was all discarded.
NeverStaleReply ==
  valid = 1 => discarded - drained >= early
=============================================================================
