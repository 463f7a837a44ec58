------------------------------- MODULE Mailbox -------------------------------
(***************************************************************************)
(* The result record the bench firmware keeps in AXI SRAM                  *)
(* (m3_firmware/src/main.c: bench_mailbox, publish) and the debug probe    *)
(* that reads it word by word while the firmware runs, is reset or loses   *)
(* power (diagnostics/mailbox.py, diagnostics/transport.py).               *)
(*                                                                         *)
(* The record is a row of cells: cell 0 is the constant header (magic,     *)
(* version, length), cell 1 the sequence word, the others the body, the    *)
(* CRC-32 the last. A body cell holds the number of the published frame    *)
(* its value comes from, 0 when it is cleared or undefined. The CRC-32     *)
(* holds exactly when the body is of one frame.                            *)
(***************************************************************************)
EXTENDS Integers, Sequences

CONSTANTS
  Cells,          \* the last cell of the record
  Version,        \* protocol version of the build, and of the manifest of the host
  SeqModulus,     \* the sequence word wraps here (2^32 in the code)
  Attempts,       \* attempts per sample (5 in the code)
  Expected,       \* samples of a capture
  MaxBoots,       \* bound: boots of a behaviour
  MaxFrames       \* bound: frames published in a behaviour

ASSUME MailboxAssumption ==
  /\ Cells \in Nat /\ Cells >= 2 /\ Version \in 2..8
  /\ SeqModulus \in Nat /\ SeqModulus > 0 /\ SeqModulus % 2 = 0
  /\ Attempts \in Nat \ {0} /\ Expected \in Nat \ {0}
  /\ MaxBoots \in Nat /\ MaxFrames \in Nat

Body == 2 .. Cells
Value == 0 .. SeqModulus - 1
Even(n) == n % 2 = 0

VARIABLES
  \* SRAM: the header and body cells, and the sequence word
  box, boxSeq,
  \* the firmware: where main.c is, the next cell, `seq', the heartbeat of `frame'
  wpc, wi, seq, beat,
  \* the host: where read_consistent is, the next word, what it has read so far
  rpc, ri, before, words, wordSeq, attempt,
  \* the evidence file of the capture: its state and its samples
  state, samples,
  \* history: boots, the heartbeat of every frame, the frames that stood whole in SRAM
  \* during this attempt, whether nothing moved during it, how it ended
  boots, beats, stood, quiet, outcome

sram == <<box, boxSeq>>
firmware == <<wpc, wi, seq, beat>>
attemptState == <<ri, before, words, wordSeq>>
host == <<rpc, attemptState, attempt, state, samples>>
vars == <<sram, firmware, host, boots, beats, stood, quiet, outcome>>

\* The frame that stands whole in a row of cells, 0 when there is none.
FrameOf(cells) ==
  IF cells[0] # 0 /\ \A i \in Body : cells[i] = cells[2] THEN cells[2] ELSE 0

NoWords == [i \in {0} \cup Body |-> 0]

Init ==
  /\ box = NoWords /\ boxSeq \in Value
  /\ wpc = "off" /\ wi = 0 /\ seq = 0 /\ beat = 0
  /\ rpc = "open" /\ ri = 2 /\ before = 0 /\ words = NoWords /\ wordSeq = 0
  /\ attempt = 1 /\ state = "STARTED" /\ samples = <<>>
  /\ boots = 0 /\ beats = <<>> /\ stood = {} /\ quiet = FALSE /\ outcome = "none"

-----------------------------------------------------------------------------
(***************************************************************************)
(* The firmware                                                            *)
(***************************************************************************)
\* A step of the firmware that changes the record: an attempt under way sees it happen.
Changes ==
  /\ stood' = stood \cup ({FrameOf(box')} \ {0})
  /\ quiet' = FALSE
  /\ UNCHANGED <<host, outcome>>

SetCell(i, v) == box' = [box EXCEPT ![i] = v]

\* main clears the record word by word before it writes the constant header.
Boot ==
  /\ wpc = "off" /\ boots < MaxBoots
  /\ boots' = boots + 1
  /\ wpc' = "clear" /\ wi' = 0
  /\ UNCHANGED <<sram, seq, beat, host, beats, stood, quiet, outcome>>

Clear ==
  /\ wpc = "clear"
  /\ IF wi = 1 THEN boxSeq' = 0 /\ UNCHANGED box ELSE SetCell(wi, 0) /\ UNCHANGED boxSeq
  /\ IF wi = Cells THEN wpc' = "test" /\ wi' = 0 ELSE wi' = wi + 1 /\ UNCHANGED wpc
  /\ Changes /\ UNCHANGED <<seq, beat, boots, beats>>

\* publish: the sequence word turns odd before the first word of the frame is copied.
\* Before STATE_READY the heartbeat stands; afterwards each acquisition advances it. A
\* failed assertion publishes once more and stops.
Publish(next) ==
  /\ wpc \in {"test", "ready"} /\ Len(beats) < MaxFrames
  /\ \/ next = "testing" /\ wpc = "test" /\ beat' = beat
     \/ next = "running" /\ beat' = beat + 1
     \/ next = "failing" /\ beat' = beat
  /\ beats' = Append(beats, beat')
  /\ seq' = (seq + 1) % SeqModulus /\ boxSeq' = seq'
  /\ wpc' = next /\ wi' = 0
  /\ UNCHANGED <<box, boots>> /\ Changes

\* Fault: the sequence word turns even before the last word is copied.
CopyWord_EarlyEven ==
  /\ wpc \in {"testing", "running", "failing"} /\ wi <= Cells
  /\ SetCell(wi, Len(beats)) /\ wi' = IF wi = 0 THEN 2 ELSE wi + 1
  /\ IF wi = Cells - 1 THEN boxSeq' = (seq + 1) % SeqModulus ELSE UNCHANGED boxSeq
  /\ UNCHANGED <<wpc, seq, beat, boots, beats>> /\ Changes

CopyWord ==
  /\ wpc \in {"testing", "running", "failing"} /\ wi <= Cells
  /\ SetCell(wi, Len(beats)) /\ wi' = IF wi = 0 THEN 2 ELSE wi + 1
  /\ UNCHANGED <<boxSeq, wpc, seq, beat, boots, beats>> /\ Changes

Commit ==
  /\ wpc \in {"testing", "running", "failing"} /\ wi > Cells
  /\ seq' = (seq + 1) % SeqModulus /\ boxSeq' = seq'
  /\ wpc' = [testing |-> "test", running |-> "ready", failing |-> "halted"][wpc]
  /\ UNCHANGED <<box, wi, beat, boots, beats>> /\ Changes

\* A reset keeps the SRAM as it is; a power loss leaves it undefined.
Restart ==
  /\ wpc # "off"
  /\ wpc' = "off" /\ wi' = 0 /\ seq' = 0 /\ beat' = 0
  /\ UNCHANGED <<boots, beats>>

ProcessorReset ==
  /\ Restart /\ UNCHANGED <<sram, host, stood, quiet, outcome>>

PowerLoss ==
  /\ Restart
  /\ box' = NoWords /\ boxSeq' \in Value
  /\ Changes

-----------------------------------------------------------------------------
(***************************************************************************)
(* The host: read_consistent, one word of the record at a time             *)
(***************************************************************************)
\* The row of the attempt is kept in the evidence; the model forgets it, but for the frame
\* an accepted one is of.
Forget == /\ ri' = 2 /\ before' = 0 /\ words' = NoWords /\ wordSeq' = 0
          /\ stood' = {} /\ quiet' = FALSE

\* The attempt ends; the sample ends with it when it is accepted or was the last attempt.
EndAttempt(result, value) ==
  /\ outcome' = result
  /\ IF result = "accepted" \/ attempt = Attempts
     THEN /\ attempt' = 1
          /\ samples' = Append(samples, value)
          /\ rpc' = IF Len(samples) + 1 = Expected THEN "close" ELSE "before"
     ELSE attempt' = attempt + 1 /\ rpc' = "before" /\ UNCHANGED samples
  /\ Forget /\ UNCHANGED state

Reject == EndAttempt("rejected", 0)

Goto(step) == rpc' = step /\ UNCHANGED <<attempt, state, samples, outcome, stood, quiet>>

\* The host only looks: it leaves the record and the firmware alone.
Looks == UNCHANGED <<sram, firmware, boots, beats>>

\* The probe opens and the target has the identity of the expected family, or neither.
Open ==
  /\ rpc = "open"
  /\ \/ rpc' = "before" /\ UNCHANGED state
     \/ rpc' = "close" /\ state' = "CONNECTION_FAILED"
  /\ UNCHANGED <<attemptState, attempt, samples, outcome, stood, quiet>> /\ Looks

\* An attempt starts with an empty row; the record is whole or it is not.
ReadBefore ==
  /\ rpc = "before"
  /\ ri' = 2 /\ before' = boxSeq /\ words' = NoWords /\ wordSeq' = 0
  /\ stood' = {FrameOf(box)} \ {0}
  /\ quiet' = (Even(boxSeq) /\ FrameOf(box) # 0)
  /\ outcome' = "none"
  /\ rpc' = IF Even(boxSeq) THEN "header" ELSE "busy"
  /\ UNCHANGED <<attempt, state, samples>> /\ Looks

\* "Writer busy": the attempt is over.
WriterBusy == rpc = "busy" /\ Reject /\ Looks

ReadHeader ==
  /\ rpc = "header"
  /\ words' = [words EXCEPT ![0] = box[0]]
  /\ Goto("sequence") /\ UNCHANGED <<ri, before, wordSeq>> /\ Looks

\* The header must be of the expected protocol before the extended record is opened.
ReadSequence ==
  /\ rpc = "sequence"
  /\ \/ words[0] = 0 /\ Reject
     \/ /\ words[0] # 0
        /\ wordSeq' = boxSeq
        /\ Goto(IF Version >= 5 THEN "grant" ELSE "rest")
        /\ UNCHANGED <<ri, before, words>>
  /\ Looks

\* Fault: the last version whose record is extended is not in the list.
Grant_ForgetsOne ==
  /\ rpc = "grant"
  /\ IF box[0] # 0 /\ Version \in {5, 6}
     THEN Goto("granted") /\ UNCHANGED attemptState
     ELSE Reject
  /\ Looks

\* enable_storage_mailbox reads the header again, and opens the words past the first 128
\* for the versions it knows. Each attempt calls it before it reads one of them.
Grant ==
  /\ rpc = "grant"
  /\ IF box[0] # 0 /\ Version \in {5, 6, 7}
     THEN Goto("granted") /\ UNCHANGED attemptState
     ELSE Reject
  /\ Looks

Granted ==
  /\ rpc = "granted"
  /\ IF Even(boxSeq) THEN Goto("rest") /\ UNCHANGED attemptState
     ELSE Reject
  /\ Looks

\* Fault: one word too many.
ReadRest_PastEnd ==
  /\ rpc = "rest"
  /\ words' = [words EXCEPT ![ri] = box[IF ri > Cells THEN 0 ELSE ri]]
  /\ IF ri > Cells THEN ri' = ri /\ Goto("after") ELSE ri' = ri + 1 /\ Goto("rest")
  /\ UNCHANGED <<before, wordSeq>> /\ Looks

ReadRest ==
  /\ rpc = "rest"
  /\ words' = [words EXCEPT ![ri] = box[ri]]
  /\ IF ri = Cells THEN ri' = ri /\ Goto("after") ELSE ri' = ri + 1 /\ Goto("rest")
  /\ UNCHANGED <<before, wordSeq>> /\ Looks

\* Fault: the CRC of the record is not computed.
Accepts_NoCrc(after) == before = after /\ wordSeq = before

\* The sequence did not change, and decode finds the CRC-32 of the words.
Accepts(after) == before = after /\ wordSeq = before /\ FrameOf(words) # 0

ReadAfter ==
  /\ rpc = "after"
  /\ IF Accepts(boxSeq) THEN EndAttempt("accepted", FrameOf(words)) ELSE Reject
  /\ Looks

\* A word that cannot be read fails the attempt; it is never replaced by a value.
BusFault ==
  /\ rpc \in {"before", "header", "sequence", "grant", "granted", "rest", "after"}
  /\ EndAttempt("fault", 0)
  /\ Looks

\* capture_mailbox ends: every sample accepted, or a partial capture; the probe may fail to
\* close, and the parent process may have killed the worker at any point before.
Close ==
  /\ rpc = "close"
  /\ state' \in {"CLEANUP_FAILED",
                 IF state # "STARTED" THEN state
                 ELSE IF 0 \in {samples[i] : i \in DOMAIN samples} THEN "PARTIAL"
                 ELSE "CAPTURED"}
  /\ rpc' = "done"
  /\ Forget /\ UNCHANGED <<attempt, samples, outcome>> /\ Looks

Killed ==
  /\ rpc # "done"
  /\ rpc' = "done" /\ state' = "ABORTED"
  /\ Forget /\ UNCHANGED <<attempt, samples, outcome>> /\ Looks

-----------------------------------------------------------------------------
Firmware == Boot \/ Clear \/ (\E n \in {"testing", "running", "failing"} : Publish(n))
            \/ CopyWord \/ Commit \/ ProcessorReset \/ PowerLoss
Host == Open \/ ReadBefore \/ WriterBusy \/ ReadHeader \/ ReadSequence \/ Grant \/ Granted
        \/ ReadRest \/ ReadAfter \/ BusFault \/ Close \/ Killed
Next == Firmware \/ Host

Spec == Init /\ [][Next]_vars

(***************************************************************************)
(* The report the host makes of the evidence file (analyze_mailbox)        *)
(***************************************************************************)
Trusted == state = "CAPTURED" /\ Len(samples) = Expected

BeatOf(i) == beats[samples[i]]

\* Fault: a heartbeat that stands still counts as alive.
Live_StandsStill ==
  \A i \in 1 .. Len(samples) - 1 : (BeatOf(i + 1) - BeatOf(i)) % SeqModulus < SeqModulus \div 2

\* The heartbeat went on between any two samples, by less than half of its range. (The code
\* wants the uptime to advance as well; what follows from the heartbeat alone follows then.)
Live ==
  \A i \in 1 .. Len(samples) - 1 :
    (BeatOf(i + 1) - BeatOf(i)) % SeqModulus \in 1 .. SeqModulus \div 2 - 1

-----------------------------------------------------------------------------
(***************************************************************************)
(* Properties                                                              *)
(***************************************************************************)
Row == [{0} \cup Body -> Nat]

MailboxTypeOK ==
  /\ box \in Row /\ boxSeq \in Value
  /\ wpc \in {"off", "clear", "test", "ready", "testing", "running", "failing", "halted"}
  /\ wi \in 0 .. Cells + 1 /\ (wpc = "clear" => wi <= Cells)
  /\ seq \in Value /\ beat \in Nat
  /\ boots \in 0 .. MaxBoots /\ beats \in Seq(Nat) /\ Len(beats) <= MaxFrames
  /\ rpc \in {"open", "before", "busy", "header", "sequence", "grant", "granted", "rest",
              "after", "close", "done"}
  /\ ri \in Body /\ before \in Value /\ words \in Row /\ wordSeq \in Value
  /\ attempt \in 1 .. Attempts /\ samples \in Seq(Nat)
  /\ Len(samples) <= Expected
  /\ state \in {"STARTED", "CAPTURED", "PARTIAL", "CONNECTION_FAILED", "CLEANUP_FAILED",
                "ABORTED"}
  /\ stood \subseteq Nat /\ quiet \in BOOLEAN
  /\ outcome \in {"none", "accepted", "rejected", "fault"}

\* "even: complete committed snapshot" (main.c:72): whenever the sequence word is even and
\* the header stands, the whole body is of one frame; after resets in the middle of a
\* copy or of the clearing too.
EvenIsWhole == (Even(boxSeq) /\ box[0] # 0) => FrameOf(box) # 0

\* A sample the host accepts is one frame, and that frame stood whole in SRAM at a moment
\* of the attempt, though the sequence restarts with every boot and wraps, so that equal
\* sequence words before and after prove nothing (mailbox.py:185).
AcceptedStoodWhole ==
  [][(outcome' = "accepted" /\ outcome = "none") => FrameOf(words) \in stood]_vars

\* A committed record that nothing disturbs is read at the first attempt: this is what
\* "Over SWD: diagnostics.mailbox capture" promises of a running board
\* (m3_firmware/README.md:53).
QuietAttemptAccepted ==
  [][(outcome' = "rejected" /\ outcome = "none") => ~quiet]_vars

\* "Stalled, old-firmware, corrupt or missing data never counts as a pass": in a capture
\* that is trusted and live, each sample was published after the one before, across
\* resets of the firmware too.
LiveMeansNewer ==
  (Trusted /\ Live) =>
    \A i \in 1 .. Len(samples) - 1 : samples[i] < samples[i + 1]
==============================================================================
