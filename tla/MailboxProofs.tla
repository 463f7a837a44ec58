---------------------------- MODULE MailboxProofs ----------------------------
(***************************************************************************)
(* Proofs about the result record and its reader, for every length of the  *)
(* record, every width of the sequence word and every number of boots.     *)
(***************************************************************************)
EXTENDS Mailbox, TLAPS

\* The parity of the sequence word alternates, at the wrap too.
LEMMA Parity ==
  ASSUME NEW n \in Value
  PROVE  /\ (n + 1) % SeqModulus \in Value
         /\ Even((n + 1) % SeqModulus) <=> ~Even(n)
<1>1. n \in Nat /\ n < SeqModulus /\ SeqModulus \in Nat /\ SeqModulus > 0 /\ SeqModulus % 2 = 0
  BY MailboxAssumption DEF Value
<1>2. CASE n + 1 < SeqModulus
  <2>1. (n + 1) % SeqModulus = n + 1
    BY <1>1, <1>2
  <2> QED BY <1>1, <1>2, <2>1 DEF Even, Value
<1>3. CASE n + 1 = SeqModulus
  <2>1. (n + 1) % SeqModulus = 0
    BY <1>1, <1>3
  <2> QED BY <1>1, <1>3, <2>1 DEF Even, Value
<1> QED BY <1>1, <1>2, <1>3

\* The frame a row of cells is of.
LEMMA FrameOfType ==
  ASSUME NEW row \in Row
  PROVE  FrameOf(row) \in Nat
BY MailboxAssumption DEF FrameOf, Row, Body

LEMMA NoWordsType == NoWords \in Row /\ 0 \in Value
BY MailboxAssumption DEF NoWords, Row, Value

-----------------------------------------------------------------------------
LEMMA InitType == Init => MailboxTypeOK
<1>1. SUFFICES ASSUME Init PROVE MailboxTypeOK
  OBVIOUS
<1>2. <<>> \in Seq(Nat) /\ Len(<<>>) = 0
  OBVIOUS
<1>3. 2 \in Body /\ 1 \in 1 .. Attempts /\ 0 \in 0 .. Cells + 1
  BY MailboxAssumption DEF Body
<1>4. /\ box \in Row /\ boxSeq \in Value /\ seq \in Value /\ before \in Value
      /\ words \in Row /\ wordSeq \in Value
  BY <1>1, NoWordsType DEF Init
<1>5. /\ beats \in Seq(Nat) /\ Len(beats) <= MaxFrames
      /\ samples \in Seq(Nat) /\ Len(samples) <= Expected
  BY <1>1, <1>2, MailboxAssumption DEF Init
<1>6. boots \in 0 .. MaxBoots /\ stood \subseteq Nat /\ beat \in Nat
  BY <1>1, MailboxAssumption DEF Init
<1>7. quiet \in BOOLEAN
  BY <1>1 DEF Init
<1> QED
  BY <1>1, <1>3, <1>4, <1>5, <1>6, <1>7 DEF Init, MailboxTypeOK

\* What a step of the firmware leaves for the host, once the record keeps its type.
LEMMA ChangesType ==
  ASSUME MailboxTypeOK, Changes, box' \in Row
  PROVE  /\ stood' \subseteq Nat /\ quiet' = FALSE
         /\ UNCHANGED <<host, outcome>>
BY FrameOfType DEF Changes, MailboxTypeOK

LEMMA FirmwareType ==
  ASSUME MailboxTypeOK, Firmware
  PROVE  MailboxTypeOK'
<1> USE DEF MailboxTypeOK
<1>a. \A i \in Nat, v \in Nat : SetCell(i, v) => box' \in Row
  BY DEF SetCell, Row
<1>b. Len(beats) \in Nat
  OBVIOUS
<1>0. /\ \A i \in Nat, v \in Nat : SetCell(i, v) => box' \in Row
      /\ Cells \in Nat /\ Cells >= 2 /\ Len(beats) \in Nat
  BY <1>a, <1>b, MailboxAssumption
<1>1. CASE Boot
  BY <1>0, <1>1, MailboxAssumption DEF Boot, sram, host, attemptState
<1>2. CASE Clear
  <2>a. box' \in Row /\ boxSeq' \in Value
    <3>1. CASE wi = 1
      BY <1>2, <3>1, NoWordsType DEF Clear
    <3>2. CASE wi # 1
      <4>1. SetCell(wi, 0) /\ boxSeq' = boxSeq
        BY <1>2, <3>2 DEF Clear
      <4>2. wi \in Nat /\ 0 \in Nat
        BY <1>0
      <4> QED BY <1>a, <4>1, <4>2
    <3> QED BY <3>1, <3>2
  <2>b. /\ wi' \in 0 .. Cells + 1 /\ wi' <= Cells
        /\ wpc' \in {"clear", "test"}
    BY <1>0, <1>2 DEF Clear
  <2>c. UNCHANGED <<seq, beat, boots, beats>> /\ Changes
    BY <1>2 DEF Clear
  <2> QED BY <2>a, <2>b, <2>c, ChangesType DEF host, attemptState
<1>3. CASE \E n \in {"testing", "running", "failing"} : Publish(n)
  <2>1. PICK n \in {"testing", "running", "failing"} : Publish(n)
    BY <1>3
  <2>2. box' \in Row /\ seq' \in Value /\ boxSeq' \in Value /\ wi' \in 0 .. Cells + 1
    BY <1>0, <2>1, Parity DEF Publish
  <2>3. beat' \in Nat /\ beats' \in Seq(Nat) /\ Len(beats') <= MaxFrames
    BY <1>0, <2>1, MailboxAssumption DEF Publish
  <2>4. Changes /\ wpc' = n /\ boots' = boots
    BY <2>1 DEF Publish
  <2> QED BY <2>2, <2>3, <2>4, ChangesType DEF host, attemptState
<1>4. CASE CopyWord
  <2>1. box' \in Row /\ wi' \in 0 .. Cells + 1
    BY <1>0, <1>4 DEF CopyWord
  <2>2. Changes
    BY <1>4 DEF CopyWord
  <2> QED BY <1>4, <2>1, <2>2, ChangesType DEF CopyWord, host, attemptState
<1>5. CASE Commit
  <2>1. seq' \in Value /\ boxSeq' \in Value /\ box' \in Row
    BY <1>5, Parity DEF Commit
  <2>2. Changes /\ wpc' \in {"test", "ready", "halted"}
    BY <1>5 DEF Commit
  <2> QED BY <1>5, <2>1, <2>2, ChangesType DEF Commit, host, attemptState
<1>6. CASE ProcessorReset
  BY <1>0, <1>6, NoWordsType DEF ProcessorReset, Restart, sram, host, attemptState
<1>7. CASE PowerLoss
  <2>1. box' \in Row /\ boxSeq' \in Value
    BY <1>7, NoWordsType DEF PowerLoss
  <2>2. Changes
    BY <1>7 DEF PowerLoss
  <2>3. wpc' = "off" /\ wi' \in 0 .. Cells + 1 /\ seq' \in Value /\ beat' \in Nat
    BY <1>0, <1>7, NoWordsType DEF PowerLoss, Restart
  <2>4. UNCHANGED <<boots, beats>>
    BY <1>7 DEF PowerLoss, Restart
  <2> QED BY <2>1, <2>2, <2>3, <2>4, ChangesType DEF host, attemptState
<1> QED BY <1>1, <1>2, <1>3, <1>4, <1>5, <1>6, <1>7 DEF Firmware

\* The end of an attempt.
LEMMA EndAttemptType ==
  ASSUME MailboxTypeOK, rpc \notin {"close", "done"}, Len(samples) < Expected,
         NEW result \in {"accepted", "rejected", "fault"}, NEW value \in Nat,
         EndAttempt(result, value), Looks
  PROVE  MailboxTypeOK'
<1> USE DEF MailboxTypeOK
<1>1. 2 \in Body /\ 1 \in 1 .. Attempts
  BY MailboxAssumption DEF Body
<1>2. /\ ri' \in Body /\ before' \in Value /\ words' \in Row /\ wordSeq' \in Value
      /\ stood' \subseteq Nat /\ quiet' \in BOOLEAN
  BY <1>1, NoWordsType DEF EndAttempt, Forget
<1>3. CASE result = "accepted" \/ attempt = Attempts
  <2>1. samples' = Append(samples, value) /\ attempt' = 1 /\ rpc' \in {"close", "before"}
    BY <1>3 DEF EndAttempt
  <2>2. samples' \in Seq(Nat) /\ Len(samples') <= Expected
    BY <2>1, MailboxAssumption
  <2> QED BY <1>1, <1>2, <2>1, <2>2 DEF EndAttempt, Looks, sram, firmware
<1>4. CASE ~(result = "accepted" \/ attempt = Attempts)
  <2>1. samples' = samples /\ attempt' = attempt + 1 /\ rpc' = "before"
    BY <1>4 DEF EndAttempt
  <2>2. attempt' \in 1 .. Attempts
    BY <1>4, <2>1, MailboxAssumption
  <2> QED BY <1>2, <2>1, <2>2 DEF EndAttempt, Looks, sram, firmware
<1> QED BY <1>3, <1>4

\* The capture asks for no sample more than it was told to take.
SamplesLeft == rpc \notin {"close", "done"} => Len(samples) < Expected

LEMMA HostType ==
  ASSUME MailboxTypeOK, SamplesLeft, Host
  PROVE  MailboxTypeOK'
<1> USE DEF MailboxTypeOK
<1>0. FrameOf(words) \in Nat /\ FrameOf(box) \in Nat /\ 2 \in Body /\ Cells \in Nat
  BY FrameOfType, MailboxAssumption DEF Body
<1>1. ASSUME Looks, rpc \notin {"close", "done"}, Reject \/ EndAttempt("fault", 0)
               \/ EndAttempt("accepted", FrameOf(words))
      PROVE  MailboxTypeOK'
  BY <1>0, <1>1, EndAttemptType DEF SamplesLeft, Reject
<1>2. CASE Open
  BY <1>2 DEF Open, Looks, sram, firmware, attemptState
<1>3. CASE ReadBefore
  <2>1. ri' \in Body /\ before' \in Value /\ words' \in Row /\ wordSeq' \in Value
    BY <1>0, <1>3, NoWordsType DEF ReadBefore
  <2>2. stood' \subseteq Nat /\ quiet' \in BOOLEAN /\ rpc' \in {"header", "busy"}
    BY <1>0, <1>3 DEF ReadBefore, Even
  <2> QED BY <1>3, <2>1, <2>2 DEF ReadBefore, Looks, sram, firmware
<1>4. CASE WriterBusy
  BY <1>1, <1>4 DEF WriterBusy
<1>5. CASE ReadHeader
  BY <1>5 DEF ReadHeader, Goto, Looks, sram, firmware, Row
<1>6. CASE ReadSequence
  <2>1. CASE words[0] = 0 /\ Reject
    BY <1>1, <1>6, <2>1 DEF ReadSequence
  <2>2. CASE ~(words[0] = 0 /\ Reject)
    BY <1>6, <2>2 DEF ReadSequence, Goto, Looks, sram, firmware
  <2> QED BY <2>1, <2>2
<1>7. CASE Grant \/ Granted
  <2>1. CASE Reject
    BY <1>1, <1>7, <2>1 DEF Grant, Granted
  <2>2. CASE ~Reject
    BY <1>7, <2>2 DEF Grant, Granted, Goto, Looks, sram, firmware, attemptState
  <2> QED BY <2>1, <2>2
<1>8. CASE ReadRest
  <2>1. words' \in Row
    BY <1>8 DEF ReadRest, Row, Body
  <2>2. ri' \in Body
    BY <1>0, <1>8 DEF ReadRest, Body
  <2> QED BY <1>8, <2>1, <2>2 DEF ReadRest, Goto, Looks, sram, firmware
<1>9. CASE ReadAfter
  BY <1>1, <1>9 DEF ReadAfter
<1>10. CASE BusFault
  BY <1>1, <1>10 DEF BusFault
<1>11. CASE Close
  <2>1. state' \in {"CLEANUP_FAILED", state, "PARTIAL", "CAPTURED"}
    BY <1>11 DEF Close
  <2> QED BY <1>0, <1>11, <2>1, NoWordsType DEF Close, Forget, Looks, sram, firmware
<1>12. CASE Killed
  BY <1>0, <1>12, NoWordsType DEF Killed, Forget, Looks, sram, firmware
<1> QED
  BY <1>2, <1>3, <1>4, <1>5, <1>6, <1>7, <1>8, <1>9, <1>10, <1>11, <1>12 DEF Host

\* The record, the firmware, the reader and the evidence file keep their type.
THEOREM MailboxTypeCorrect == Spec => []MailboxTypeOK
<1>1. Init => MailboxTypeOK /\ SamplesLeft
  <2>1. Init => Len(samples) = 0 /\ Expected \in Nat \ {0}
    BY MailboxAssumption DEF Init
  <2> QED BY <2>1, InitType DEF SamplesLeft
<1>2. MailboxTypeOK /\ SamplesLeft /\ [Next]_vars => (MailboxTypeOK /\ SamplesLeft)'
  <2>1. SUFFICES ASSUME MailboxTypeOK, SamplesLeft, [Next]_vars
                 PROVE  MailboxTypeOK' /\ SamplesLeft'
    OBVIOUS
  <2>2. CASE Firmware
    <3>1. UNCHANGED <<rpc, samples>>
      BY <2>2 DEF Firmware, Boot, Clear, Publish, CopyWord, Commit, ProcessorReset, PowerLoss,
         Changes, host
    <3> QED BY <2>1, <2>2, <3>1, FirmwareType DEF SamplesLeft
  <2>3. CASE Host
    <3>1. MailboxTypeOK'
      BY <2>1, <2>3, HostType
    <3>2. SamplesLeft'
      <4>1. SUFFICES ASSUME rpc' \notin {"close", "done"} PROVE Len(samples') < Expected
        BY DEF SamplesLeft
      <4>2. CASE samples' = samples
        <5>1. rpc \notin {"close", "done"}
          BY <2>3, <4>1 DEF Host, Open, ReadBefore, WriterBusy, ReadHeader, ReadSequence, Grant,
             Granted, ReadRest, ReadAfter, BusFault, Close, Killed
        <5> QED BY <2>1, <4>2, <5>1 DEF SamplesLeft
      <4>3. CASE samples' # samples
        <5>1. PICK result, value : EndAttempt(result, value) /\ rpc \notin {"close", "done"}
          BY <2>3, <4>3 DEF Host, Open, ReadBefore, WriterBusy, ReadHeader, ReadSequence, Grant,
             Granted, ReadRest, ReadAfter, BusFault, Close, Killed, Reject, Goto
        <5>2. samples' = Append(samples, value) /\ Len(samples) + 1 # Expected
          BY <4>1, <4>3, <5>1 DEF EndAttempt
        <5>3. Len(samples) < Expected /\ Len(samples') = Len(samples) + 1
          BY <2>1, <5>1, <5>2 DEF SamplesLeft, MailboxTypeOK
        <5>4. Len(samples) \in Nat /\ Expected \in Nat
          BY <2>1, MailboxAssumption DEF MailboxTypeOK
        <5> QED BY <5>2, <5>3, <5>4
      <4> QED BY <4>2, <4>3
    <3> QED BY <3>1, <3>2
  <2>4. CASE UNCHANGED vars
    BY <2>1, <2>4 DEF vars, sram, firmware, host, attemptState, MailboxTypeOK, SamplesLeft
  <2> QED BY <2>1, <2>2, <2>3, <2>4 DEF Next
<1> QED BY <1>1, <1>2, PTL DEF Spec

-----------------------------------------------------------------------------
(***************************************************************************)
(* An even sequence word over a header means a whole frame                 *)
(***************************************************************************)
Copying == wpc \in {"testing", "running", "failing"}

\* While a frame is copied the word is odd and the cells before the next one hold it; the
\* clearing wipes the header first, so a half-cleared record has none.
WriterInv ==
  /\ Copying => /\ ~Even(boxSeq) /\ ~Even(seq) /\ Len(beats) > 0 /\ wi # 1
                /\ \A i \in {0} \cup Body : i < wi => box[i] = Len(beats)
  /\ ~Copying => Even(seq)
  /\ (wpc = "clear" /\ wi > 0) => box[0] = 0
  /\ wpc = "off" => seq = 0
  /\ EvenIsWhole

LEMMA InitWriter == Init => WriterInv
<1>1. Init => box[0] = 0 /\ Even(seq) /\ seq = 0 /\ wpc = "off"
  BY DEF Init, NoWords, Even
<1> QED BY <1>1 DEF WriterInv, Copying, EvenIsWhole

LEMMA NextWriter ==
  ASSUME MailboxTypeOK, WriterInv, [Next]_vars
  PROVE  WriterInv'
<1> USE DEF MailboxTypeOK, WriterInv, Copying
<1>0. Cells \in Nat /\ Cells >= 2 /\ Body \subseteq Nat /\ Len(beats) \in Nat
      /\ 2 \in Body /\ DOMAIN box = {0} \cup Body
  BY MailboxAssumption DEF Body, Row
<1>1. CASE Boot
  BY <1>1 DEF Boot, sram, EvenIsWhole
<1>2. CASE Clear
  <2>1. box'[0] = 0
    BY <1>0, <1>2 DEF Clear, SetCell
  <2> QED BY <1>2, <2>1 DEF Clear, EvenIsWhole
<1>3. CASE \E n \in {"testing", "running", "failing"} : Publish(n)
  <2>1. ~Even(seq') /\ boxSeq' = seq' /\ wi' = 0
    BY <1>3, Parity DEF Publish
  <2>2. Len(beats') > 0
    BY <1>0, <1>3 DEF Publish
  <2>3. wpc' \in {"testing", "running", "failing"}
    BY <1>3 DEF Publish
  <2> QED BY <1>0, <2>1, <2>2, <2>3 DEF EvenIsWhole
<1>4. CASE CopyWord
  <2>1. box' = [box EXCEPT ![wi] = Len(beats)] /\ UNCHANGED <<boxSeq, wpc, seq, beats>>
    BY <1>4 DEF CopyWord, SetCell
  <2>2. \A i \in {0} \cup Body : i < wi' => (i = wi \/ i < wi)
    BY <1>0, <1>4 DEF CopyWord, Body
  <2>3. wi' # 1
    BY <1>0, <1>4 DEF CopyWord
  <2>4. \A i \in {0} \cup Body : i < wi' => box'[i] = Len(beats)
    BY <1>0, <1>4, <2>1, <2>2 DEF CopyWord
  <2> QED BY <1>4, <2>1, <2>3, <2>4 DEF CopyWord, EvenIsWhole
<1>5. CASE Commit
  <2>1. Even(seq') /\ wpc' \in {"test", "ready", "halted"} /\ box' = box /\ beats' = beats
    BY <1>5, Parity DEF Commit
  <2>2. \A i \in {0} \cup Body : box[i] = Len(beats)
    BY <1>0, <1>5 DEF Commit, Body
  <2>3. FrameOf(box) # 0
    BY <1>0, <1>5, <2>2 DEF FrameOf, Commit
  <2> QED BY <2>1, <2>3 DEF EvenIsWhole
<1>6. CASE ProcessorReset
  BY <1>6 DEF ProcessorReset, Restart, sram, EvenIsWhole, Even
<1>7. CASE PowerLoss
  BY <1>7 DEF PowerLoss, Restart, NoWords, EvenIsWhole, Even
<1>8. CASE Host \/ UNCHANGED vars
  <2>1. UNCHANGED <<box, boxSeq, wpc, wi, seq, beats>>
    BY <1>8 DEF Host, Open, ReadBefore, WriterBusy, ReadHeader, ReadSequence, Grant,
       Granted, ReadRest, ReadAfter, BusFault, Close, Killed, Looks, sram, firmware, vars
  <2> QED BY <2>1 DEF EvenIsWhole
<1> QED BY <1>1, <1>2, <1>3, <1>4, <1>5, <1>6, <1>7, <1>8 DEF Next, Firmware

\* "even: complete committed snapshot", for a record of any length, a sequence word of any
\* width that wraps, and any number of resets and power losses at any word.
THEOREM EvenSequenceIsWhole == Spec => []EvenIsWhole
<1>1. Init => WriterInv
  BY InitWriter
<1>2. MailboxTypeOK /\ WriterInv /\ [Next]_vars => WriterInv'
  BY NextWriter
<1>3. WriterInv => EvenIsWhole
  BY DEF WriterInv
<1> QED BY <1>1, <1>2, <1>3, MailboxTypeCorrect, PTL DEF Spec

-----------------------------------------------------------------------------
(***************************************************************************)
(* What an attempt may take from the record                                *)
(*                                                                         *)
(* Only the last word of a copy makes the body of one frame, and the       *)
(* reader reads its last word last: a row of one frame was read behind the *)
(* end of that frame's copy, or the frame stood whole before. The sequence *)
(* words play no part in it.                                               *)
(***************************************************************************)
\* The body is of one frame, whatever the header.
Whole == box[2] # 0 /\ \A i \in Body : box[i] = box[2]

\* The cells hold frames already published; those the copy has not reached hold older ones,
\* so that the first and the last cell of a body of two frames differ.
BodyInv ==
  /\ \A i \in Body : box[i] <= Len(beats)
  /\ Copying => \A i \in Body : i >= wi => box[i] < Len(beats)
  /\ (wpc = "clear" /\ wi > 2) => box[2] = 0
  /\ (box[2] # 0 /\ box[Cells] = box[2]) => Whole

\* What the reader of an attempt has seen stood whole during it, or its end is another frame.
AttemptInv ==
  /\ rpc \in {"header", "sequence", "grant", "granted", "rest", "after"} /\ FrameOf(box) # 0 =>
       FrameOf(box) \in stood
  /\ rpc \in {"header", "sequence", "grant", "granted"} => ri = 2
  /\ rpc \in {"grant", "granted", "rest", "after"} => words[0] # 0
  /\ words[0] # 0 /\ Whole => box[2] \in stood
  /\ rpc = "rest" /\ ri > 2 /\ words[2] # 0 => words[2] \in stood \/ box[Cells] # words[2]
  /\ rpc = "after" /\ words[2] # 0 /\ words[Cells] = words[2] => words[2] \in stood

LEMMA BodyCells ==
  /\ Cells \in Body /\ 2 \in Body /\ Body \subseteq Nat /\ Cells \in Nat /\ Cells >= 2
  /\ \A i \in Body : 2 <= i /\ i <= Cells
BY MailboxAssumption DEF Body

\* The frame of a row stands in its body, under a header.
LEMMA WholeFrame ==
  /\ FrameOf(box) # 0 => Whole /\ box[0] # 0 /\ FrameOf(box) = box[2]
  /\ Whole /\ box[0] # 0 => FrameOf(box) = box[2]
BY DEF FrameOf, Whole

LEMMA WholeFrameNext ==
  /\ FrameOf(box') # 0 => Whole' /\ box'[0] # 0 /\ FrameOf(box') = box'[2]
  /\ Whole' /\ box'[0] # 0 => FrameOf(box') = box'[2]
BY DEF FrameOf, Whole

\* A firmware step is seen by the attempt under way, or leaves the record as it is.
LEMMA FirmwareChanges ==
  ASSUME Firmware
  PROVE  /\ UNCHANGED <<host, outcome>>
         /\ \/ Changes
            \/ UNCHANGED <<sram, stood, quiet>>
BY DEF Firmware, Boot, Clear, Publish, CopyWord, Commit, ProcessorReset, PowerLoss, Changes

\* The number of frames published is a natural number, and only grows.
LEMMA BeatsGrow ==
  ASSUME MailboxTypeOK, [Next]_vars
  PROVE  Len(beats) \in Nat /\ Len(beats') \in Nat /\ Len(beats') >= Len(beats)
<1>1. Len(beats) \in Nat /\ beats \in Seq(Nat)
  BY DEF MailboxTypeOK
<1>2. beats' = beats \/ \E b \in Nat : beats' = Append(beats, b)
  BY DEF Next, Firmware, Host, Boot, Clear, Publish, CopyWord, Commit, ProcessorReset, PowerLoss,
     Restart, Open, ReadBefore, WriterBusy, ReadHeader, ReadSequence, Grant, Granted, ReadRest,
     ReadAfter, BusFault, Close, Killed, Looks, vars, MailboxTypeOK
<1> QED BY <1>1, <1>2

\* A body becomes whole with the last word of the newest frame, and in no other way.
LEMMA BodyStep ==
  ASSUME MailboxTypeOK, WriterInv, BodyInv, [Next]_vars
  PROVE  /\ BodyInv'
         /\ \/ /\ ~Whole' \/ (Whole /\ box'[2] = box[2])
               /\ box'[Cells] \in {box[Cells], 0}
            \/ /\ Whole' /\ box'[2] = Len(beats) /\ FrameOf(box') = Len(beats) /\ Changes
               /\ beats' = beats
<1> USE DEF MailboxTypeOK, WriterInv
<1>0. /\ Cells \in Body /\ 2 \in Body /\ Body \subseteq Nat /\ Cells \in Nat /\ Cells >= 2
      /\ \A i \in Body : 2 <= i /\ i <= Cells
      /\ box \in [{0} \cup Body -> Nat] /\ Len(beats) \in Nat /\ wi \in Nat
  BY BodyCells DEF Row
<1>1. ASSUME UNCHANGED <<box, beats, wi>>, wpc' = wpc \/ (~Copying' /\ wpc' # "clear")
      PROVE  BodyInv' /\ (~Whole' \/ (Whole /\ box'[2] = box[2])) /\ box'[Cells] \in {box[Cells], 0}
  BY <1>1 DEF BodyInv, Copying, Whole
<1>10. ASSUME beats' = beats, \A i \in Body : box'[i] = box[i], ~Copying', wpc' = "clear" => ~(wi' > 2)
      PROVE  BodyInv' /\ (~Whole' \/ (Whole /\ box'[2] = box[2])) /\ box'[Cells] \in {box[Cells], 0}
  <2>1. \A i \in Body : box'[i] <= Len(beats')
    BY <1>0, <1>10 DEF BodyInv
  <2>2. (wpc' = "clear" /\ wi' > 2) => FALSE
    BY <1>10
  <2> QED BY <1>0, <1>10, <2>1, <2>2 DEF BodyInv, Whole
<1>2. CASE Boot
  BY <1>0, <1>2 DEF Boot, sram, BodyInv, Copying, Whole
<1>3. CASE Clear
  <2>1. /\ wpc = "clear" /\ beats' = beats
        /\ (wpc' = "clear" /\ wi' = wi + 1) \/ (wpc' = "test" /\ wi = Cells)
    BY <1>3 DEF Clear
  <2>2. CASE wi = 1 \/ wi = 0
    <3>1. box' = box \/ box' = [box EXCEPT ![0] = 0]
      BY <1>3, <2>2 DEF Clear, SetCell
    <3>2. \A i \in Body : box'[i] = box[i]
      BY <1>0, <3>1
    <3>3. (wpc' = "clear" => ~(wi' > 2)) /\ ~Copying'
      BY <1>0, <2>1, <2>2 DEF Copying
    <3> QED BY <1>0, <1>10, <2>1, <3>2, <3>3
  <2>3. CASE wi >= 2
    <3>1. box' = [box EXCEPT ![wi] = 0] /\ wi \in Body
      BY <1>0, <1>3, <2>3 DEF Clear, SetCell, Body
    <3>2. box'[2] = 0
      BY <1>0, <2>1, <2>3, <3>1 DEF BodyInv
    <3>3. \A i \in Body : box'[i] = box[i] \/ box'[i] = 0
      BY <1>0, <3>1
    <3>4. ~Copying' /\ ~Whole'
      BY <2>1, <3>2 DEF Copying, Whole
    <3>5. box'[Cells] \in {box[Cells], 0}
      BY <1>0, <3>3
    <3>6. \A i \in Body : box'[i] <= Len(beats')
      <4>1. \A i \in Body : box[i] <= Len(beats)
        BY DEF BodyInv
      <4>2. Len(beats') = Len(beats) /\ 0 <= Len(beats)
        BY <1>0, <2>1
      <4> SUFFICES ASSUME NEW i \in Body PROVE box'[i] <= Len(beats')
        OBVIOUS
      <4>3. CASE box'[i] = 0
        BY <4>2, <4>3
      <4>4. CASE box'[i] = box[i]
        BY <4>1, <4>2, <4>4
      <4> QED BY <3>3, <4>3, <4>4
    <3>7. BodyInv'
      BY <3>2, <3>4, <3>6 DEF BodyInv
    <3> QED BY <3>4, <3>5, <3>7
  <2> QED BY <1>0, <2>2, <2>3
<1>4. CASE \E n \in {"testing", "running", "failing"} : Publish(n)
  <2>1. box' = box /\ wpc' \in {"testing", "running", "failing"} /\ wi' = 0
        /\ \E b \in Nat : beats' = Append(beats, b)
    BY <1>4 DEF Publish
  <2>4. Copying' /\ wpc' # "clear"
    BY <2>1 DEF Copying
  <2>2. Len(beats') = Len(beats) + 1
    BY <2>1
  <2>3. \A i \in Body : box[i] < Len(beats')
    BY <1>0, <2>2 DEF BodyInv
  <2>5. \A i \in Body : box'[i] < Len(beats') /\ box'[i] <= Len(beats')
    BY <1>0, <2>1, <2>2, <2>3
  <2>6. BodyInv'
    BY <2>1, <2>4, <2>5 DEF BodyInv, Whole
  <2> QED BY <1>0, <2>1, <2>6 DEF Whole
<1>5. CASE CopyWord
  <2>1. /\ Copying /\ wi <= Cells /\ wi # 1 /\ UNCHANGED <<wpc, beats>> /\ Changes
        /\ box' = [box EXCEPT ![wi] = Len(beats)] /\ wi' = IF wi = 0 THEN 2 ELSE wi + 1
        /\ Len(beats) > 0 /\ \A i \in {0} \cup Body : i < wi => box[i] = Len(beats)
    BY <1>0, <1>5 DEF CopyWord, SetCell, Copying
  <2>2. CASE wi = 0
    <3>1. \A i \in Body : box'[i] = box[i]
      BY <1>0, <2>1, <2>2
    <3> QED BY <1>0, <2>1, <2>2, <3>1 DEF BodyInv, Copying, Whole
  <2>3. CASE wi # 0
    <3>1. wi \in Body /\ wi' = wi + 1
      BY <1>0, <2>1, <2>3 DEF Body
    <3>2. \A i \in Body : box'[i] = IF i = wi THEN Len(beats) ELSE box[i]
      BY <1>0, <2>1, <3>1
    <3>3. \A i \in Body : i <= wi => box'[i] = Len(beats)
      BY <1>0, <2>1, <3>1, <3>2
    <3>4. \A i \in Body : i > wi => box'[i] = box[i] /\ box[i] < Len(beats)
      BY <1>0, <2>1, <3>1, <3>2 DEF BodyInv
    <3>5. box'[2] = Len(beats)
      BY <1>0, <3>1, <3>3
    <3>6. CASE wi = Cells
      <4>1. Whole' /\ FrameOf(box') = Len(beats)
        <5>1. box'[0] = Len(beats)
          BY <1>0, <2>1, <2>3
        <5> QED BY <1>0, <2>1, <3>3, <3>5, <3>6, <5>1 DEF Whole, FrameOf
      <4>2. BodyInv'
        BY <1>0, <2>1, <3>1, <3>3, <3>5, <3>6, <4>1 DEF BodyInv, Copying
      <4> QED BY <2>1, <3>5, <4>1, <4>2
    <3>7. CASE wi # Cells
      <4>1. box'[Cells] = box[Cells] /\ box'[Cells] # box'[2] /\ ~Whole'
        BY <1>0, <2>1, <3>1, <3>4, <3>5, <3>7 DEF Whole
      <4>2. \A i \in Body : box'[i] <= Len(beats)
        BY <1>0, <3>3, <3>4
      <4>3. \A i \in Body : i >= wi' => box'[i] < Len(beats)
        BY <1>0, <3>1, <3>4
      <4>4. BodyInv'
        BY <1>0, <2>1, <4>1, <4>2, <4>3 DEF BodyInv, Copying
      <4> QED BY <4>1, <4>4
    <3> QED BY <3>6, <3>7
  <2> QED BY <2>2, <2>3
<1>6. CASE Commit
  <2>1. UNCHANGED <<box, beats, wi>> /\ ~Copying' /\ wpc' # "clear"
    BY <1>6 DEF Commit, Copying
  <2> QED BY <1>1, <2>1
<1>7. CASE ProcessorReset
  BY <1>0, <1>7 DEF ProcessorReset, Restart, sram, BodyInv, Copying, Whole
<1>8. CASE PowerLoss
  <2>1. \A i \in Body : box'[i] = 0
    BY <1>8 DEF PowerLoss, NoWords
  <2>2. ~Copying' /\ wpc' = "off" /\ beats' = beats
    BY <1>8 DEF PowerLoss, Restart, Copying
  <2> QED BY <1>0, <2>1, <2>2 DEF BodyInv, Whole
<1>9. CASE Host \/ UNCHANGED vars
  <2>1. UNCHANGED <<box, wpc, wi, beats>>
    BY <1>9 DEF Host, Open, ReadBefore, WriterBusy, ReadHeader, ReadSequence, Grant,
       Granted, ReadRest, ReadAfter, BusFault, Close, Killed, Looks, sram, firmware, vars
  <2> QED BY <1>1, <2>1
<1> QED BY <1>2, <1>3, <1>4, <1>5, <1>6, <1>7, <1>8, <1>9 DEF Next, Firmware

\* The steps of the host that neither read a word of the record into the row nor end it.
Moves ==
  /\ rpc \in {"sequence", "grant", "granted"} /\ rpc' \in {"grant", "granted", "rest"}
  /\ rpc = "sequence" => /\ words[0] # 0 /\ wordSeq' = boxSeq
                         /\ rpc' = IF Version >= 5 THEN "grant" ELSE "rest"
  /\ rpc # "sequence" => wordSeq' = wordSeq /\ rpc' # "grant"
  /\ UNCHANGED <<ri, before, words, attempt, state, samples, outcome, stood, quiet>>

\* Every step of the host leaves the record alone; those that read no word of it end the
\* attempt or move on.
LEMMA HostSteps ==
  ASSUME Host
  PROVE  /\ UNCHANGED <<box, boxSeq, beats>>
         /\ \/ Open \/ ReadBefore \/ ReadHeader \/ ReadRest \/ Moves
            \/ Forget /\ rpc' \in {"before", "close", "done"}
<1>1. UNCHANGED <<box, boxSeq, beats>>
  BY DEF Host, Open, ReadBefore, WriterBusy, ReadHeader, ReadSequence, Grant, Granted, ReadRest,
     ReadAfter, BusFault, Close, Killed, Looks, sram
<1>2. ASSUME NEW result, NEW value, EndAttempt(result, value)
      PROVE  Forget /\ rpc' \in {"before", "close"}
  BY <1>2 DEF EndAttempt
<1>3. CASE ReadSequence
  BY <1>1, <1>2, <1>3 DEF ReadSequence, Reject, Goto, Moves
<1>4. CASE Grant
  BY <1>1, <1>2, <1>4 DEF Grant, Reject, Goto, Moves, attemptState
<1>5. CASE Granted
  BY <1>1, <1>2, <1>5 DEF Granted, Reject, Goto, Moves, attemptState
<1>6. CASE WriterBusy \/ ReadAfter \/ BusFault
  BY <1>1, <1>2, <1>6 DEF WriterBusy, ReadAfter, BusFault, Reject
<1>7. CASE Close \/ Killed
  BY <1>1, <1>7 DEF Close, Killed
<1> QED BY <1>1, <1>3, <1>4, <1>5, <1>6, <1>7 DEF Host

\* A word of the body is read where the attempt stands.
LEMMA WordRead ==
  ASSUME MailboxTypeOK, ReadRest
  PROVE  /\ ri \in Body /\ words'[0] = words[0] /\ words'[ri] = box[ri]
         /\ \A i \in Body : i # ri => words'[i] = words[i]
<1>1. words \in [{0} \cup Body -> Nat] /\ ri \in Body /\ 0 \notin Body
  BY BodyCells DEF MailboxTypeOK, Row
<1> QED BY <1>1 DEF ReadRest

LEMMA HeaderRead ==
  ASSUME MailboxTypeOK, ReadHeader
  PROVE  /\ words'[0] = box[0] /\ \A i \in Body : words'[i] = words[i]
<1>1. words \in [{0} \cup Body -> Nat] /\ 0 \notin Body
  BY BodyCells DEF MailboxTypeOK, Row
<1> QED BY <1>1 DEF ReadHeader

LEMMA InitAttempt == Init => BodyInv /\ AttemptInv
<1> SUFFICES ASSUME Init PROVE BodyInv /\ AttemptInv
  OBVIOUS
<1>1. \A i \in {0} \cup Body : box[i] = 0 /\ words[i] = 0
  BY DEF Init, NoWords
<1>2. box[2] = 0 /\ words[0] = 0 /\ rpc = "open" /\ ~Copying /\ wpc = "off" /\ Len(beats) = 0
  BY <1>1, BodyCells DEF Init, Copying
<1> QED BY <1>1, <1>2, BodyCells DEF BodyInv, AttemptInv, Copying

LEMMA NextAttempt ==
  ASSUME MailboxTypeOK, WriterInv, BodyInv, AttemptInv, [Next]_vars
  PROVE  AttemptInv'
<1>0. Cells \in Body /\ 2 \in Body /\ Body \subseteq Nat /\ \A i \in Body : 2 <= i /\ i <= Cells
  BY BodyCells
<1>1. CASE Firmware
  <2>1. UNCHANGED <<rpc, ri, words>>
    BY <1>1, FirmwareChanges DEF host, attemptState
  <2>2. CASE UNCHANGED <<sram, stood, quiet>>
    BY <2>1, <2>2 DEF AttemptInv, Whole, FrameOf, sram
  <2>3. CASE Changes
    <3>1. stood' = stood \cup ({FrameOf(box')} \ {0})
      BY <2>3 DEF Changes
    <3>2. /\ FrameOf(box') # 0 => FrameOf(box') \in stood'
          /\ stood \subseteq stood'
      BY <3>1
    <3>3. CASE /\ ~Whole' \/ (Whole /\ box'[2] = box[2])
               /\ box'[Cells] \in {box[Cells], 0}
      BY <2>1, <3>2, <3>3 DEF AttemptInv
    <3>4. CASE Whole' /\ box'[2] = Len(beats) /\ FrameOf(box') = Len(beats)
      <4>1. box'[2] # 0 /\ box'[2] \in stood' /\ box'[Cells] = box'[2]
        BY <1>0, <3>2, <3>4 DEF Whole
      <4> QED BY <2>1, <3>2, <4>1 DEF AttemptInv
    <3> QED BY <3>3, <3>4, BodyStep
  <2> QED BY <1>1, <2>2, <2>3, FirmwareChanges
<1>2. CASE Host
  <2>1. box' = box /\ (Whole' <=> Whole) /\ FrameOf(box') = FrameOf(box)
    BY <1>2, HostSteps DEF Whole, FrameOf
  <2>2. CASE Open
    BY <2>1, <2>2 DEF Open, AttemptInv, attemptState
  <2>3. CASE ReadBefore
    <3>1. words'[0] = 0 /\ ri' = 2 /\ rpc' \in {"header", "busy"} /\ stood' = {FrameOf(box)} \ {0}
      BY <2>3 DEF ReadBefore, NoWords
    <3> QED BY <2>1, <3>1 DEF AttemptInv
  <2>4. CASE ReadHeader
    <3>1. rpc = "header" /\ rpc' = "sequence" /\ words'[0] = box[0] /\ UNCHANGED <<ri, stood>>
      BY <2>4, HeaderRead DEF ReadHeader, Goto
    <3>2. box[0] # 0 /\ Whole => box[2] \in stood
      BY <3>1, WholeFrame DEF AttemptInv, Whole
    <3> QED BY <2>1, <3>1, <3>2 DEF AttemptInv
  <2>5. CASE ReadRest
    <3>1. /\ rpc = "rest" /\ ri \in Body /\ UNCHANGED stood /\ words'[0] = words[0]
          /\ words'[ri] = box[ri] /\ \A i \in Body : i # ri => words'[i] = words[i]
          /\ IF ri = Cells THEN ri' = ri /\ rpc' = "after" ELSE ri' = ri + 1 /\ rpc' = "rest"
      BY <2>5, WordRead DEF ReadRest, Goto
    <3>2. words[0] # 0
      BY <3>1 DEF AttemptInv
    <3>3. box[2] # 0 /\ box[Cells] = box[2] => box[2] \in stood
      BY <3>2 DEF BodyInv, AttemptInv
    <3>4. CASE ri = 2
      <4>1. words'[2] = box[2]
        BY <3>1, <3>4
      <4>2. words'[2] # 0 /\ rpc' = "rest" => words'[2] \in stood \/ box[Cells] # words'[2]
        BY <3>3, <4>1
      <4>3. words'[2] # 0 /\ rpc' = "after" => words'[2] \in stood
        <5>1. rpc' = "after" => Cells = 2
          BY <3>1, <3>4
        <5> QED BY <3>3, <4>1, <5>1
      <4> QED BY <2>1, <3>1, <3>2, <4>2, <4>3 DEF AttemptInv
    <3>5. CASE ri # 2
      <4>1. ri > 2 /\ words'[2] = words[2]
        BY <1>0, <3>1, <3>5
      <4>2. words[2] # 0 => words[2] \in stood \/ box[Cells] # words[2]
        BY <3>1, <4>1 DEF AttemptInv
      <4>3. rpc' = "after" => words'[Cells] = box[Cells]
        BY <3>1
      <4> QED BY <2>1, <3>1, <3>2, <4>1, <4>2, <4>3 DEF AttemptInv
    <3> QED BY <3>4, <3>5
  <2>6. CASE Moves
    <3>1. ri = 2 /\ words[0] # 0
      BY <2>6 DEF AttemptInv, Moves
    <3> QED BY <2>1, <2>6, <3>1 DEF AttemptInv, Moves
  <2>7. CASE Forget /\ rpc' \in {"before", "close", "done"}
    <3>1. words'[0] = 0
      BY <2>7 DEF Forget, NoWords
    <3> QED BY <2>7, <3>1 DEF AttemptInv
  <2> QED BY <1>2, <2>2, <2>3, <2>4, <2>5, <2>6, <2>7, HostSteps
<1>3. CASE UNCHANGED vars
  BY <1>3 DEF vars, sram, host, attemptState, AttemptInv, Whole, FrameOf
<1> QED BY <1>1, <1>2, <1>3 DEF Next

\* What carries the theorems about the reader.
ReaderInv == MailboxTypeOK /\ WriterInv /\ BodyInv /\ AttemptInv

LEMMA NextReader == ReaderInv /\ MailboxTypeOK' /\ [Next]_vars => ReaderInv'
BY NextWriter, BodyStep, NextAttempt DEF ReaderInv

\* An attempt is accepted at its last word, and in no other step.
LEMMA Acceptance ==
  ASSUME [Next]_vars, outcome' = "accepted", outcome = "none"
  PROVE  rpc = "after" /\ Accepts(boxSeq) /\ Host /\ EndAttempt("accepted", FrameOf(words))
<1>1. CASE Firmware
  BY <1>1, FirmwareChanges
<1>2. CASE UNCHANGED vars
  BY <1>2 DEF vars
<1>3. CASE Host
  BY <1>3 DEF Host, Open, ReadBefore, WriterBusy, ReadHeader, ReadSequence, Grant, Granted,
     ReadRest, ReadAfter, BusFault, Close, Killed, Reject, EndAttempt, Goto
<1> QED BY <1>1, <1>2, <1>3 DEF Next

\* The row of an accepted attempt is of a frame that stood.
LEMMA AcceptedStood ==
  ASSUME AttemptInv, rpc = "after", FrameOf(words) # 0
  PROVE  FrameOf(words) \in stood
<1>1. words[2] # 0 /\ words[Cells] = words[2] /\ FrameOf(words) = words[2]
  BY BodyCells DEF FrameOf
<1> QED BY <1>1 DEF AttemptInv

\* What read_consistent accepts is one frame that stood whole in SRAM during the attempt, with
\* any number of words, resets, power losses and wraps of the sequence (mailbox.py:185).
THEOREM AcceptedFrameStood == Spec => AcceptedStoodWhole
<1>1. Init => MailboxTypeOK /\ ReaderInv
  BY InitType, InitWriter, InitAttempt DEF ReaderInv
<1>2. ReaderInv /\ [Next]_vars => [(outcome' = "accepted" /\ outcome = "none") => FrameOf(words) \in stood]_vars
  <2> SUFFICES ASSUME ReaderInv, Next, outcome' = "accepted", outcome = "none"
               PROVE  FrameOf(words) \in stood
    OBVIOUS
  <2>1. rpc = "after" /\ FrameOf(words) # 0
    BY Acceptance DEF Accepts
  <2> QED BY <2>1, AcceptedStood DEF ReaderInv
<1> QED BY <1>1, <1>2, NextReader, MailboxTypeCorrect, PTL DEF Spec, AcceptedStoodWhole

-----------------------------------------------------------------------------
(***************************************************************************)
(* A record at rest is accepted                                            *)
(***************************************************************************)
\* While nothing moves, the row of the attempt is the record.
QuietInv ==
  quiet =>
    /\ rpc \in {"header", "sequence", "grant", "granted", "rest", "after"}
    /\ Even(boxSeq) /\ FrameOf(box) # 0 /\ before = boxSeq
    /\ rpc # "header" => words[0] = box[0]
    /\ rpc = "grant" => Version >= 5
    /\ rpc \in {"grant", "granted", "rest", "after"} => wordSeq = boxSeq
    /\ \A i \in Body : (rpc = "after" \/ (rpc = "rest" /\ i < ri)) => words[i] = box[i]

LEMMA NextQuiet ==
  ASSUME MailboxTypeOK, AttemptInv, QuietInv, [Next]_vars
  PROVE  QuietInv'
<1>0. \A i \in Body : 2 <= i /\ i <= Cells /\ i \in Nat
  BY BodyCells
<1> SUFFICES ASSUME quiet' PROVE QuietInv'
  BY DEF QuietInv
<1>1. CASE Firmware
  <2>1. UNCHANGED <<sram, quiet, host>>
    BY <1>1, FirmwareChanges DEF Changes
  <2> QED BY <2>1 DEF QuietInv, sram, host, attemptState, FrameOf
<1>2. CASE Host
  <2>1. box' = box /\ boxSeq' = boxSeq /\ FrameOf(box') = FrameOf(box)
    BY <1>2, HostSteps
  <2>2. CASE Open
    BY <2>2 DEF Open, QuietInv
  <2>3. CASE ReadBefore
    BY <2>1, <2>3 DEF ReadBefore, QuietInv
  <2>4. CASE ReadHeader
    <3>1. rpc = "header" /\ rpc' = "sequence" /\ words'[0] = box[0] /\ UNCHANGED <<ri, before, quiet>>
      BY <2>4, HeaderRead DEF ReadHeader, Goto
    <3> QED BY <2>1, <3>1 DEF QuietInv
  <2>5. CASE ReadRest
    <3>1. /\ rpc = "rest" /\ ri \in Body /\ UNCHANGED <<quiet, before, wordSeq>> /\ words'[0] = words[0]
          /\ words'[ri] = box[ri] /\ \A i \in Body : i # ri => words'[i] = words[i]
          /\ IF ri = Cells THEN ri' = ri /\ rpc' = "after" ELSE ri' = ri + 1 /\ rpc' = "rest"
      BY <2>5, WordRead DEF ReadRest, Goto
    <3>2. \A i \in Body : i < ri \/ i = ri => words'[i] = box[i]
      BY <3>1 DEF QuietInv
    <3>3. \A i \in Body : (rpc' = "after" \/ (rpc' = "rest" /\ i < ri')) => i < ri \/ i = ri
      BY <1>0, <3>1
    <3> QED BY <2>1, <3>1, <3>2, <3>3 DEF QuietInv
  <2>6. CASE Moves
    <3>1. ri = 2 /\ ri' = 2 /\ quiet
      BY <2>6 DEF AttemptInv, Moves
    <3>2. \A i \in Body : ~(i < ri')
      BY <1>0, <3>1
    <3>3. rpc' = "grant" => Version >= 5
      BY <2>6 DEF Moves
    <3> QED BY <2>1, <2>6, <3>1, <3>2, <3>3 DEF QuietInv, Moves
  <2>7. CASE Forget
    BY <2>7 DEF Forget
  <2> QED BY <1>2, <2>2, <2>3, <2>4, <2>5, <2>6, <2>7, HostSteps
<1>3. CASE UNCHANGED vars
  BY <1>3 DEF vars, sram, host, attemptState, QuietInv, FrameOf
<1> QED BY <1>1, <1>2, <1>3 DEF Next

\* Why an attempt is rejected.
LEMMA Rejection ==
  ASSUME [Next]_vars, outcome' = "rejected", outcome = "none"
  PROVE  \/ rpc = "busy"
         \/ rpc = "sequence" /\ words[0] = 0
         \/ rpc = "grant" /\ ~(box[0] # 0 /\ Version \in {5, 6, 7})
         \/ rpc = "granted" /\ ~Even(boxSeq)
         \/ rpc = "after" /\ ~Accepts(boxSeq)
<1>1. CASE Firmware
  BY <1>1, FirmwareChanges
<1>2. CASE UNCHANGED vars
  BY <1>2 DEF vars
<1>3. CASE Host
  BY <1>3 DEF Host, Open, ReadBefore, WriterBusy, ReadHeader, ReadSequence, Grant, Granted,
     ReadRest, ReadAfter, BusFault, Close, Killed, Reject, EndAttempt, Goto
<1> QED BY <1>1, <1>2, <1>3 DEF Next

\* A committed record that nothing disturbs is accepted at once, by a host of any version up to 7:
\* enable_storage_mailbox opens the words the record needs (README.md:53).
THEOREM QuietIsAccepted == Version <= 7 => (Spec => QuietAttemptAccepted)
<1> SUFFICES ASSUME Version <= 7 PROVE Spec => QuietAttemptAccepted
  OBVIOUS
<1>1. Init => MailboxTypeOK /\ ReaderInv /\ QuietInv
  BY InitType, InitWriter, InitAttempt DEF ReaderInv, Init, QuietInv
<1>2. ReaderInv /\ QuietInv /\ [Next]_vars => QuietInv'
  BY NextQuiet DEF ReaderInv
<1>3. ReaderInv /\ QuietInv /\ [Next]_vars =>
        [(outcome' = "rejected" /\ outcome = "none") => ~quiet]_vars
  <2> SUFFICES ASSUME QuietInv, Next, outcome' = "rejected", outcome = "none", quiet
               PROVE  FALSE
    OBVIOUS
  <2>1. box[0] # 0 /\ FrameOf(box) # 0
    BY WholeFrame DEF QuietInv
  <2>2. CASE rpc = "grant" /\ ~(box[0] # 0 /\ Version \in {5, 6, 7})
    <3>1. Version >= 5 /\ Version \in 2 .. 8
      BY <2>2, MailboxAssumption DEF QuietInv
    <3> QED BY <2>1, <2>2, <3>1
  <2>3. CASE rpc = "after" /\ ~Accepts(boxSeq)
    <3>1. words[0] = box[0] /\ \A i \in Body : words[i] = box[i]
      BY <2>3 DEF QuietInv
    <3>2. FrameOf(words) # 0
      BY <2>1, <3>1, BodyCells DEF FrameOf
    <3> QED BY <2>3, <3>2 DEF QuietInv, Accepts
  <2>4. CASE rpc = "busy" \/ (rpc = "sequence" /\ words[0] = 0) \/ (rpc = "granted" /\ ~Even(boxSeq))
    BY <2>1, <2>4 DEF QuietInv
  <2> QED BY <2>2, <2>3, <2>4, Rejection
<1> QED BY <1>1, <1>2, <1>3, NextReader, MailboxTypeCorrect, PTL DEF Spec, QuietAttemptAccepted

\* With the version enable_storage_mailbox does not know, no attempt gets past its grant.
ShutInv ==
  /\ rpc \notin {"granted", "rest", "after"}
  /\ \A i \in DOMAIN samples : samples[i] = 0

\* Of a version-8 record the host accepts no sample whatever the firmware publishes: the run
\* mailbox_status shows the disagreement with the README, this says it is no matter of timing.
THEOREM UnknownVersionReadsNothing ==
  Version = 8 => (Spec => [](\A i \in DOMAIN samples : samples[i] = 0))
<1> SUFFICES ASSUME Version = 8 PROVE Spec => [](\A i \in DOMAIN samples : samples[i] = 0)
  OBVIOUS
<1>1. Init => MailboxTypeOK /\ ShutInv
  BY InitType DEF Init, ShutInv
<1>2. MailboxTypeOK /\ ShutInv /\ [Next]_vars => ShutInv'
  <2> SUFFICES ASSUME MailboxTypeOK, ShutInv, [Next]_vars PROVE ShutInv'
    OBVIOUS
  <2>1. CASE Firmware \/ UNCHANGED vars
    <3>1. UNCHANGED <<rpc, samples>>
      BY <2>1, FirmwareChanges DEF host, vars
    <3> QED BY <3>1 DEF ShutInv
  <2>2. CASE Host
    <3>1. rpc' \notin {"granted", "rest", "after"}
      BY <2>2 DEF Host, Open, ReadBefore, WriterBusy, ReadHeader, ReadSequence, Grant, Granted,
         ReadRest, ReadAfter, BusFault, Close, Killed, Reject, EndAttempt, Goto, ShutInv
    <3>2. samples' \in {samples, Append(samples, 0)}
      BY <2>2 DEF Host, Open, ReadBefore, WriterBusy, ReadHeader, ReadSequence, Grant, Granted,
         ReadRest, ReadAfter, BusFault, Close, Killed, Reject, EndAttempt, Goto, ShutInv
    <3>3. samples \in Seq(Nat)
      BY DEF MailboxTypeOK
    <3>4. \A i \in DOMAIN samples' : samples'[i] = 0
      <4>1. CASE samples' = samples
        BY <4>1 DEF ShutInv
      <4>2. CASE samples' = Append(samples, 0)
        <5>1. \A i \in DOMAIN samples' : (i \in DOMAIN samples /\ samples'[i] = samples[i]) \/ samples'[i] = 0
          BY <3>3, <4>2
        <5> QED BY <5>1 DEF ShutInv
      <4> QED BY <3>2, <4>1, <4>2
    <3> QED BY <3>1, <3>4 DEF ShutInv
  <2> QED BY <2>1, <2>2 DEF Next
<1>3. ShutInv => \A i \in DOMAIN samples : samples[i] = 0
  BY DEF ShutInv
<1> QED BY <1>1, <1>2, <1>3, MailboxTypeCorrect, PTL DEF Spec

-----------------------------------------------------------------------------
(***************************************************************************)
(* The frames come in order                                                *)
(***************************************************************************)
\* No frame stands after a later one, none is sampled before an earlier one that stood in a
\* later attempt, and a trusted capture has a frame in each sample.
OrderInv ==
  /\ \A x \in stood : x <= Len(beats) /\ (Whole => x <= box[2])
  /\ \A i \in DOMAIN samples :
       /\ samples[i] <= Len(beats) /\ (Whole => samples[i] <= box[2])
       /\ \A x \in stood : samples[i] <= x
  /\ \A i, j \in DOMAIN samples : i < j /\ samples[j] # 0 => samples[i] <= samples[j]
  /\ state = "CAPTURED" => rpc = "done" /\ \A i \in DOMAIN samples : samples[i] # 0

\* What the host keeps of an attempt that ends.
LEMMA SampleKept ==
  ASSUME Host, AttemptInv
  PROVE  \/ samples' = samples
         \/ \E v \in stood \cup {0} : samples' = Append(samples, v)
<1>1. ASSUME NEW result, EndAttempt(result, 0) PROVE samples' \in {samples, Append(samples, 0)}
  BY <1>1 DEF EndAttempt
<1>2. CASE ReadAfter
  <2>1. CASE Accepts(boxSeq)
    <3>1. EndAttempt("accepted", FrameOf(words)) /\ FrameOf(words) \in stood
      BY <1>2, <2>1, AcceptedStood DEF ReadAfter, Accepts
    <3> QED BY <3>1 DEF EndAttempt
  <2>2. CASE ~Accepts(boxSeq)
    BY <1>1, <1>2, <2>2 DEF ReadAfter, Reject
  <2> QED BY <2>1, <2>2
<1>3. CASE WriterBusy \/ ReadSequence \/ Grant \/ Granted \/ BusFault
  BY <1>1, <1>3 DEF WriterBusy, ReadSequence, Grant, Granted, BusFault, Reject, Goto
<1>4. CASE Open \/ ReadBefore \/ ReadHeader \/ ReadRest \/ Close \/ Killed
  BY <1>4 DEF Open, ReadBefore, ReadHeader, ReadRest, Close, Killed, Goto
<1> QED BY <1>2, <1>3, <1>4 DEF Host

\* The order of the frames: those that stood in the record, and those that were sampled.
LEMMA NextOrder ==
  ASSUME MailboxTypeOK, WriterInv, BodyInv, AttemptInv, OrderInv, [Next]_vars
  PROVE  OrderInv'
<1>0. /\ stood \subseteq Nat /\ Len(beats) \in Nat /\ Len(beats') \in Nat
      /\ Len(beats') >= Len(beats) /\ samples \in Seq(Nat) /\ \A i \in Body : box[i] \in Nat
      /\ 2 \in Body
  BY BeatsGrow, BodyCells DEF MailboxTypeOK, Row
<1>1. CASE Firmware
  <2>1. UNCHANGED <<rpc, samples, state>>
    BY <1>1, FirmwareChanges DEF host
  <2>2. CASE UNCHANGED <<sram, stood, quiet>>
    <3>1. (Whole' <=> Whole) /\ box' = box /\ stood' = stood
      BY <2>2 DEF Whole, sram
    <3> QED BY <1>0, <2>1, <3>1 DEF OrderInv
  <2>3. CASE Changes
    <3>1. stood' = stood \cup ({FrameOf(box')} \ {0})
      BY <2>3 DEF Changes
    <3>2. Whole' => /\ box'[2] \in Nat /\ box'[2] <= Len(beats')
                    /\ \A x \in stood : x <= box'[2]
                    /\ \A i \in DOMAIN samples : samples[i] <= box'[2]
      <4>1. CASE ~Whole'
        BY <4>1
      <4>2. CASE Whole /\ box'[2] = box[2]
        <5>1. box[2] <= Len(beats)
          BY <1>0 DEF BodyInv
        <5> QED BY <1>0, <4>2, <5>1 DEF OrderInv
      <4>3. CASE box'[2] = Len(beats)
        BY <1>0, <4>3 DEF OrderInv
      <4> QED BY <4>1, <4>2, <4>3, BodyStep
    <3>3. ASSUME NEW x \in stood'
          PROVE  /\ x <= Len(beats') /\ (Whole' => x <= box'[2])
                 /\ \A i \in DOMAIN samples : samples[i] <= x
      <4>1. CASE x \in stood
        BY <1>0, <3>2, <4>1 DEF OrderInv
      <4>2. CASE x = FrameOf(box') /\ x # 0
        BY <3>2, <4>2, WholeFrameNext
      <4> QED BY <3>1, <4>1, <4>2
    <3>4. \A i \in DOMAIN samples : samples[i] <= Len(beats')
      BY <1>0 DEF OrderInv
    <3> QED BY <2>1, <3>2, <3>3, <3>4 DEF OrderInv
  <2> QED BY <1>1, <2>2, <2>3, FirmwareChanges
<1>2. CASE Host
  <2>1. box' = box /\ (Whole' <=> Whole) /\ beats' = beats /\ rpc # "done"
    <3>1. rpc # "done"
      BY <1>2 DEF Host, Open, ReadBefore, WriterBusy, ReadHeader, ReadSequence, Grant, Granted,
         ReadRest, ReadAfter, BusFault, Close, Killed
    <3> QED BY <1>2, <3>1, HostSteps DEF Whole
  <2>2. state' = "CAPTURED" => rpc' = "done" /\ samples' = samples /\ \A i \in DOMAIN samples : samples[i] # 0
    <3>1. CASE Close
      BY <2>1, <3>1 DEF Close, OrderInv
    <3>2. CASE ~Close
      <4>1. state' = state \/ state' \in {"CONNECTION_FAILED", "ABORTED"}
        BY <1>2, <3>2 DEF Host, Open, ReadBefore, WriterBusy, ReadHeader, ReadSequence, Grant,
           Granted, ReadRest, ReadAfter, BusFault, Killed, EndAttempt, Reject, Goto
      <4> QED BY <2>1, <4>1 DEF OrderInv
    <3> QED BY <3>1, <3>2
  <2>3. \A x \in stood' : /\ x <= Len(beats) /\ (Whole => x <= box[2])
                          /\ \A i \in DOMAIN samples : samples[i] <= x
    <3>1. stood' \subseteq stood \/ stood' = {FrameOf(box)} \ {0}
      BY <1>2, HostSteps DEF Open, ReadBefore, ReadHeader, ReadRest, Moves, Forget, Goto
    <3>2. CASE stood' \subseteq stood
      BY <3>2 DEF OrderInv
    <3>3. CASE stood' = {FrameOf(box)} \ {0}
      <4>1. FrameOf(box) # 0 => Whole /\ FrameOf(box) = box[2] /\ box[2] <= Len(beats)
        BY <1>0, WholeFrame DEF BodyInv
      <4> QED BY <1>0, <3>3, <4>1 DEF OrderInv
    <3> QED BY <3>1, <3>2, <3>3
  <2>4. CASE samples' = samples
    BY <2>1, <2>2, <2>3, <2>4 DEF OrderInv
  <2>5. ASSUME NEW v \in stood \cup {0}, samples' = Append(samples, v) PROVE OrderInv'
    <3>1. v \in Nat /\ v <= Len(beats) /\ (Whole => v <= box[2])
          /\ (v # 0 => \A i \in DOMAIN samples : samples[i] <= v)
      BY <1>0 DEF OrderInv
    <3>2. /\ DOMAIN samples = 1 .. Len(samples) /\ Len(samples) \in Nat
          /\ DOMAIN samples' = 1 .. Len(samples) + 1
          /\ samples'[Len(samples) + 1] = v
          /\ \A i \in 1 .. Len(samples) : samples'[i] = samples[i]
      BY <1>0, <2>5, <3>1
    <3>3. ASSUME NEW i \in DOMAIN samples' PROVE i \in DOMAIN samples \/ i = Len(samples) + 1
      BY <3>2
    <3>4. samples' # samples
      BY <3>2
    <3>5. stood' = {}
      <4>1. Forget
        BY <1>2, <3>4, HostSteps DEF Open, ReadBefore, ReadHeader, ReadRest, Moves, Goto
      <4> QED BY <4>1 DEF Forget
    <3>6. \A i \in DOMAIN samples' : samples'[i] <= Len(beats) /\ (Whole => samples'[i] <= box[2])
      BY <3>1, <3>2, <3>3 DEF OrderInv
    <3>7. \A i, j \in DOMAIN samples' : i < j /\ samples'[j] # 0 => samples'[i] <= samples'[j]
      <4>1. SUFFICES ASSUME NEW i \in DOMAIN samples', NEW j \in DOMAIN samples', i < j, samples'[j] # 0
                     PROVE  samples'[i] <= samples'[j]
        OBVIOUS
      <4>2. i \in DOMAIN samples /\ samples'[i] = samples[i]
        BY <3>2, <3>3, <4>1
      <4>3. CASE j \in DOMAIN samples
        BY <3>2, <4>1, <4>2, <4>3 DEF OrderInv
      <4>4. CASE j = Len(samples) + 1
        BY <3>1, <3>2, <4>1, <4>2, <4>4
      <4> QED BY <3>3, <4>3, <4>4
    <3> QED BY <2>1, <2>2, <3>4, <3>5, <3>6, <3>7 DEF OrderInv
  <2> QED BY <1>2, <2>4, <2>5, SampleKept
<1>3. CASE UNCHANGED vars
  BY <1>3 DEF vars, sram, host, OrderInv, Whole
<1> QED BY <1>1, <1>2, <1>3 DEF Next

\* In a trusted and live capture each sample was published after the one before, across resets
\* and wraps: a stalled board never counts as a pass.
THEOREM LiveSamplesAreNewer == Spec => []LiveMeansNewer
<1>1. Init => MailboxTypeOK /\ ReaderInv /\ OrderInv
  <2> SUFFICES ASSUME Init PROVE MailboxTypeOK /\ ReaderInv /\ OrderInv
    OBVIOUS
  <2>1. OrderInv
    BY DEF Init, OrderInv
  <2> QED BY <2>1, InitType, InitWriter, InitAttempt DEF ReaderInv
<1>2. ReaderInv /\ OrderInv /\ [Next]_vars => OrderInv'
  BY NextOrder DEF ReaderInv
<1>3. ReaderInv /\ OrderInv => LiveMeansNewer
  <2> SUFFICES ASSUME ReaderInv, OrderInv, Trusted, Live, NEW i \in 1 .. Len(samples) - 1
               PROVE  samples[i] < samples[i + 1]
    BY DEF LiveMeansNewer
  <2>1. /\ samples \in Seq(Nat) /\ beats \in Seq(Nat) /\ Len(samples) \in Nat
        /\ i \in DOMAIN samples /\ i + 1 \in DOMAIN samples /\ i < i + 1
    BY DEF ReaderInv, MailboxTypeOK
  <2>2. samples[i] # 0 /\ samples[i + 1] # 0 /\ samples[i] \in Nat /\ samples[i + 1] \in Nat
    BY <2>1 DEF OrderInv, Trusted
  <2>3. samples[i] <= samples[i + 1]
    BY <2>1, <2>2 DEF OrderInv
  <2>4. samples[i] # samples[i + 1]
    <3>1. SUFFICES ASSUME samples[i] = samples[i + 1] PROVE FALSE
      OBVIOUS
    <3>2. samples[i] \in DOMAIN beats
      BY <2>1, <2>2 DEF OrderInv
    <3>3. BeatOf(i) \in Nat /\ BeatOf(i + 1) = BeatOf(i)
      BY <2>1, <3>1, <3>2 DEF BeatOf
    <3>4. (BeatOf(i + 1) - BeatOf(i)) = 0
      BY <3>3
    <3>5. 0 % SeqModulus = 0
      BY MailboxAssumption
    <3> QED BY <3>4, <3>5 DEF Live
  <2> QED BY <2>2, <2>3, <2>4
<1> QED BY <1>1, <1>2, <1>3, NextReader, MailboxTypeCorrect, PTL DEF Spec
=============================================================================
