------------------------------ MODULE CameraProofs ------------------------------
(***************************************************************************)
(* For any limit on the bytes received, and without opening the checksum:  *)
(* the query ends with the first good frame that came whole.               *)
(***************************************************************************)
EXTENDS Camera, SequenceTheorems, TLAPS

BeforeReply == {"start", "init", "power", "boot", "drain", "send"}
Lost == discarded - drained

\* Before the reply nothing was received, and no error was met before the end.
NothingYet ==
  /\ pc \in BeforeReply => received = <<>> /\ packet = <<>> /\ Lost = 0 /\ valid = 0
  /\ pc \in BeforeReply \cup {"reply"} => error = "NONE"

\* The candidate is the rest of what was received, and starts with a header.
Candidate ==
  /\ Lost \in Nat /\ Len(received) = Lost + Len(packet)
  /\ \A k \in 1 .. Len(packet) : packet[k] = received[Lost + k]
  /\ packet # <<>> => packet[1] = Header

\* A byte that was discarded is no header, or the header of a whole bad frame:
\* it cannot become the start of a good one by what comes later.
NoFrameLost ==
  \A i \in 1 .. Lost :
    received[i] # Header \/ (i + 4 <= Len(received) /\ ~FrameAt(received, i))

\* Neither the drain nor the reply goes on at its limit.
Limited ==
  /\ pc = "reply" => Len(received) < MaxRx
  /\ pc \in BeforeReply => discarded < MaxRx

\* The candidate is whole when it is the reply, and only then.
ReplyIsWhole ==
  /\ valid = 0 => Len(packet) <= 4
  /\ valid = 1 => FrameAt(packet, 1) /\ pc \in {"done", "ended"}

\* The query is answered OK with a reply alone.
OkHasReply ==
  /\ pc # "ended" => status # "OK"
  /\ valid = 1 => error \notin {"RX_TIMEOUT", "BAD_CRC", "RX_LIMIT"}
  /\ pc = "done" /\ enabled = 1 /\ error = "NONE" => valid = 1
  /\ status = "OK" => valid = 1

IInv == TypeOK /\ NothingYet /\ Candidate /\ NoFrameLost /\ ReplyIsWhole /\ OkHasReply
          /\ Limited

LEMMA InitIInv == Init => IInv
<1> SUFFICES ASSUME Init PROVE IInv  OBVIOUS
<1> USE CameraAssumption DEF Init
<1>1. TypeOK  BY DEF TypeOK, Errors, Request
<1>2. NothingYet  BY DEF NothingYet, Lost
<1>3. Candidate  BY DEF Candidate, Lost
<1>4. NoFrameLost  BY DEF NoFrameLost, Lost
<1>5. ReplyIsWhole /\ OkHasReply /\ Limited  BY DEF ReplyIsWhole, OkHasReply, Limited
<1> QED  BY <1>1, <1>2, <1>3, <1>4, <1>5 DEF IInv

\* The resynchronization finds the next header or the end.
LEMMA ResyncResult ==
  ASSUME NEW p \in Seq(Byte), Len(p) = 5
  PROVE  /\ Resync(p) \in 2 .. 6
         /\ Resync(p) = 6 \/ p[Resync(p)] = Header
         /\ \A k \in 2 .. Resync(p) - 1 : p[k] # Header
<1> DEFINE N(n) == /\ n = Len(p) + 1 \/ p[n] = Header
                   /\ \A k \in 2 .. n - 1 : p[k] # Header
<1>1. \E n \in 2 .. Len(p) + 1 : N(n)
  <2>1. CASE p[2] = Header  BY <2>1
  <2>2. CASE p[2] # Header /\ p[3] = Header
    <3>1. N(3)  BY <2>2
    <3> QED  BY <3>1
  <2>3. CASE p[2] # Header /\ p[3] # Header /\ p[4] = Header
    <3>1. N(4)  BY <2>3
    <3> QED  BY <3>1
  <2>4. CASE p[2] # Header /\ p[3] # Header /\ p[4] # Header /\ p[5] = Header
    <3>1. N(5)  BY <2>4
    <3> QED  BY <3>1
  <2>5. CASE p[2] # Header /\ p[3] # Header /\ p[4] # Header /\ p[5] # Header
    <3>1. N(6)  BY <2>5
    <3> QED  BY <3>1
  <2> QED  BY <2>1, <2>2, <2>3, <2>4, <2>5
<1>2. Resync(p) = CHOOSE n \in 2 .. Len(p) + 1 : N(n)  BY DEF Resync
<1>3. Resync(p) \in 2 .. Len(p) + 1 /\ N(Resync(p))
  <2> HIDE DEF N
  <2> QED  BY <1>1, <1>2
<1> QED  BY <1>3

\* What one more byte, and a shorter candidate, do to the frames.
LEMMA AppendResult ==
  ASSUME NEW s \in Seq(Byte), NEW b \in Byte
  PROVE  /\ Append(s, b) \in Seq(Byte) /\ Len(Append(s, b)) = Len(s) + 1
         /\ \A k \in 1 .. Len(s) : Append(s, b)[k] = s[k]
         /\ Append(s, b)[Len(s) + 1] = b
  OBVIOUS

LEMMA OnlyFive ==
  ASSUME NEW n \in Int, 5 <= n, n <= 5
  PROVE  n = 5
  OBVIOUS

LEMMA OneLess ==
  ASSUME NEW n \in Int, 5 = n + 1
  PROVE  n = 4
  OBVIOUS

LEMMA FrameKept ==
  ASSUME NEW s \in Seq(Byte), NEW b \in Byte, NEW i \in Nat \ {0}, i + 4 <= Len(s)
  PROVE  FrameAt(Append(s, b), i) <=> FrameAt(s, i)
<1>1. \A k \in 1 .. Len(s) : Append(s, b)[k] = s[k]  BY AppendResult
<1>2. Len(Append(s, b)) = Len(s) + 1  BY AppendResult
<1>3. i \in 1 .. Len(s) /\ i + 1 \in 1 .. Len(s) /\ i + 2 \in 1 .. Len(s)
      /\ i + 3 \in 1 .. Len(s) /\ i + 4 \in 1 .. Len(s)
  OBVIOUS
<1> QED  BY <1>1, <1>2, <1>3 DEF FrameAt

LEMMA FrameShift ==
  ASSUME NEW s \in Seq(Byte), NEW p \in Seq(Byte), NEW l \in Nat,
         Len(s) = l + Len(p), Len(p) = 5, \A k \in 1 .. 5 : p[k] = s[l + k]
  PROVE  FrameAt(p, 1) <=> FrameAt(s, l + 1)
<1>1. /\ p[1] = s[l + 1] /\ p[2] = s[l + 1 + 1] /\ p[3] = s[l + 1 + 2]
      /\ p[4] = s[l + 1 + 3] /\ p[5] = s[l + 1 + 4]
  OBVIOUS
<1>2. 1 + 4 <= Len(p) /\ l + 1 + 4 <= Len(s)  OBVIOUS
<1>3. 1 + 1 = 2 /\ 1 + 2 = 3 /\ 1 + 3 = 4 /\ 1 + 4 = 5  OBVIOUS
<1> QED  BY <1>1, <1>2, <1>3 DEF FrameAt

LEMMA TailResult ==
  ASSUME NEW p \in Seq(Byte), Len(p) = 5, NEW n \in 2 .. 6
  PROVE  /\ SubSeq(p, n, 5) \in Seq(Byte) /\ Len(SubSeq(p, n, 5)) = 6 - n
         /\ \A k \in 1 .. 6 - n : SubSeq(p, n, 5)[k] = p[n + k - 1]
<1>1. \A i \in n .. 5 : p[i] \in Byte
  <2>1. \A i \in n .. 5 : i \in 1 .. Len(p)  OBVIOUS
  <2> QED  BY <2>1, ElementOfSeq
<1>2. n \in Int /\ 5 \in Int /\ 5 - n + 1 = 6 - n  OBVIOUS
<1>3. /\ SubSeq(p, n, 5) \in Seq(Byte)
      /\ Len(SubSeq(p, n, 5)) = IF n <= 5 THEN 5 - n + 1 ELSE 0
      /\ \A k \in 1 .. 5 - n + 1 : SubSeq(p, n, 5)[k] = p[n + k - 1]
  BY ONLY <1>1, <1>2, SubSeqProperties
<1>4. Len(SubSeq(p, n, 5)) = 6 - n  BY <1>3
<1> QED  BY <1>2, <1>3, <1>4

\* A byte of the reply keeps the candidate the rest of what was received.
LEMMA ReceiveStep ==
  ASSUME IInv, pc = "reply", NEW b \in Byte, Receive(b)
  PROVE  IInv'
<1> DEFINE candidate == Append(packet, b)
           next == Resync(candidate)
<1> USE DEF Lost
<1>t. /\ packet \in Seq(Byte) /\ received \in Seq(Byte) /\ valid = 0 /\ error = "NONE"
      /\ Len(packet) <= 4 /\ discarded \in Nat /\ drained \in Nat /\ Lost \in Nat
      /\ Len(received) = Lost + Len(packet) /\ MaxRx \in Nat
      /\ \A k \in 1 .. Len(packet) : packet[k] = received[Lost + k]
      /\ Len(received) < MaxRx
  BY CameraAssumption
     DEF IInv, TypeOK, NothingYet, Candidate, ReplyIsWhole, Limited
<1>r. /\ received' = Append(received, b) /\ received' \in Seq(Byte)
      /\ Len(received') = Len(received) + 1 /\ received'[Len(received) + 1] = b
      /\ \A k \in 1 .. Len(received) : received'[k] = received[k]
  BY <1>t, AppendResult DEF Receive
<1>c. /\ candidate \in Seq(Byte) /\ Len(candidate) = Len(packet) + 1
      /\ \A k \in 1 .. Len(candidate) : candidate[k] = received'[Lost + k]
  <2>1. /\ candidate \in Seq(Byte) /\ Len(candidate) = Len(packet) + 1
        /\ \A k \in 1 .. Len(packet) : candidate[k] = packet[k]
        /\ candidate[Len(packet) + 1] = b
    BY <1>t, AppendResult
  <2> HIDE DEF candidate, Lost
  <2>2. ASSUME NEW k \in 1 .. Len(packet) PROVE candidate[k] = received'[Lost + k]
    BY <1>t, <1>r, <2>1, <2>2
  <2>3. candidate[Len(packet) + 1] = received'[Lost + (Len(packet) + 1)]
    BY <1>t, <1>r, <2>1
  <2> QED  BY <2>1, <2>2, <2>3, <1>t
<1>s. /\ UNCHANGED <<enabled, oe, power, status, sent, drained>>
      /\ enabled \in 0 .. 1 /\ oe \in 0 .. 1 /\ power \in 0 .. 1 /\ sent \in 0 .. Request
      /\ drained \in 0 .. MaxRx /\ status # "OK" /\ Len(received) <= MaxRx
      /\ status \in {"NOT_TESTED", "RUNNING", "OK", "FAIL"} /\ crcErrors \in 0 .. 1
  BY DEF Receive, IInv, TypeOK, OkHasReply
<1>y. UNCHANGED early /\ early \in 0 .. Fifo  BY DEF Receive, IInv, TypeOK
<1>k. \A i \in 1 .. Lost :
        received'[i] # Header \/ (i + 4 <= Len(received') /\ ~FrameAt(received', i))
  <2> SUFFICES ASSUME NEW i \in 1 .. Lost
               PROVE  received'[i] # Header \/ (i + 4 <= Len(received') /\ ~FrameAt(received', i))
    OBVIOUS
  <2>1. received[i] # Header \/ (i + 4 <= Len(received) /\ ~FrameAt(received, i))
    BY DEF IInv, NoFrameLost
  <2> HIDE DEF Lost
  <2>2. i \in Nat \ {0} /\ i \in 1 .. Len(received)  BY <1>t
  <2>3. CASE received[i] # Header  BY <2>2, <2>3, <1>r
  <2>4. CASE i + 4 <= Len(received) /\ ~FrameAt(received, i)
    <3>1. ~FrameAt(Append(received, b), i)  BY <2>2, <2>4, <1>t, FrameKept
    <3> QED  BY <3>1, <2>2, <2>4, <1>r, <1>t
  <2> QED  BY <2>1, <2>3, <2>4
<1>l. ASSUME NEW lost \in Nat, NEW rest \in Seq(Byte), lost <= Len(received'),
             discarded' = drained + lost, packet' = rest, valid' = 0, crcErrors' \in 0 .. 1,
             Limit, Len(received') = lost + Len(rest), Len(rest) <= 4,
             \A k \in 1 .. Len(rest) : rest[k] = received'[lost + k],
             rest # <<>> => rest[1] = Header,
             \A i \in 1 .. lost :
               received'[i] # Header \/ (i + 4 <= Len(received') /\ ~FrameAt(received', i))
      PROVE  IInv'
  <2>1. /\ pc' \in {"reply", "done"} /\ error' \in {"NONE", "RX_LIMIT"}
        /\ pc' = "reply" => error' = "NONE" /\ Len(received') < MaxRx
        /\ pc' = "done" => error' = "RX_LIMIT"
    BY <1>l, <1>t, <1>r DEF Limit, Stop
  <2>2. Lost' = lost  BY <1>l, <1>s, <1>t
  <2>3. Len(received') <= MaxRx  BY <1>r, <1>t
  <2>4. TypeOK'
    BY <1>l, <1>r, <1>s, <1>t, <1>y, <2>1, <2>3 DEF TypeOK, Errors
  <2> HIDE DEF Lost
  <2>5. NothingYet'  BY <2>1 DEF NothingYet, BeforeReply
  <2>6. Candidate' /\ NoFrameLost'  BY <1>l, <2>2 DEF Candidate, NoFrameLost
  <2>7. ReplyIsWhole' /\ OkHasReply' /\ Limited'
    BY <1>l, <1>s, <2>1 DEF ReplyIsWhole, OkHasReply, Limited, BeforeReply
  <2> QED  BY <2>4, <2>5, <2>6, <2>7 DEF IInv
<1>1. CASE /\ packet = <<>> /\ b # Header /\ discarded' = discarded + 1 /\ Limit
           /\ UNCHANGED <<packet, crcErrors, valid>>
  <2>1. received'[Lost + 1] # Header /\ Len(received') = Lost + 1
    BY <1>1, <1>t, <1>r
  <2> HIDE DEF Lost
  <2>2. \A i \in 1 .. Lost + 1 :
          received'[i] # Header \/ (i + 4 <= Len(received') /\ ~FrameAt(received', i))
    BY <1>k, <2>1, <1>t
  <2>3. discarded' = drained + (Lost + 1)  BY <1>1, <1>t DEF Lost
  <2>4. Len(packet) = 0 /\ packet \in Seq(Byte)  BY <1>1, <1>t
  <2>5. Lost + 1 \in Nat /\ Lost + 1 <= Len(received') /\ Len(received') = Lost + 1 + Len(packet)
        /\ Len(packet) <= 4 /\ packet' = packet /\ valid' = 0 /\ crcErrors' \in 0 .. 1 /\ Limit
        /\ (packet # <<>> => packet[1] = Header)
        /\ \A k \in 1 .. Len(packet) : packet[k] = received'[Lost + 1 + k]
    BY <1>1, <1>s, <1>t, <2>1, <2>4
  <2> QED  BY ONLY <1>l, <2>2, <2>3, <2>4, <2>5
<1>2. CASE /\ packet # <<>> \/ b = Header
           /\ Len(candidate) < 5 /\ packet' = candidate /\ Limit
           /\ UNCHANGED <<discarded, crcErrors, valid>>
  <2>1. candidate[1] = Header
    <3>1. CASE packet = <<>>  BY <3>1, <1>2, <1>t
    <3>2. CASE packet # <<>>
      <4>1. packet[1] = Header  BY <3>2 DEF IInv, Candidate
      <4> QED  BY <3>2, <4>1, <1>t, AppendResult
    <3> QED  BY <3>1, <3>2
  <2>2. discarded' = drained + Lost /\ Lost <= Len(received')
        /\ Len(received') = Lost + Len(candidate)
    BY <1>2, <1>t, <1>c, <1>r
  <2> HIDE DEF candidate, Lost
  <2> QED  BY <1>2, <1>c, <1>k, <1>l, <1>s, <1>t, <2>1, <2>2
<1>3. CASE /\ FrameAt(candidate, 1) /\ packet' = candidate /\ valid' = 1
           /\ Stop(IF candidate[2] = Version THEN "NONE" ELSE "VERSION")
           /\ UNCHANGED <<discarded, crcErrors>>
  <2>1. Len(candidate) = 5 /\ candidate[1] = Header  BY <1>3, <1>c, <1>t DEF FrameAt
  <2>2. pc' = "done" /\ error' \in {"NONE", "VERSION"}  BY <1>3 DEF Stop
  <2>3. Lost' = Lost /\ Len(received') = Lost + 5  BY <1>3, <1>s, <1>t, <1>r, <1>c, <2>1
  <2>4. Len(received') <= MaxRx  BY <1>r, <1>t
  <2>5. TypeOK'
    <3>1. /\ packet' \in Seq(Byte) /\ Len(packet') <= 5 /\ valid' \in 0 .. 1
          /\ discarded' \in drained .. drained + MaxRx /\ crcErrors' \in 0 .. 1
      BY <1>3, <1>c, <1>s, <1>t, <2>1, <2>3, <2>4
    <3>2. pc' \in {"reply", "done"} /\ error' \in Errors  BY <2>2 DEF Errors
    <3> QED  BY <3>1, <3>2, <1>r, <1>s, <1>y, <2>4 DEF TypeOK
  <2> HIDE DEF candidate, Lost
  <2>6. NothingYet'  BY <2>2 DEF NothingYet, BeforeReply
  <2>7. Candidate' /\ NoFrameLost'
    BY <1>3, <1>c, <1>k, <1>t, <2>1, <2>3 DEF Candidate, NoFrameLost
  <2>8. ReplyIsWhole' /\ OkHasReply' /\ Limited'
    BY <1>3, <1>s, <2>2 DEF ReplyIsWhole, OkHasReply, Limited, BeforeReply
  <2> QED  BY <2>5, <2>6, <2>7, <2>8 DEF IInv
<1>4. CASE /\ Len(candidate) = 5 /\ ~FrameAt(candidate, 1) /\ crcErrors' = 1
           /\ packet' = SubSeq(candidate, next, 5) /\ discarded' = discarded + next - 1
           /\ Limit /\ UNCHANGED valid
  <2> DEFINE rest == SubSeq(candidate, next, 5)
             lost == Lost + next - 1
  <2>1. /\ next \in 2 .. 6
        /\ next = 6 \/ candidate[next] = Header
        /\ \A k \in 2 .. next - 1 : candidate[k] # Header
    BY <1>4, <1>c, ResyncResult
  <2> HIDE DEF next
  <2>2. /\ rest \in Seq(Byte) /\ Len(rest) = 6 - next
        /\ \A k \in 1 .. 6 - next : rest[k] = candidate[next + k - 1]
    BY <1>4, <1>c, <2>1, TailResult
  <2> HIDE DEF candidate
  <2>3. Len(received') = Lost + 5 /\ discarded' = drained + lost /\ lost \in Nat
        /\ lost <= Len(received') /\ Len(received') = lost + Len(rest) /\ Len(rest) <= 4
    <3> HIDE DEF rest
    <3>0. 5 = Len(packet) + 1  BY <1>4, <1>c
    <3> HIDE DEF Lost
    <3>p. Len(packet) \in Int /\ Lost \in Int /\ Len(received) = Lost + Len(packet)  BY <1>t
    <3>l. Len(packet) = 4  BY ONLY <3>0, <3>p, OneLess
    <3>1. Len(packet) = 4 /\ Len(received) = Lost + 4  BY ONLY <3>l, <3>p
    <3> USE DEF Lost
    <3>2. Len(received') = Lost + 5  BY <3>1, <1>r, <1>t
    <3>3. discarded' = drained + lost  BY <1>4, <1>t, <2>1
    <3>4. Lost \in Nat /\ next \in 2 .. 6 /\ Len(rest) = 6 - next  BY <1>t, <2>1, <2>2
    <3> HIDE DEF Lost
    <3> QED  BY ONLY <3>2, <3>3, <3>4 DEF lost
  <2>4. \A k \in 1 .. Len(rest) : rest[k] = received'[lost + k]
    <3> HIDE DEF Lost
    <3> SUFFICES ASSUME NEW k \in 1 .. Len(rest) PROVE rest[k] = received'[lost + k]  OBVIOUS
    <3>1. rest[k] = candidate[next + k - 1] /\ next + k - 1 \in 1 .. 5  BY <2>1, <2>2
    <3>2. candidate[next + k - 1] = received'[Lost + (next + k - 1)]  BY <3>1, <1>c, <1>4
    <3>3. Lost + (next + k - 1) = lost + k  BY <1>t, <2>1
    <3> QED  BY <3>1, <3>2, <3>3
  <2>5. rest # <<>> => rest[1] = Header
    BY <2>1, <2>2
  <2>6. ~FrameAt(received', Lost + 1) /\ Lost + 1 + 4 <= Len(received')
    <3> HIDE DEF Lost
    <3>1. FrameAt(candidate, 1) <=> FrameAt(received', Lost + 1)
      BY <1>4, <1>c, <1>r, <1>t, <2>3, FrameShift
    <3> QED  BY <3>1, <1>4, <1>t, <2>3
  <2>7. \A i \in 1 .. lost :
          received'[i] # Header \/ (i + 4 <= Len(received') /\ ~FrameAt(received', i))
    <3> HIDE DEF Lost
    <3> SUFFICES ASSUME NEW i \in 1 .. lost
                 PROVE  received'[i] # Header
                          \/ (i + 4 <= Len(received') /\ ~FrameAt(received', i))
      OBVIOUS
    <3>1. CASE i <= Lost  BY <3>1, <1>k
    <3>2. CASE i = Lost + 1  BY <3>2, <2>6
    <3>3. CASE i > Lost + 1
      <4>1. i - Lost \in 2 .. next - 1 /\ i = Lost + (i - Lost) /\ i - Lost \in 1 .. 5
        BY <3>3, <1>t, <2>1
      <4>2. candidate[i - Lost] = received'[Lost + (i - Lost)]  BY <4>1, <1>c, <1>4
      <4> QED  BY <4>1, <4>2, <2>1
    <3> QED  BY <3>1, <3>2, <3>3, <1>t
  <2> HIDE DEF rest, lost, Lost
  <2>8. packet' = rest  BY <1>4 DEF rest
  <2>9. valid' = 0 /\ crcErrors' \in 0 .. 1 /\ Limit  BY <1>4, <1>t
  <2>10. rest \in Seq(Byte)  BY <2>2
  <2> QED  BY ONLY <1>l, <2>3, <2>4, <2>5, <2>7, <2>8, <2>9, <2>10
<1> QED  BY <1>1, <1>2, <1>3, <1>4 DEF Receive

LEMMA IInvStep == IInv /\ [Next]_vars => IInv'
<1> SUFFICES ASSUME IInv, [Next]_vars PROVE IInv'  OBVIOUS
<1>l. ASSUME UNCHANGED <<packet, valid, received>>, UNCHANGED (discarded - drained),
             TypeOK', NothingYet', OkHasReply', Limited',
             pc \in {"done", "ended"} => pc' \in {"done", "ended"}
      PROVE  IInv'
  BY <1>l DEF IInv, Candidate, NoFrameLost, ReplyIsWhole, Lost
<1>s. ASSUME UNCHANGED <<line, enabled, status>>, oe' \in 0 .. 1, power' \in 0 .. 1,
             pc \in BeforeReply \cup {"reply"}, error' \in Errors,
             \/ pc' = "done" /\ error' # "NONE"
             \/ pc \in BeforeReply /\ pc' \in BeforeReply \cup {"reply"} /\ error' = "NONE"
      PROVE  IInv'
  <2>1. TypeOK'  BY <1>s DEF IInv, TypeOK, line, BeforeReply
  <2>2. NothingYet' /\ OkHasReply' /\ Limited'
    BY <1>s, CameraAssumption
       DEF IInv, NothingYet, OkHasReply, Limited, ReplyIsWhole, line, BeforeReply, Lost
  <2> QED  BY <1>s, <1>l, <2>1, <2>2 DEF line, BeforeReply
<1>e. error \in Errors /\ oe \in 0 .. 1 /\ power \in 0 .. 1
      /\ (pc \in BeforeReply \cup {"reply"} => error = "NONE")
  BY DEF IInv, TypeOK, NothingYet
<1>1. CASE Start
  <2>1. TypeOK'  BY <1>1 DEF IInv, TypeOK, Start, line, Stop, Goes, Errors
  <2>2. NothingYet' /\ OkHasReply' /\ Limited'
    BY <1>1 DEF IInv, NothingYet, OkHasReply, Limited, ReplyIsWhole, Start, line, Stop, Goes,
                BeforeReply, Lost
  <2> QED  BY <1>1, <1>l, <2>1, <2>2 DEF Start, line
<1>2. CASE InitUart
  BY <1>2, <1>e, <1>s DEF InitUart, Fails, Stop, Goes, BeforeReply, Errors, line
<1>3. CASE PowerOn
  BY <1>3, <1>e, <1>s DEF PowerOn, Stop, Goes, BeforeReply, Errors, line
<1>4. CASE Boot
  BY <1>4, <1>e, <1>s DEF Boot, Fails, Stop, Goes, BeforeReply, Errors, line
<1>5. CASE Drain
  <2>1. CASE Fails({"UART_ERROR"}) /\ UNCHANGED enabled
    BY <1>5, <1>e, <1>s, <2>1 DEF Drain, Fails, Stop, BeforeReply, Errors, line
  <2>2. CASE Goes("send") /\ UNCHANGED <<oe, power, status, line, enabled>>
    BY <1>5, <1>e, <1>s, <2>2 DEF Drain, Goes, BeforeReply, Errors, line
  <2>3. CASE /\ discarded' = discarded + 1 /\ drained' = discarded'
             /\ IF discarded' >= MaxRx
                THEN Stop("RX_LIMIT")
                ELSE \/ Stop("TICK_STALLED") \/ Stop("RX_LIMIT") \/ UNCHANGED <<pc, error>>
             /\ UNCHANGED <<oe, power, status, sent, crcErrors, packet, valid, received, early, enabled>>
    <3>1. discarded = drained /\ discarded < MaxRx /\ pc = "drain" /\ discarded \in Nat
      BY <1>5 DEF Drain, IInv, NothingYet, BeforeReply, Lost, TypeOK, Limited
    <3>2. TypeOK'  BY <2>3, <3>1, CameraAssumption DEF IInv, TypeOK, Stop, Errors
    <3>3. Limited' /\ Lost' = 0
      BY <2>3, <3>1, CameraAssumption DEF Limited, Stop, BeforeReply, Lost
    <3>4. \/ pc' = "done" /\ error' \in {"RX_LIMIT", "TICK_STALLED"}
          \/ UNCHANGED <<pc, error>>
      BY <2>3 DEF Stop
    <3> HIDE DEF Lost
    <3>5. NothingYet' /\ OkHasReply'
      BY <1>e, <2>3, <3>1, <3>3, <3>4
         DEF IInv, NothingYet, OkHasReply, ReplyIsWhole, BeforeReply
    <3>6. Lost = 0  BY <3>1 DEF IInv, NothingYet, BeforeReply
    <3> QED  BY <1>l, <2>3, <3>1, <3>2, <3>3, <3>5, <3>6 DEF Lost
  <2> QED  BY <1>5, <2>1, <2>2, <2>3 DEF Drain
<1>6. CASE Send
  <2>1. CASE Fails({"TICK_STALLED", "TX_TIMEOUT", "UART_ERROR"}) /\ UNCHANGED enabled
    BY <1>6, <1>e, <1>s, <2>1 DEF Send, Fails, Stop, BeforeReply, Errors, line
  <2>2. CASE /\ sent < Request /\ sent' = sent + 1 /\ UNCHANGED <<pc, error>>
             /\ UNCHANGED <<oe, power, status, discarded, crcErrors, packet, valid, received,
                            drained, early, enabled>>
    <3>1. TypeOK'  BY <2>2 DEF IInv, TypeOK, Request
    <3>2. NothingYet' /\ OkHasReply' /\ Limited'
      BY <2>2 DEF IInv, NothingYet, OkHasReply, Limited, Lost
    <3> QED  BY <1>l, <2>2, <3>1, <3>2
  <2>3. CASE Goes("reply") /\ UNCHANGED <<oe, power, status, line, enabled>>
    BY <1>6, <1>e, <1>s, <2>3 DEF Send, Goes, BeforeReply, Errors, line
  <2> QED  BY <1>6, <2>1, <2>2, <2>3 DEF Send
<1>7. CASE Arrive
  <2>1. TypeOK'  BY <1>7, CameraAssumption DEF Arrive, IInv, TypeOK
  <2>2. NothingYet' /\ OkHasReply' /\ Limited'
    BY <1>7 DEF Arrive, IInv, NothingYet, OkHasReply, Limited, Lost
  <2> QED  BY <1>7, <1>l, <2>1, <2>2 DEF Arrive
<1>8. CASE Reply
  <2>1. CASE NoReply
    <3>1. /\ pc = "reply" /\ pc' = "done" /\ error' \in Errors \ {"NONE"}
          /\ UNCHANGED <<line, enabled, status, oe, power>>
      BY <1>8, <2>1 DEF Reply, NoReply, Fails, Stop, Errors
    <3> QED  BY <1>e, <1>s, <3>1
  <2>2. CASE \E b \in Byte : Receive(b)  BY <1>8, <2>2, ReceiveStep DEF Reply
  <2> QED  BY <1>8, <2>1, <2>2 DEF Reply
<1>9. CASE Done
  <2>1. TypeOK'  BY <1>9 DEF IInv, TypeOK, Done, line, Errors
  <2>2. error' = error \/ error' \in {"PIN_READBACK", "UART_ERROR"}  BY <1>9 DEF Done
  <2>3. NothingYet' /\ OkHasReply' /\ Limited'
    BY <1>9, <2>2, <2>1 DEF IInv, NothingYet, OkHasReply, Limited, Done, line, BeforeReply, TypeOK
  <2> QED  BY <1>9, <1>l, <2>1, <2>3 DEF Done, line
<1>10. CASE UNCHANGED vars
  BY <1>10 DEF vars, IInv, TypeOK, NothingYet, Candidate, NoFrameLost, ReplyIsWhole, OkHasReply,
              Limited, Lost
<1> QED  BY <1>1, <1>2, <1>3, <1>4, <1>5, <1>6, <1>7, <1>8, <1>9, <1>10 DEF Next

LEMMA Inductive == Spec => []IInv
  BY InitIInv, IInvStep, PTL DEF Spec

\* The state of the query has its types: what it counts stays in its limits.
THEOREM CameraTypes == Spec => []TypeOK
<1>1. IInv => TypeOK  BY DEF IInv
<1> QED  BY <1>1, Inductive, PTL

\* camera_query: whatever noise, cut or bad frames come after the query, it
\* ends with the first good frame that came whole, and OK with nothing else.
THEOREM FirstFrame == Spec => []FirstFrameWins
<1>1. IInv => FirstFrameWins
  <2> SUFFICES ASSUME IInv PROVE FirstFrameWins  OBVIOUS
  <2>1. /\ Lost \in Nat /\ Len(received) = Lost + Len(packet)
        /\ \A k \in 1 .. Len(packet) : packet[k] = received[Lost + k]
        /\ received \in Seq(Byte) /\ packet \in Seq(Byte) /\ Len(packet) <= 5
        /\ valid \in 0 .. 1
    BY DEF IInv, Candidate, TypeOK
  <2>2. \A i \in 1 .. Lost : ~FrameAt(received, i)  BY <2>1 DEF IInv, NoFrameLost, FrameAt
  <2>3. valid = 1 <=> FrameAt(received, Lost + 1)
    <3> HIDE DEF Lost
    <3>1. CASE valid = 0
      <4>1. Len(packet) <= 4  BY <3>1 DEF IInv, ReplyIsWhole
      <4>2. ~(Lost + 1 + 4 <= Len(received))  BY <4>1, <2>1
      <4> QED  BY <3>1, <4>2 DEF FrameAt
    <3>2. CASE valid = 1
      <4>1. FrameAt(packet, 1)  BY <3>2 DEF IInv, ReplyIsWhole
      <4>2. Len(packet) \in Int /\ 5 <= Len(packet) /\ Len(packet) <= 5
        BY <4>1, <2>1 DEF FrameAt
      <4>3. Len(packet) = 5  BY ONLY <4>2, OnlyFive
      <4> QED  BY <2>1, <3>2, <4>1, <4>3, FrameShift
    <3> QED  BY <2>1, <3>1, <3>2
  <2> QED  BY <2>1, <2>2, <2>3 DEF IInv, OkHasReply, FirstFrameWins, Lost
<1> QED  BY <1>1, Inductive, PTL
=============================================================================
