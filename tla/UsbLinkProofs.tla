------------------------------ MODULE UsbLinkProofs ------------------------------
(***************************************************************************)
(* For requests of any size, dumps of any length and any number of         *)
(* sessions and faults: the tool only keeps answers to what it asked,      *)
(* computed after it asked; a whole capture is of one run of the board; a  *)
(* session the board saw end leaves nothing to the next.                   *)
(*                                                                         *)
(* Every byte and packet between the tool and the board carries the number *)
(* of a request.  The invariant sorts the numbers: those of the past,      *)
(* which nothing accepts any more, and the one of the request that waits.  *)
(***************************************************************************)
EXTENDS UsbLink, SequenceTheorems, TLAPS

Idents == Nat \X Nat

Past(id) ==
  \/ id[1] < host.session
  \/ id[1] = host.session /\ (host.pc = "closed" \/ id[2] <= Len(host.kept))
Current(id) == host.pc = "waiting" /\ id = Ident

\* What asks is a request, what answers a reply.
Asks == [op : {"SNAPSHOT", "FLASH"}, address : Nat]
Replies ==
  [ident : Idents, asks : Asks, ok : BOOLEAN, boot : Nat, uptime : Int, at : Nat, session : Nat]
HostRecords ==
  [pc : {"closed", "opened", "ready", "waiting"}, session : Nat, job : {"capture", "dump"},
   written : Nat, since : Nat, got : Seq([reply : Replies, part : 1 .. 2]),
   kept : Seq([since : Nat, reply : Replies]),
   state : {"NONE", "STARTED", "CAPTURED", "DOWNLOADED", "PARTIAL", "CONNECTION_FAILED"}]
DevRecords ==
  [ready : BOOLEAN, active : BOOLEAN, vbus : BOOLEAN, clock : BOOLEAN, dtr : Nat,
   task : {"rest", "events", "feed"}]

Types ==
  /\ host \in HostRecords /\ dev \in DevRecords
  /\ board \in [boot : Nat, uptime : Int] /\ served \in Nat

\* The bytes and packets that may be on their way: an answer to the request
\* that waits is later than it, and of this run of the board.
KnownBytes == [ident : {id \in Idents : Past(id) \/ Current(id)}, asks : Asks, pos : Nat]
KnownReplies ==
  {r \in Replies : \/ Past(r.ident)
                   \/ Current(r.ident) /\ r.at > host.since /\ r.boot = board.boot}
KnownPackets == [reply : KnownReplies, part : 1 .. 2]
KnownItems ==
  [kind : {"BYTE"}, byte : KnownBytes] \cup [kind : {"DTR"}, session : Nat]
    \cup [kind : {"RESET"}]

OnlyKnown ==
  /\ queue \in Seq(KnownItems) /\ cdc \in Seq(KnownBytes)
  /\ wire \in [rx : Seq(KnownBytes), tx : Seq(KnownPackets)]
  /\ fifo \in Seq(KnownPackets) /\ endpoint \in Seq(KnownPackets)

\* The head of the answer is of the request that waits.
HeadMatches ==
  host.got # <<>> =>
    /\ host.pc = "waiting" /\ host.got[1] \in KnownPackets /\ HeaderMatches(host.got[1])

KeptIsRight ==
  \A i \in 1 .. Len(host.kept) :
    /\ host.kept[i].reply.at > host.kept[i].since
    /\ host.kept[i].reply.asks = Script(host.job)[i]
    /\ host.kept[i].reply.boot = host.kept[1].reply.boot
    /\ host.pc # "closed" => host.kept[i].reply.boot = board.boot

Running ==
  /\ host.pc # "closed" =>
       /\ host.session > 0 /\ host.state = "STARTED" /\ host.since <= served
       /\ Len(host.kept) < Len(Script(host.job))
  /\ host.state \in {"CAPTURED", "DOWNLOADED"} => Len(host.kept) = Len(Script(host.job))

IInv == Types /\ OnlyKnown /\ HeadMatches /\ KeptIsRight /\ Running

-----------------------------------------------------------------------------
\* A sequence over a set is one over every larger set.
LEMMA SeqGrows ==
  ASSUME NEW A, NEW B, A \subseteq B, NEW s \in Seq(A)
  PROVE  s \in Seq(B)
  OBVIOUS

LEMMA TakeFirst ==
  ASSUME NEW known, NEW s \in Seq(known), s # <<>>
  PROVE  Head(s) \in known /\ Tail(s) \in Seq(known)
  OBVIOUS

LEMMA OneMore ==
  ASSUME NEW known, NEW s \in Seq(known), NEW e \in known
  PROVE  Append(s, e) \in Seq(known)
  OBVIOUS

LEMMA SeqOfElements ==
  ASSUME NEW A, NEW B, NEW s \in Seq(A), \A i \in 1 .. Len(s) : s[i] \in B
  PROVE  s \in Seq(B)
<1>1. Len(s) \in Nat /\ s = [i \in 1 .. Len(s) |-> s[i]]  OBVIOUS
<1> QED  BY ONLY <1>1, \A i \in 1 .. Len(s) : s[i] \in B

LEMMA FunctionIsSeq ==
  ASSUME NEW S, NEW n \in Nat, NEW f \in [1 .. n -> S]
  PROVE  f \in Seq(S) /\ Len(f) = n
  OBVIOUS

LEMMA ScriptResult ==
  ASSUME NEW job \in {"capture", "dump"}
  PROVE  Script(job) \in Seq(Asks) /\ Len(Script(job)) >= 2
<1>1. Snapshot \in Asks /\ <<Snapshot>> \in Seq(Asks) /\ Len(<<Snapshot>>) = 1
      /\ <<Snapshot, Snapshot>> \in Seq(Asks) /\ Len(<<Snapshot, Snapshot>>) = 2
  BY DEF Snapshot, Asks
<1>2. CASE job = "capture"  BY <1>1, <1>2 DEF Script
<1>3. CASE job = "dump"
  <2> DEFINE blocks == [i \in 1 .. Blocks |-> Block(i - 1)]
  <2>1. \A i \in 1 .. Blocks : Block(i - 1) \in Asks
    BY UsbAssumption DEF Block, Asks
  <2>2. blocks \in Seq(Asks) /\ Len(blocks) = Blocks
    <3> HIDE DEF Asks
    <3> QED  BY <2>1, UsbAssumption
  <2>3. Script(job) = (<<Snapshot>> \o blocks) \o <<Snapshot>>  BY <1>3 DEF Script
  <2> HIDE DEF blocks
  <2>4. <<Snapshot>> \o blocks \in Seq(Asks) /\ Len(<<Snapshot>> \o blocks) = 1 + Blocks
    BY <1>1, <2>2, ConcatProperties
  <2>5. /\ (<<Snapshot>> \o blocks) \o <<Snapshot>> \in Seq(Asks)
        /\ Len((<<Snapshot>> \o blocks) \o <<Snapshot>>) = 1 + Blocks + 1
    BY <1>1, <2>4, ConcatProperties
  <2> QED  BY <2>3, <2>5, UsbAssumption
<1> QED  BY <1>2, <1>3

-----------------------------------------------------------------------------
\* What is known stays known when the numbers only pass from current to past.
Onward ==
  /\ \A id \in Idents : Past(id) => Past(id)'
  /\ \A id \in Idents : Current(id) =>
       \/ Past(id)'
       \/ Current(id)' /\ host'.since = host.since /\ board'.boot = board.boot

LEMMA KnownGrows ==
  ASSUME Onward
  PROVE  /\ KnownBytes \subseteq KnownBytes' /\ KnownPackets \subseteq KnownPackets'
         /\ KnownItems \subseteq KnownItems'
<1>1. {id \in Idents : Past(id) \/ Current(id)} \subseteq {id \in Idents : (Past(id) \/ Current(id))'}
  BY DEF Onward
<1>2. KnownBytes \subseteq KnownBytes'
  <2> HIDE DEF Past, Current
  <2> QED  BY <1>1 DEF KnownBytes
<1>3. KnownReplies \subseteq KnownReplies'
  <2> SUFFICES ASSUME NEW r \in KnownReplies PROVE r \in KnownReplies'  OBVIOUS
  <2>1. r \in Replies /\ r.ident \in Idents  BY DEF KnownReplies, Replies
  <2>2. CASE Past(r.ident)  BY <2>1, <2>2 DEF Onward, KnownReplies
  <2>3. CASE Current(r.ident) /\ r.at > host.since /\ r.boot = board.boot
    BY <2>1, <2>3 DEF Onward, KnownReplies
  <2> QED  BY <2>2, <2>3 DEF KnownReplies
<1>4. KnownPackets \subseteq KnownPackets'  BY <1>3 DEF KnownPackets
<1>5. KnownItems \subseteq KnownItems'  BY <1>2 DEF KnownItems
<1> QED  BY <1>2, <1>4, <1>5

LEMMA StillKnown ==
  ASSUME OnlyKnown, Onward
  PROVE  /\ queue \in Seq(KnownItems') /\ cdc \in Seq(KnownBytes')
         /\ wire \in [rx : Seq(KnownBytes'), tx : Seq(KnownPackets')]
         /\ fifo \in Seq(KnownPackets') /\ endpoint \in Seq(KnownPackets')
<1>1. /\ KnownBytes \subseteq KnownBytes' /\ KnownPackets \subseteq KnownPackets'
      /\ KnownItems \subseteq KnownItems'
  BY KnownGrows
<1>2. queue \in Seq(KnownItems')  BY <1>1, SeqGrows DEF OnlyKnown
<1>3. cdc \in Seq(KnownBytes')  BY <1>1, SeqGrows DEF OnlyKnown
<1>4. fifo \in Seq(KnownPackets') /\ endpoint \in Seq(KnownPackets')
  BY <1>1, SeqGrows DEF OnlyKnown
<1>5. wire.rx \in Seq(KnownBytes') /\ wire.tx \in Seq(KnownPackets')
  BY <1>1, SeqGrows DEF OnlyKnown
<1> QED  BY ONLY <1>2, <1>3, <1>4, <1>5, OnlyKnown DEF OnlyKnown

-----------------------------------------------------------------------------
(***************************************************************************)
(* What a step may do to the tool                                          *)
(***************************************************************************)
LEMMA HostStands ==
  ASSUME IInv, host' = host, board'.boot = board.boot, served' \in Nat, served' >= served
  PROVE  Onward /\ HeadMatches' /\ KeptIsRight' /\ Running'
<1>1. Onward  BY DEF Onward, Past, Current, Ident
<1>2. KnownPackets \subseteq KnownPackets'  BY <1>1, KnownGrows
<1>3. HeadMatches'
  BY <1>2 DEF IInv, HeadMatches, HeaderMatches, Ident, Asked
<1>4. KeptIsRight'  BY DEF IInv, KeptIsRight
<1>5. Running'  BY DEF IInv, Running, Types, HostRecords
<1> QED  BY <1>1, <1>3, <1>4, <1>5

LEMMA FailedIs ==
  ASSUME NEW h \in HostRecords
  PROVE  /\ Failed(h) \in HostRecords
         /\ Failed(h).pc = "closed" /\ Failed(h).got = <<>>
         /\ Failed(h).session = h.session /\ Failed(h).job = h.job /\ Failed(h).since = h.since
         /\ Failed(h).kept = h.kept
         /\ Failed(h).state \in {"PARTIAL", "CONNECTION_FAILED"}
<1>1. PICK last \in {"PARTIAL", "CONNECTION_FAILED"} :
        Failed(h) = [h EXCEPT !.pc = "closed", !.got = <<>>, !.state = last]
  BY DEF Failed
<1>2. <<>> \in Seq([reply : Replies, part : 1 .. 2])  OBVIOUS
<1> HIDE DEF Replies
<1> QED  BY ONLY h \in HostRecords, <1>1, <1>2 DEF HostRecords

\* A tool that stops is asked nothing more: everything on its way is past.
LEMMA HostStops ==
  ASSUME IInv, host' \in HostRecords, host'.pc = "closed", host'.session = host.session
  PROVE  Onward
<1>1. \A id \in Idents : Past(id) => Past(id)'
  BY DEF Past
<1>2. \A id \in Idents : Current(id) => Past(id)'
  BY DEF Past, Current, Ident
<1> QED  BY <1>1, <1>2 DEF Onward

LEMMA HostFails ==
  ASSUME IInv, host' = Failed(host)
  PROVE  host' \in HostRecords /\ Onward /\ HeadMatches' /\ KeptIsRight' /\ Running'
<1>1. /\ host' \in HostRecords /\ host'.pc = "closed" /\ host'.got = <<>>
      /\ host'.session = host.session /\ host'.job = host.job /\ host'.kept = host.kept
      /\ host'.state \in {"PARTIAL", "CONNECTION_FAILED"}
  BY ONLY FailedIs, IInv, host' = Failed(host) DEF IInv, Types
<1>2. Onward  BY ONLY HostStops, IInv, <1>1
<1>3. HeadMatches'  BY ONLY <1>1 DEF HeadMatches
<1>4. KeptIsRight'  BY ONLY <1>1, IInv DEF IInv, KeptIsRight
<1>5. Running'  BY ONLY <1>1 DEF Running
<1> QED  BY <1>1, <1>2, <1>3, <1>4, <1>5

LEMMA HostGone ==
  ASSUME IInv, host' = PortLost(host)
  PROVE  host' \in HostRecords /\ Onward /\ HeadMatches' /\ KeptIsRight' /\ Running'
<1>1. CASE host.pc # "closed"  BY <1>1, HostFails DEF PortLost
<1>2. CASE host.pc = "closed"
  <2>1. host' = host /\ host \in HostRecords  BY <1>2 DEF PortLost, IInv, Types
  <2>2. Onward  BY ONLY HostStops, IInv, <1>2, <2>1
  <2>3. HeadMatches'  BY <1>2, <2>1 DEF IInv, HeadMatches
  <2>4. KeptIsRight'  BY <1>2, <2>1 DEF IInv, KeptIsRight
  <2>5. Running'  BY <1>2, <2>1 DEF IInv, Running
  <2> QED  BY <2>1, <2>2, <2>3, <2>4, <2>5
<1> QED  BY <1>1, <1>2

-----------------------------------------------------------------------------
(***************************************************************************)
(* The board and the line                                                  *)
(***************************************************************************)
LEMMA TaskDetachStep == ASSUME IInv, TaskDetach PROVE IInv'
<1>1. /\ host' = PortLost(host) /\ wire' = NoWire /\ cdc' = <<>> /\ fifo' = <<>>
      /\ endpoint' = <<>> /\ queue' = <<>> /\ UNCHANGED <<board, served>>
  BY DEF TaskDetach, Detached
<1>2. dev' \in DevRecords  BY DEF TaskDetach, IInv, Types, DevRecords
<1>3. Types'  BY <1>1, <1>2, HostGone DEF IInv, Types
<1>4. OnlyKnown'  BY <1>1 DEF OnlyKnown, NoWire
<1> QED  BY <1>1, <1>3, <1>4, HostGone DEF IInv

LEMMA BoardResetStep == ASSUME IInv, BoardReset PROVE IInv'
<1>1. /\ host' = PortLost(host) /\ wire' = NoWire /\ cdc' = <<>> /\ fifo' = <<>>
      /\ endpoint' = <<>> /\ queue' = <<>> /\ UNCHANGED served
      /\ board' = [boot |-> board.boot + 1, uptime |-> 0]
  BY DEF BoardReset, Detached
<1>2. dev' \in DevRecords
  <2>1. PICK ready \in BOOLEAN : dev' = [Started(ready) EXCEPT !.vbus = dev.vbus]
    BY DEF BoardReset
  <2>2. Started(ready) \in DevRecords  BY DEF Started, DevRecords
  <2>3. dev.vbus \in BOOLEAN  BY DEF IInv, Types, DevRecords
  <2> QED  BY ONLY <2>1, <2>2, <2>3 DEF DevRecords
<1>3. Types'  BY <1>1, <1>2, HostGone DEF IInv, Types
<1>4. OnlyKnown'  BY <1>1 DEF OnlyKnown, NoWire
<1> QED  BY <1>1, <1>3, <1>4, HostGone DEF IInv

\* A step of the board that leaves the tool, the counts and the buses alone.
LEMMA PowerStep ==
  ASSUME IInv, TaskAttach \/ TaskEnter \/ ClockLost
  PROVE  IInv'
<1>1. UNCHANGED <<host, queue, wire, cdc, fifo, endpoint, board, served>> /\ dev' \in DevRecords
  BY DEF TaskAttach, TaskEnter, ClockLost, IInv, Types, DevRecords
<1>2. Onward /\ HeadMatches' /\ KeptIsRight' /\ Running'
  BY <1>1, HostStands DEF IInv, Types
<1>3. Types'  BY <1>1 DEF IInv, Types
<1>4. OnlyKnown'  BY <1>1, <1>2, StillKnown DEF IInv, OnlyKnown
<1> QED  BY <1>2, <1>3, <1>4 DEF IInv

LEMMA UnplugStep == ASSUME IInv, Unplug PROVE IInv'
<1>1. /\ UNCHANGED <<queue, wire, cdc, fifo, endpoint, board, served>> /\ dev' \in DevRecords
      /\ host' = PortLost(host)
  BY DEF Unplug, IInv, Types, DevRecords
<1>2. host' \in HostRecords /\ Onward /\ HeadMatches' /\ KeptIsRight' /\ Running'
  BY <1>1, HostGone
<1>3. Types'  BY <1>1, <1>2 DEF IInv, Types
<1>4. OnlyKnown'  BY <1>1, <1>2, StillKnown DEF IInv, OnlyKnown
<1> QED  BY <1>2, <1>3, <1>4 DEF IInv

LEMMA BusResetStep == ASSUME IInv, BusReset PROVE IInv'
<1>1. /\ UNCHANGED <<dev, wire, cdc, fifo, board, served>> /\ endpoint' = <<>>
      /\ host' = PortLost(host) /\ queue' = Append(queue, ResetItem)
  BY DEF BusReset
<1>2. host' \in HostRecords /\ Onward /\ HeadMatches' /\ KeptIsRight' /\ Running'
  BY <1>1, HostGone
<1>3. Types'  BY <1>1, <1>2 DEF IInv, Types
<1>4. queue' \in Seq(KnownItems')
  <2>1. ResetItem \in KnownItems'  BY DEF ResetItem, KnownItems
  <2>2. queue \in Seq(KnownItems')  BY <1>2, StillKnown DEF IInv
  <2> QED  BY ONLY <1>1, <2>1, <2>2, OneMore
<1>5. endpoint' \in Seq(KnownPackets')  BY <1>1
<1>6. OnlyKnown'  BY <1>1, <1>2, <1>4, <1>5, StillKnown DEF IInv, OnlyKnown
<1> QED  BY <1>2, <1>3, <1>6 DEF IInv

LEMMA PlugStep == ASSUME IInv, Plug PROVE IInv'
<1>1. /\ UNCHANGED <<host, wire, cdc, fifo, board, served>> /\ dev' \in DevRecords
      /\ \/ queue' = Append(queue, ResetItem) /\ endpoint' = <<>>
         \/ UNCHANGED <<queue, endpoint>>
  BY DEF Plug, IInv, Types, DevRecords
<1>2. Onward /\ HeadMatches' /\ KeptIsRight' /\ Running'
  BY <1>1, HostStands DEF IInv, Types
<1>3. Types'  BY <1>1 DEF IInv, Types
<1>4. queue' \in Seq(KnownItems')
  <2>1. ResetItem \in KnownItems'  BY DEF ResetItem, KnownItems
  <2>2. queue \in Seq(KnownItems')  BY <1>2, StillKnown DEF IInv
  <2> QED  BY ONLY <1>1, <2>1, <2>2, OneMore
<1>5. endpoint' \in Seq(KnownPackets')
  <2>1. endpoint \in Seq(KnownPackets') /\ <<>> \in Seq(KnownPackets')
    BY <1>2, StillKnown DEF IInv
  <2> QED  BY ONLY <1>1, <2>1
<1>6. OnlyKnown'  BY <1>1, <1>2, <1>4, <1>5, StillKnown DEF IInv, OnlyKnown
<1> QED  BY <1>2, <1>3, <1>6 DEF IInv

LEMMA NoiseStep == ASSUME IInv, Noise PROVE IInv'
<1> DEFINE noise == [ident |-> <<0, 0>>, asks |-> Snapshot, pos |-> 0]
<1>1. /\ UNCHANGED <<host, dev, wire, cdc, fifo, endpoint, board, served>> /\ host.pc # "closed"
      /\ queue' = Append(queue, ByteItem(noise))
  BY DEF Noise
<1>2. Onward /\ HeadMatches' /\ KeptIsRight' /\ Running'
  BY <1>1, HostStands DEF IInv, Types
<1>3. Types'  BY <1>1 DEF IInv, Types
<1>4. queue' \in Seq(KnownItems')
  <2>1. Past(<<0, 0>>)'  BY <1>1 DEF IInv, Running, Past
  <2>2. noise \in KnownBytes'
    <3> HIDE DEF Past, Current
    <3> QED  BY <2>1 DEF KnownBytes, Idents, Snapshot, Asks
  <2>3. ByteItem(noise) \in KnownItems'  BY <2>2 DEF ByteItem, KnownItems
  <2>4. queue \in Seq(KnownItems')  BY <1>2, StillKnown DEF IInv
  <2> QED  BY ONLY <1>1, <2>3, <2>4, OneMore
<1>5. OnlyKnown'  BY <1>1, <1>2, <1>4, StillKnown DEF IInv, OnlyKnown
<1> QED  BY <1>2, <1>3, <1>5 DEF IInv

-----------------------------------------------------------------------------
(***************************************************************************)
(* The USB task                                                            *)
(***************************************************************************)
\* What a step of the task leaves of the invariant to be shown.
LEMMA TaskKeeps ==
  ASSUME IInv, UNCHANGED <<host, board, served>>
  PROVE  /\ HeadMatches' /\ KeptIsRight' /\ Running'
         /\ queue \in Seq(KnownItems') /\ cdc \in Seq(KnownBytes')
         /\ wire \in [rx : Seq(KnownBytes'), tx : Seq(KnownPackets')]
         /\ fifo \in Seq(KnownPackets') /\ endpoint \in Seq(KnownPackets')
<1>1. Onward /\ HeadMatches' /\ KeptIsRight' /\ Running'
  BY HostStands DEF IInv, Types
<1>2. OnlyKnown  BY DEF IInv
<1> QED  BY ONLY <1>1, <1>2, StillKnown

LEMMA TaskEventStep == ASSUME IInv, TaskEvent PROVE IInv'
<1> DEFINE e == Head(queue)
<1>1. UNCHANGED <<host, endpoint, board, served>> /\ queue # <<>> /\ queue' = Tail(queue)
  BY DEF TaskEvent
<1>2. /\ HeadMatches' /\ KeptIsRight' /\ Running'
      /\ queue \in Seq(KnownItems') /\ cdc \in Seq(KnownBytes')
      /\ wire \in [rx : Seq(KnownBytes'), tx : Seq(KnownPackets')]
      /\ fifo \in Seq(KnownPackets') /\ endpoint \in Seq(KnownPackets')
  BY ONLY <1>1, IInv, TaskKeeps
<1>3. e \in KnownItems' /\ queue' \in Seq(KnownItems')
  BY ONLY <1>1, <1>2, TakeFirst
<1>4. dev \in DevRecords  BY DEF IInv, Types
<1> HIDE DEF e
<1>5. \/ e.kind = "BYTE" /\ cdc' = Append(cdc, e.byte) /\ UNCHANGED <<dev, wire, fifo>>
      \/ e.kind = "DTR" /\ dev' = [dev EXCEPT !.dtr = e.session] /\ UNCHANGED <<wire, cdc, fifo>>
      \/ /\ dev' = [dev EXCEPT !.dtr = 0]
         /\ wire' = NoWire \/ UNCHANGED wire
         /\ cdc' = <<>> /\ fifo' = <<>>
  BY DEF TaskEvent, e
<1>6. /\ dev' \in DevRecords /\ cdc' \in Seq(KnownBytes') /\ fifo' \in Seq(KnownPackets')
      /\ wire' \in [rx : Seq(KnownBytes'), tx : Seq(KnownPackets')]
  <2>1. CASE e.kind = "BYTE" /\ cdc' = Append(cdc, e.byte) /\ UNCHANGED <<dev, wire, fifo>>
    <3>1. e.byte \in KnownBytes'  BY ONLY <1>3, <2>1 DEF KnownItems
    <3> QED  BY ONLY <1>2, <1>4, <2>1, <3>1, OneMore
  <2>2. CASE /\ e.kind = "DTR" /\ dev' = [dev EXCEPT !.dtr = e.session]
             /\ UNCHANGED <<wire, cdc, fifo>>
    <3>1. e.session \in Nat  BY ONLY <1>3, <2>2 DEF KnownItems
    <3> QED  BY ONLY <1>2, <1>4, <2>2, <3>1 DEF DevRecords
  <2>3. CASE /\ dev' = [dev EXCEPT !.dtr = 0]
             /\ wire' = NoWire \/ UNCHANGED wire
             /\ cdc' = <<>> /\ fifo' = <<>>
    <3>1. dev' \in DevRecords  BY ONLY <1>4, <2>3 DEF DevRecords
    <3>2. NoWire \in [rx : Seq(KnownBytes'), tx : Seq(KnownPackets')]  BY DEF NoWire
    <3>3. cdc' \in Seq(KnownBytes') /\ fifo' \in Seq(KnownPackets')  BY ONLY <2>3
    <3> QED  BY ONLY <1>2, <2>3, <3>1, <3>2, <3>3
  <2> QED  BY ONLY <1>5, <2>1, <2>2, <2>3
<1>7. Types'  BY <1>1, <1>6 DEF IInv, Types
<1>8. OnlyKnown'  BY ONLY <1>1, <1>2, <1>3, <1>6 DEF OnlyKnown
<1> QED  BY ONLY <1>2, <1>7, <1>8 DEF IInv

LEMMA TaskSentStep == ASSUME IInv, TaskSent PROVE IInv'
<1>1. /\ UNCHANGED <<host, queue, dev, wire, cdc, board, served>>
      /\ fifo # <<>> /\ endpoint' = <<Head(fifo)>> /\ fifo' = Tail(fifo)
  BY DEF TaskSent
<1>2. /\ HeadMatches' /\ KeptIsRight' /\ Running'
      /\ queue \in Seq(KnownItems') /\ cdc \in Seq(KnownBytes')
      /\ wire \in [rx : Seq(KnownBytes'), tx : Seq(KnownPackets')]
      /\ fifo \in Seq(KnownPackets') /\ endpoint \in Seq(KnownPackets')
  BY ONLY <1>1, IInv, TaskKeeps
<1>3. Head(fifo) \in KnownPackets' /\ fifo' \in Seq(KnownPackets')
  BY ONLY <1>1, <1>2, TakeFirst
<1>4. endpoint' \in Seq(KnownPackets')  BY ONLY <1>1, <1>3
<1>5. Types'  BY <1>1 DEF IInv, Types
<1>6. OnlyKnown'  BY ONLY <1>1, <1>2, <1>3, <1>4 DEF OnlyKnown
<1> QED  BY ONLY <1>2, <1>5, <1>6 DEF IInv

LEMMA TaskTickStep == ASSUME IInv, TaskTick PROVE IInv'
<1>1. /\ UNCHANGED <<host, queue, cdc, fifo, endpoint, board, served>>
      /\ wire' = [wire EXCEPT !.rx = <<>>] \/ UNCHANGED wire
  BY DEF TaskTick
<1>2. /\ HeadMatches' /\ KeptIsRight' /\ Running'
      /\ queue \in Seq(KnownItems') /\ cdc \in Seq(KnownBytes')
      /\ wire \in [rx : Seq(KnownBytes'), tx : Seq(KnownPackets')]
      /\ fifo \in Seq(KnownPackets') /\ endpoint \in Seq(KnownPackets')
  BY ONLY <1>1, IInv, TaskKeeps
<1>3. dev' \in DevRecords  BY DEF TaskTick, IInv, Types, DevRecords
<1>4. wire' \in [rx : Seq(KnownBytes'), tx : Seq(KnownPackets')]
  <2>1. <<>> \in Seq(KnownBytes')  OBVIOUS
  <2> QED  BY ONLY <1>1, <1>2, <2>1
<1>5. Types'  BY <1>1, <1>3 DEF IInv, Types
<1>6. OnlyKnown'  BY ONLY <1>1, <1>2, <1>4 DEF OnlyKnown
<1> QED  BY ONLY <1>2, <1>5, <1>6 DEF IInv

LEMMA TakeSome ==
  ASSUME NEW known, NEW s \in Seq(known), NEW n \in 0 .. Len(s)
  PROVE  SubSeq(s, 1, n) \in Seq(known) /\ SubSeq(s, n + 1, Len(s)) \in Seq(known)
<1>1. \A i \in 1 .. Len(s) : s[i] \in known  OBVIOUS
<1>2. 1 \in Int /\ n \in Int /\ Len(s) \in Int /\ n + 1 \in Int  OBVIOUS
<1>3. \A i \in 1 .. n : s[i] \in known  BY <1>1
<1>4. \A i \in n + 1 .. Len(s) : s[i] \in known  BY <1>1
<1>5. SubSeq(s, 1, n) \in Seq(known)  BY ONLY <1>2, <1>3, SubSeqProperties
<1>6. SubSeq(s, n + 1, Len(s)) \in Seq(known)  BY ONLY <1>2, <1>4, SubSeqProperties
<1> QED  BY <1>5, <1>6

LEMMA TaskWriteStep == ASSUME IInv, TaskWrite PROVE IInv'
<1> DEFINE taken == SubSeq(wire.tx, 1, Room)
           sending == fifo \o taken
<1>1. /\ UNCHANGED <<host, queue, cdc, board, served>>
      /\ wire' = [wire EXCEPT !.tx = SubSeq(@, Room + 1, Len(@))]
      /\ \/ taken # <<>> /\ endpoint' = <<Head(sending)>> /\ fifo' = Tail(sending)
         \/ fifo' = sending /\ UNCHANGED endpoint
  BY DEF TaskWrite
<1>2. /\ HeadMatches' /\ KeptIsRight' /\ Running'
      /\ queue \in Seq(KnownItems') /\ cdc \in Seq(KnownBytes')
      /\ wire \in [rx : Seq(KnownBytes'), tx : Seq(KnownPackets')]
      /\ fifo \in Seq(KnownPackets') /\ endpoint \in Seq(KnownPackets')
  BY ONLY <1>1, IInv, TaskKeeps
<1>3. wire.tx \in Seq(KnownPackets')  BY ONLY <1>2
<1>4. Room \in 0 .. Len(wire.tx)  BY ONLY <1>3 DEF Room
<1>5. taken \in Seq(KnownPackets') /\ SubSeq(wire.tx, Room + 1, Len(wire.tx)) \in Seq(KnownPackets')
  BY ONLY <1>3, <1>4, TakeSome
<1> HIDE DEF taken
<1>6. sending \in Seq(KnownPackets') /\ Len(sending) = Len(fifo) + Len(taken)
  BY ONLY <1>2, <1>5, ConcatProperties
<1>7. taken # <<>> => sending # <<>>  BY ONLY <1>2, <1>5, <1>6
<1> HIDE DEF sending
<1>8. fifo' \in Seq(KnownPackets') /\ endpoint' \in Seq(KnownPackets')
  <2>1. taken # <<>> => Head(sending) \in KnownPackets' /\ Tail(sending) \in Seq(KnownPackets')
    BY ONLY <1>6, <1>7, TakeFirst
  <2>2. taken # <<>> => <<Head(sending)>> \in Seq(KnownPackets')  BY ONLY <2>1
  <2> QED  BY ONLY <1>1, <1>2, <1>6, <2>1, <2>2
<1>9. wire' \in [rx : Seq(KnownBytes'), tx : Seq(KnownPackets')]
  BY ONLY <1>1, <1>2, <1>5
<1>10. dev' \in DevRecords  BY DEF TaskWrite, IInv, Types, DevRecords
<1>11. Types'  BY <1>1, <1>10 DEF IInv, Types
<1>12. OnlyKnown'  BY ONLY <1>1, <1>2, <1>8, <1>9 DEF OnlyKnown
<1> QED  BY ONLY <1>2, <1>11, <1>12 DEF IInv

\* An answer is later than the request it answers, and of this run of the board.
LEMMA ExecuteResult ==
  ASSUME IInv, NEW b \in KnownBytes, Execute(b), UNCHANGED <<host, dev>>
  PROVE  /\ board' \in [boot : Nat, uptime : Int] /\ board'.boot = board.boot
         /\ served' = served + 1 /\ wire' \in [rx : Seq(KnownBytes'), tx : Seq(KnownPackets')]
<1>1. PICK ok \in BOOLEAN, ms \in {0, 1} :
        /\ board' = [board EXCEPT !.uptime = (@ + ms) % Clock]
        /\ served' = served + 1
        /\ wire' = [rx |-> <<>>,
                    tx |-> Packets([ident |-> b.ident, asks |-> b.asks, ok |-> ok,
                                    boot |-> board.boot,
                                    uptime |-> IF b.asks = Snapshot THEN board'.uptime ELSE 0,
                                    at |-> served + 1, session |-> dev.dtr])]
  BY DEF Execute
<1>2. board \in [boot : Nat, uptime : Int] /\ served \in Nat /\ dev.dtr \in Nat
  BY DEF IInv, Types, DevRecords
<1>3. (board.uptime + ms) % Clock \in Int
  <2>1. board.uptime + ms \in Int  BY ONLY <1>2
  <2> QED  BY ONLY <2>1, UsbAssumption
<1>4. board' \in [boot : Nat, uptime : Int] /\ board'.boot = board.boot
  BY ONLY <1>1, <1>2, <1>3
<1> DEFINE last == IF b.asks = Snapshot THEN board'.uptime ELSE 0
           reply == [ident |-> b.ident, asks |-> b.asks, ok |-> ok, boot |-> board.boot,
                     uptime |-> last, at |-> served + 1, session |-> dev.dtr]
<1>5. last \in Int  BY ONLY <1>4 DEF last
<1>6. b.ident \in Idents /\ b.asks \in Asks /\ (Past(b.ident) \/ Current(b.ident))
  <2> HIDE DEF Past, Current
  <2> QED  BY DEF KnownBytes
<1> HIDE DEF last
<1>7. reply \in Replies  BY ONLY <1>2, <1>5, <1>6, ok \in BOOLEAN DEF Replies, reply
<1>8. PICK r \in Replies : r = reply  BY <1>7
<1>9. r.ident = b.ident /\ r.at = served + 1 /\ r.boot = board.boot  BY <1>8
<1>10. wire' = [rx |-> <<>>, tx |-> Packets(r)]  BY ONLY <1>1, <1>8 DEF reply, last
<1> HIDE DEF reply
<1>11. r \in KnownReplies'
  <2>1. CASE Past(b.ident)
    <3>1. Past(r.ident)'  BY <1>9, <2>1 DEF Past
    <3> QED  BY <3>1 DEF KnownReplies
  <2>2. CASE Current(b.ident)
    <3>1. host.since <= served /\ host.since \in Nat
      BY <2>2 DEF Current, IInv, Running, Types, HostRecords
    <3>2. r.at > host'.since  BY <1>2, <1>9, <3>1
    <3>3. Current(r.ident)'  BY <1>9, <2>2 DEF Current, Ident
    <3> HIDE DEF Past, Current
    <3> QED  BY <1>4, <1>9, <3>2, <3>3 DEF KnownReplies
  <2> QED  BY <1>6, <2>1, <2>2
<1>12. Packets(r) \in Seq(KnownPackets')
  <2>1. [reply |-> r, part |-> 1] \in KnownPackets' /\ [reply |-> r, part |-> 2] \in KnownPackets'
    BY <1>11 DEF KnownPackets
  <2> QED  BY <2>1 DEF Packets
<1>13. <<>> \in Seq(KnownBytes')  OBVIOUS
<1> QED  BY ONLY <1>1, <1>4, <1>10, <1>12, <1>13

LEMMA TaskFeedStep == ASSUME IInv, TaskFeed PROVE IInv'
<1> DEFINE rx == Append(wire.rx, Head(cdc))
<1>1. /\ UNCHANGED <<host, queue, dev, fifo, endpoint>> /\ cdc # <<>> /\ cdc' = Tail(cdc)
      /\ \/ wire' = [wire EXCEPT !.rx = rx] /\ UNCHANGED <<board, served>>
         \/ Len(rx) = Frame /\ wire' = Resync(rx) /\ UNCHANGED <<board, served>>
         \/ Execute(Head(cdc))
  BY DEF TaskFeed
<1>2. cdc \in Seq(KnownBytes) /\ wire \in [rx : Seq(KnownBytes), tx : Seq(KnownPackets)]
      /\ board \in [boot : Nat, uptime : Int] /\ served \in Nat
  BY DEF IInv, OnlyKnown, Types
<1>3. Head(cdc) \in KnownBytes /\ Tail(cdc) \in Seq(KnownBytes)  BY ONLY <1>1, <1>2, TakeFirst
<1>4. /\ board' \in [boot : Nat, uptime : Int] /\ board'.boot = board.boot
      /\ served' \in Nat /\ served' >= served
  <2>1. CASE UNCHANGED <<board, served>>  BY ONLY <1>2, <2>1
  <2>2. CASE Execute(Head(cdc))  BY ONLY <1>1, <1>2, <1>3, <2>2, IInv, ExecuteResult
  <2> QED  BY ONLY <1>1, <2>1, <2>2
<1>5. Onward /\ HeadMatches' /\ KeptIsRight' /\ Running'
  BY ONLY <1>1, <1>4, IInv, HostStands
<1>6. /\ KnownBytes \subseteq KnownBytes' /\ KnownPackets \subseteq KnownPackets'
      /\ queue \in Seq(KnownItems')
      /\ fifo \in Seq(KnownPackets') /\ endpoint \in Seq(KnownPackets')
  BY ONLY <1>5, IInv, KnownGrows, StillKnown DEF IInv
<1>7. wire' \in [rx : Seq(KnownBytes'), tx : Seq(KnownPackets')]
  <2>1. wire.rx \in Seq(KnownBytes') /\ wire.tx \in Seq(KnownPackets')
    BY ONLY <1>2, <1>6, SeqGrows
  <2>2. rx \in Seq(KnownBytes') /\ rx # <<>>
    <3>1. Head(cdc) \in KnownBytes'  BY ONLY <1>3, <1>6
    <3> QED  BY ONLY <2>1, <3>1
  <2> HIDE DEF rx
  <2>3. Tail(rx) \in Seq(KnownBytes')  BY ONLY <2>2, TakeFirst
  <2>4. CASE wire' = [wire EXCEPT !.rx = rx]  BY ONLY <1>2, <2>1, <2>2, <2>4
  <2>5. CASE wire' = Resync(rx)  BY ONLY <1>2, <2>1, <2>3, <2>5 DEF Resync
  <2>6. CASE Execute(Head(cdc))  BY ONLY <1>1, <1>3, <2>6, IInv, ExecuteResult
  <2> QED  BY ONLY <1>1, <2>4, <2>5, <2>6
<1>8. cdc' \in Seq(KnownBytes')  BY ONLY <1>1, <1>3, <1>6, SeqGrows
<1>9. Types'  BY ONLY <1>1, <1>4, IInv DEF IInv, Types
<1>10. OnlyKnown'  BY ONLY <1>1, <1>6, <1>7, <1>8 DEF OnlyKnown
<1> QED  BY ONLY <1>5, <1>9, <1>10 DEF IInv

-----------------------------------------------------------------------------
(***************************************************************************)
(* The tool                                                                *)
(***************************************************************************)
\* A step of the tool that writes no more than a change of DTR.
LEMMA HostMoves ==
  ASSUME IInv, UNCHANGED <<dev, wire, cdc, fifo, board, served>>,
         host' \in HostRecords, Onward, HeadMatches', KeptIsRight', Running',
         \/ UNCHANGED queue
         \/ \E session \in Nat : queue' = Append(queue, DtrItem(session)),
         endpoint' = <<>> \/ UNCHANGED endpoint
  PROVE  IInv'
<1>1. /\ queue \in Seq(KnownItems') /\ cdc \in Seq(KnownBytes')
      /\ wire \in [rx : Seq(KnownBytes'), tx : Seq(KnownPackets')]
      /\ fifo \in Seq(KnownPackets') /\ endpoint \in Seq(KnownPackets')
  BY StillKnown DEF IInv
<1>2. queue' \in Seq(KnownItems')
  <2>1. ASSUME NEW session \in Nat, queue' = Append(queue, DtrItem(session))
        PROVE  queue' \in Seq(KnownItems')
    <3>1. DtrItem(session) \in KnownItems'  BY DEF DtrItem, KnownItems
    <3> QED  BY ONLY <1>1, <2>1, <3>1, OneMore
  <2> QED  BY <1>1, <2>1
<1>3. endpoint' \in Seq(KnownPackets')
  <2>1. <<>> \in Seq(KnownPackets')  OBVIOUS
  <2> QED  BY ONLY <1>1, <2>1, endpoint' = <<>> \/ UNCHANGED endpoint
<1>4. OnlyKnown'  BY <1>1, <1>2, <1>3 DEF OnlyKnown
<1>5. Types'  BY DEF IInv, Types
<1> QED  BY <1>4, <1>5 DEF IInv

LEMMA DeadlineStep == ASSUME IInv, Deadline PROVE IInv'
<1>1. /\ UNCHANGED <<dev, wire, cdc, fifo, endpoint, board, served>> /\ host' = Failed(host)
      /\ queue' = Append(queue, DtrItem(0)) \/ UNCHANGED queue
  BY DEF Deadline, Fail, Close
<1>2. host' \in HostRecords /\ Onward /\ HeadMatches' /\ KeptIsRight' /\ Running'
  BY ONLY <1>1, IInv, HostFails
<1>3. \/ UNCHANGED queue
      \/ \E session \in Nat : queue' = Append(queue, DtrItem(session))
  BY <1>1
<1> QED  BY ONLY <1>1, <1>2, <1>3, IInv, HostMoves

LEMMA OpenStep == ASSUME IInv, Open PROVE IInv'
<1>1. PICK job \in {"capture", "dump"} :
        host' = [pc |-> "opened", session |-> host.session + 1, job |-> job, written |-> 0,
                 since |-> 0, got |-> <<>>, kept |-> <<>>, state |-> "STARTED"]
  BY DEF Open
<1>2. /\ UNCHANGED <<dev, wire, cdc, fifo, endpoint, board, served>> /\ host.pc = "closed"
      /\ queue' = Append(queue, DtrItem(host.session + 1))
  BY DEF Open
<1>3. host.session \in Nat /\ served \in Nat  BY DEF IInv, Types, HostRecords
<1>4. host' \in HostRecords
  <2>1. <<>> \in Seq([reply : Replies, part : 1 .. 2])
        /\ <<>> \in Seq([since : Nat, reply : Replies])
    OBVIOUS
  <2> HIDE DEF Replies
  <2> QED  BY ONLY <1>1, <1>3, <2>1 DEF HostRecords
<1>5. Onward
  <2>1. \A id \in Idents : Past(id) => Past(id)'
    BY <1>1, <1>2, <1>3 DEF Past, Idents
  <2>2. \A id \in Idents : ~Current(id)  BY <1>2 DEF Current
  <2> QED  BY ONLY <2>1, <2>2 DEF Onward
<1>6. HeadMatches' /\ KeptIsRight'  BY ONLY <1>1 DEF HeadMatches, KeptIsRight
<1>7. Running'
  <2>1. Len(host'.kept) = 0 /\ Len(Script(job)) >= 2  BY ONLY <1>1, ScriptResult
  <2>2. Len(Script(job)) \in Nat  BY ScriptResult
  <2> QED  BY ONLY <1>1, <1>2, <1>3, <2>1, <2>2 DEF Running
<1>8. \E session \in Nat : queue' = Append(queue, DtrItem(session))
  <2>1. host.session + 1 \in Nat  BY ONLY <1>3
  <2> QED  BY ONLY <1>2, <2>1
<1> QED  BY ONLY <1>2, <1>4, <1>5, <1>6, <1>7, <1>8, IInv, HostMoves

\* The tool goes on in the same request or asks for the first time.
LEMMA DiscardStep == ASSUME IInv, Discard PROVE IInv'
<1>1. UNCHANGED <<host, queue, dev, wire, cdc, fifo, board, served>> /\ endpoint' = <<>>
  BY DEF Discard
<1>2. host' \in HostRecords /\ Onward /\ HeadMatches' /\ KeptIsRight' /\ Running'
  BY <1>1, HostStands DEF IInv, Types
<1> QED  BY ONLY <1>1, <1>2, IInv, HostMoves

LEMMA PcMoves ==
  ASSUME IInv, UNCHANGED <<board, served>>, host' \in HostRecords,
         host.pc # "closed", host'.pc # "closed", host'.since <= served,
         host.pc = "waiting" => host'.pc = "waiting" /\ host'.since = host.since,
         host'.session = host.session, host'.job = host.job, host'.state = host.state,
         host'.got = host.got, host'.kept = host.kept
  PROVE  Onward /\ HeadMatches' /\ KeptIsRight' /\ Running'
<1>1. \A id \in Idents : Past(id) => Past(id)'  BY DEF Past
<1>2. \A id \in Idents : Current(id) => Current(id)' /\ host'.since = host.since
  BY DEF Current, Ident
<1>3. Onward  BY <1>1, <1>2 DEF Onward
<1>4. KnownPackets \subseteq KnownPackets'  BY <1>3, KnownGrows
<1>5. HeadMatches'  BY <1>4 DEF IInv, HeadMatches, HeaderMatches, Ident, Asked
<1>6. KeptIsRight'  BY DEF IInv, KeptIsRight
<1>7. Running'  BY DEF IInv, Running
<1> QED  BY <1>3, <1>5, <1>6, <1>7

LEMMA InputResetStep == ASSUME IInv, InputReset PROVE IInv'
<1>1. /\ UNCHANGED <<queue, dev, wire, cdc, fifo, endpoint, board, served>>
      /\ host.pc = "opened" /\ host' = [host EXCEPT !.pc = "ready"]
  BY DEF InputReset
<1>2. host \in HostRecords /\ host.since <= served  BY <1>1 DEF IInv, Types, Running
<1> HIDE DEF Replies
<1>3. /\ host' \in HostRecords /\ host'.pc = "ready" /\ host'.since = host.since
      /\ host'.got = host.got /\ host'.kept = host.kept /\ host'.session = host.session
      /\ host'.job = host.job /\ host'.state = host.state
  BY ONLY <1>1, <1>2 DEF HostRecords
<1>4. Onward /\ HeadMatches' /\ KeptIsRight' /\ Running'
  BY ONLY <1>1, <1>2, <1>3, IInv, PcMoves
<1> QED  BY ONLY <1>1, <1>3, <1>4, IInv, HostMoves

LEMMA RequestStep == ASSUME IInv, Request PROVE IInv'
<1>1. /\ UNCHANGED <<queue, dev, wire, cdc, fifo, endpoint, board, served>>
      /\ host.pc = "ready"
      /\ host' = [host EXCEPT !.pc = "waiting", !.written = 0, !.since = served]
  BY DEF Request
<1>2. host \in HostRecords /\ served \in Nat  BY DEF IInv, Types
<1>3. /\ host' \in HostRecords /\ host'.pc = "waiting" /\ host'.since = served
      /\ host'.got = host.got /\ host'.kept = host.kept /\ host'.session = host.session
      /\ host'.job = host.job /\ host'.state = host.state
  BY ONLY <1>1, <1>2 DEF HostRecords
<1>4. host'.since <= served  BY ONLY <1>2, <1>3
<1>5. Onward /\ HeadMatches' /\ KeptIsRight' /\ Running'
  BY ONLY <1>1, <1>3, <1>4, IInv, PcMoves
<1> QED  BY ONLY <1>1, <1>3, <1>5, IInv, HostMoves

\* The bytes written are of the request that waits.
LEMMA WriteResult ==
  ASSUME IInv, Write
  PROVE  /\ UNCHANGED <<dev, wire, cdc, fifo, endpoint, board, served>> /\ host.pc = "waiting"
         /\ host' \in HostRecords /\ host'.pc = "waiting" /\ host'.since = host.since
         /\ host'.got = host.got /\ host'.kept = host.kept /\ host'.session = host.session
         /\ host'.job = host.job /\ host'.state = host.state
         /\ \E t \in Seq(KnownItems') :
              /\ queue' = queue \o t
              /\ \A i \in 1 .. Len(t) : t[i].kind = "BYTE" /\ t[i].byte.ident = Ident
<1>1. PICK n \in host.written + 1 .. Frame :
        /\ host' = [host EXCEPT !.written = n]
        /\ queue' = queue \o [i \in 1 .. n - host.written |-> ByteItem(RequestBytes[host.written + i])]
  BY DEF Write
<1>2. UNCHANGED <<dev, wire, cdc, fifo, endpoint, board, served>> /\ host.pc = "waiting"
  BY DEF Write
<1>3. host \in HostRecords /\ n \in Nat /\ host.written \in Nat /\ n - host.written \in Nat
  <2>1. host \in HostRecords  BY DEF IInv, Types
  <2>2. host.written \in Nat /\ Frame \in Nat  BY <2>1, UsbAssumption DEF HostRecords
  <2>3. PICK w \in Nat : w = host.written  BY <2>2
  <2>4. n \in w + 1 .. Frame  BY <2>3
  <2>5. n \in Nat /\ n - w \in Nat  BY ONLY <2>2, <2>4, w \in Nat
  <2> QED  BY ONLY <2>1, <2>2, <2>3, <2>5
<1>4. /\ host' \in HostRecords /\ host'.pc = "waiting" /\ host'.since = host.since
      /\ host'.got = host.got /\ host'.kept = host.kept /\ host'.session = host.session
      /\ host'.job = host.job /\ host'.state = host.state
  BY ONLY <1>1, <1>2, <1>3 DEF HostRecords
<1>5. Ident \in Idents /\ Asked \in Asks /\ Current(Ident)'
  <2>1. Ident \in Idents  BY <1>3 DEF Ident, Idents, HostRecords
  <2>2. Len(host.kept) + 1 \in 1 .. Len(Script(host.job)) /\ Script(host.job) \in Seq(Asks)
    <3>1. Len(host.kept) \in Nat /\ Len(host.kept) < Len(Script(host.job))
      BY <1>2, <1>3 DEF IInv, Running, HostRecords
    <3>2. Script(host.job) \in Seq(Asks)  BY <1>3, ScriptResult DEF HostRecords
    <3> HIDE DEF Asks
    <3> QED  BY ONLY <3>1, <3>2
  <2>3. Asked \in Asks  BY ONLY <2>2, ElementOfSeq DEF Asked
  <2>4. Current(Ident)'  BY <1>4 DEF Current, Ident
  <2> QED  BY <2>1, <2>3, <2>4
<1>6. ASSUME NEW k \in 1 .. Frame
      PROVE  /\ ByteItem(RequestBytes[k]) \in KnownItems'
             /\ ByteItem(RequestBytes[k]).kind = "BYTE"
             /\ ByteItem(RequestBytes[k]).byte.ident = Ident
  <2>1. RequestBytes[k] = [ident |-> Ident, asks |-> Asked, pos |-> k] /\ k \in Nat
    BY UsbAssumption DEF RequestBytes
  <2>2. Ident' = Ident  BY <1>4 DEF Ident
  <2>3. RequestBytes[k] \in KnownBytes'
    <3> HIDE DEF Past, Current, Ident, Asked
    <3> QED  BY <1>5, <2>1, <2>2 DEF KnownBytes
  <2>4. RequestBytes[k].ident = Ident  BY ONLY <2>1
  <2> QED  BY ONLY <2>3, <2>4 DEF ByteItem, KnownItems
<1> DEFINE written == [i \in 1 .. n - host.written |-> ByteItem(RequestBytes[host.written + i])]
<1>7. \A i \in 1 .. n - host.written :
        /\ written[i] \in KnownItems'
        /\ written[i].kind = "BYTE" /\ written[i].byte.ident = Ident
  <2>1. \A i \in 1 .. n - host.written : host.written + i \in 1 .. Frame
    BY <1>3, UsbAssumption
  <2>2. \A i \in 1 .. n - host.written : written[i] = ByteItem(RequestBytes[host.written + i])
    BY DEF written
  <2> HIDE DEF written
  <2> QED  BY ONLY <1>6, <2>1, <2>2
<1>8. written = [i \in 1 .. n - host.written |-> written[i]]  BY DEF written
<1>9. queue' = queue \o written  BY ONLY <1>1 DEF written
<1> HIDE DEF written
<1>10. written \in Seq(KnownItems') /\ Len(written) = n - host.written
  <2>1. written \in [1 .. n - host.written -> KnownItems']  BY ONLY <1>7, <1>8
  <2>2. PICK m \in Nat : m = n - host.written  BY <1>3
  <2>3. PICK f \in [1 .. m -> KnownItems'] : f = written  BY <2>1, <2>2
  <2> QED  BY ONLY <2>2, <2>3, FunctionIsSeq
<1> QED  BY ONLY <1>2, <1>4, <1>7, <1>9, <1>10

LEMMA WriteStep == ASSUME IInv, Write PROVE IInv'
<1>1. /\ UNCHANGED <<dev, wire, cdc, fifo, endpoint, board, served>> /\ host.pc = "waiting"
      /\ host' \in HostRecords /\ host'.pc = "waiting" /\ host'.since = host.since
      /\ host'.got = host.got /\ host'.kept = host.kept /\ host'.session = host.session
      /\ host'.job = host.job /\ host'.state = host.state
  BY WriteResult
<1>2. PICK t \in Seq(KnownItems') : queue' = queue \o t  BY WriteResult
<1>3. host.since <= served  BY <1>1 DEF IInv, Running
<1>4. Onward /\ HeadMatches' /\ KeptIsRight' /\ Running'
  BY ONLY <1>1, <1>3, IInv, PcMoves
<1>5. /\ queue \in Seq(KnownItems') /\ cdc \in Seq(KnownBytes')
      /\ wire \in [rx : Seq(KnownBytes'), tx : Seq(KnownPackets')]
      /\ fifo \in Seq(KnownPackets') /\ endpoint \in Seq(KnownPackets')
  BY ONLY <1>4, IInv, StillKnown DEF IInv
<1>6. queue' \in Seq(KnownItems')  BY ONLY <1>2, <1>5, ConcatProperties
<1>7. OnlyKnown'  BY ONLY <1>1, <1>5, <1>6 DEF OnlyKnown
<1>8. Types'  BY ONLY <1>1, IInv DEF IInv, Types
<1> QED  BY ONLY <1>4, <1>7, <1>8 DEF IInv

\* A reply whose head matched is the answer: later than the request, and of this
\* run of the board.
LEMMA HeadResult ==
  ASSUME IInv, host.got # <<>>, NEW p \in KnownPackets, p = [host.got[1] EXCEPT !.part = 2]
  PROVE  /\ host.pc = "waiting" /\ p.reply \in Replies
         /\ p.reply.ident = Ident /\ p.reply.asks = Asked
         /\ p.reply.at > host.since /\ p.reply.boot = board.boot
<1>1. host.pc = "waiting" /\ host.got[1] \in KnownPackets /\ HeaderMatches(host.got[1])
  BY DEF IInv, HeadMatches
<1>2. p.reply = host.got[1].reply /\ p.reply \in KnownReplies
  BY ONLY <1>1, p \in KnownPackets, p = [host.got[1] EXCEPT !.part = 2] DEF KnownPackets
<1>3. p.reply.ident = Ident /\ p.reply.asks = Asked
  BY ONLY <1>1, <1>2 DEF HeaderMatches
<1>4. ~Past(Ident)
  <2>1. host.session \in Nat /\ Len(host.kept) \in Nat  BY DEF IInv, Types, HostRecords
  <2> QED  BY ONLY <1>1, <2>1 DEF Past, Ident
<1>5. /\ p.reply \in Replies
      /\ Past(p.reply.ident) \/ (p.reply.at > host.since /\ p.reply.boot = board.boot)
  BY ONLY <1>2 DEF KnownReplies
<1>6. ~Past(p.reply.ident)  BY ONLY <1>3, <1>4
<1> QED  BY ONLY <1>1, <1>3, <1>5, <1>6

\* The answer is kept, and the tool goes on, ends well or gives up.
LEMMA KeepsAnswer ==
  ASSUME IInv, UNCHANGED <<board, served>>, host.pc = "waiting", NEW reply \in Replies,
         reply.asks = Asked, reply.at > host.since, reply.boot = board.boot,
         host' \in HostRecords,
         host'.kept = Append(host.kept, [since |-> host.since, reply |-> reply]),
         host'.got = <<>>, host'.session = host.session, host'.job = host.job,
         host'.since = host.since,
         \/ /\ host'.pc = "ready" /\ host'.state = host.state
            /\ Len(host'.kept) < Len(Script(host.job))
         \/ /\ host'.pc = "closed"
            /\ host'.state \in {"CAPTURED", "DOWNLOADED"} => Len(host'.kept) = Len(Script(host.job))
  PROVE  Onward /\ HeadMatches' /\ KeptIsRight' /\ Running'
<1> DEFINE entry == [since |-> host.since, reply |-> reply]
<1>1. /\ host.kept \in Seq([since : Nat, reply : Replies]) /\ host.session \in Nat
      /\ host.since \in Nat /\ Len(host.kept) \in Nat
  BY DEF IInv, Types, HostRecords
<1>2. entry.since = host.since /\ entry.reply = reply  OBVIOUS
<1>3. /\ Len(host'.kept) = Len(host.kept) + 1
      /\ \A i \in 1 .. Len(host.kept) : host'.kept[i] = host.kept[i]
      /\ host'.kept[Len(host.kept) + 1] = entry
  BY ONLY <1>1, host'.kept = Append(host.kept, entry)
<1> HIDE DEF entry
<1>4. Onward
  <2>1. \A id \in Idents : Past(id) => Past(id)'
    BY <1>1, <1>3 DEF Past, Idents
  <2>2. \A id \in Idents : Current(id) => Past(id)'
    BY <1>1, <1>3 DEF Past, Current, Ident
  <2> QED  BY ONLY <2>1, <2>2 DEF Onward
<1>5. HeadMatches'  BY DEF HeadMatches
<1>6. KeptIsRight'
  <2>1. ASSUME NEW i \in 1 .. Len(host'.kept)
        PROVE  /\ host'.kept[i].reply.at > host'.kept[i].since
               /\ host'.kept[i].reply.asks = Script(host.job)[i]
               /\ host'.kept[i].reply.boot = board.boot
    <3>1. CASE i \in 1 .. Len(host.kept)
      BY <1>3, <3>1 DEF IInv, KeptIsRight
    <3>2. CASE i = Len(host.kept) + 1
      <4>1. host'.kept[i] = entry /\ Asked = Script(host.job)[i]
        BY ONLY <1>3, <3>2 DEF Asked
      <4> QED  BY <1>2, <4>1
    <3>3. i \in 1 .. Len(host.kept) \/ i = Len(host.kept) + 1
      BY ONLY <1>1, <1>3, i \in 1 .. Len(host'.kept)
    <3> QED  BY ONLY <3>1, <3>2, <3>3
  <2>2. 1 \in 1 .. Len(host'.kept)  BY ONLY <1>1, <1>3
  <2>3. host'.kept[1].reply.boot = board.boot  BY ONLY <2>1, <2>2
  <2> QED  BY ONLY <2>1, <2>3, UNCHANGED board, host'.job = host.job DEF KeptIsRight
<1>7. Running'
  <2>1. host.session > 0 /\ host.state = "STARTED" /\ host.since <= served
    BY DEF IInv, Running
  <2> QED  BY <2>1 DEF Running
<1> QED  BY <1>4, <1>5, <1>6, <1>7

LEMMA AcceptResult ==
  ASSUME IInv, host.pc = "waiting", NEW reply \in Replies, Accept(reply)
  PROVE  /\ host' \in HostRecords
         /\ host'.kept = Append(host.kept, [since |-> host.since, reply |-> reply])
         /\ host'.got = <<>> /\ host'.session = host.session /\ host'.job = host.job
         /\ host'.since = host.since
         /\ \/ /\ host'.pc = "ready" /\ host'.state = host.state
               /\ Len(host'.kept) < Len(Script(host.job))
            \/ /\ host'.pc = "closed"
               /\ host'.state \in {"CAPTURED", "DOWNLOADED"} =>
                    Len(host'.kept) = Len(Script(host.job))
         /\ (queue' = Append(queue, DtrItem(0)) /\ host'.pc = "closed") \/ UNCHANGED queue
<1> DEFINE kept == Append(host.kept, [since |-> host.since, reply |-> reply])
           more == [host EXCEPT !.pc = "ready", !.got = <<>>, !.kept = kept]
<1>1. host \in HostRecords /\ Len(host.kept) < Len(Script(host.job))
  BY DEF IInv, Types, Running
<1>2. kept \in Seq([since : Nat, reply : Replies]) /\ Len(kept) = Len(host.kept) + 1
  <2>1. host.kept \in Seq([since : Nat, reply : Replies]) /\ host.since \in Nat
    BY ONLY <1>1 DEF HostRecords
  <2>2. [since |-> host.since, reply |-> reply] \in [since : Nat, reply : Replies]
    BY ONLY <2>1, reply \in Replies
  <2> QED  BY ONLY <2>1, <2>2 DEF kept
<1>n. Len(kept) \in Nat /\ Len(Script(host.job)) \in Nat
  BY <1>1, <1>2, ScriptResult DEF HostRecords
<1>3. Len(kept) < Len(Script(host.job)) \/ Len(kept) = Len(Script(host.job))
  <2>1. Len(Script(host.job)) \in Nat /\ Len(host.kept) \in Nat
    BY <1>1, ScriptResult DEF HostRecords
  <2> QED  BY ONLY <1>1, <1>2, <2>1
<1> HIDE DEF kept
<1>4. <<>> \in Seq([reply : Replies, part : 1 .. 2])  OBVIOUS
<1>5. /\ more \in HostRecords /\ more.kept = kept /\ more.got = <<>> /\ more.pc = "ready"
      /\ more.session = host.session /\ more.job = host.job /\ more.since = host.since
      /\ more.state = host.state
  <2> HIDE DEF Replies
  <2> QED  BY ONLY <1>1, <1>2, <1>4 DEF HostRecords, more
<1>6. \/ host' = more /\ Len(kept) < Len(Script(host.job)) /\ UNCHANGED queue
      \/ /\ ~(Len(kept) < Len(Script(host.job)))
         /\ \E last \in {"CAPTURED", "DOWNLOADED"} :
              Close([more EXCEPT !.pc = "closed", !.state = last])
      \/ Close(Failed(more))
  <2> DEFINE state == IF host.job = "capture" THEN "CAPTURED" ELSE "DOWNLOADED"
  <2>1. state \in {"CAPTURED", "DOWNLOADED"}  OBVIOUS
  <2>2. /\ ~(Len(kept) >= Len(Script(host.job))) => Len(kept) < Len(Script(host.job))
        /\ (Len(kept) >= Len(Script(host.job)) => ~(Len(kept) < Len(Script(host.job))))
    BY ONLY <1>3, <1>n
  <2>3. \/ ~(Len(kept) >= Len(Script(host.job))) /\ host' = more /\ UNCHANGED queue
        \/ /\ Len(kept) >= Len(Script(host.job))
           /\ Close([more EXCEPT !.pc = "closed", !.state = state])
        \/ Close(Failed(more))
    BY ONLY Accept(reply) DEF Accept, kept, more, state
  <2> HIDE DEF state, more
  <2> QED  BY ONLY <2>1, <2>2, <2>3
<1> HIDE DEF more
<1>7. CASE host' = more /\ Len(kept) < Len(Script(host.job)) /\ UNCHANGED queue
  BY ONLY <1>5, <1>7 DEF kept
<1>8. CASE /\ ~(Len(kept) < Len(Script(host.job)))
           /\ \E last \in {"CAPTURED", "DOWNLOADED"} :
                Close([more EXCEPT !.pc = "closed", !.state = last])
  <2>1. PICK last \in {"CAPTURED", "DOWNLOADED"} :
          host' = [more EXCEPT !.pc = "closed", !.state = last]
    BY <1>8 DEF Close
  <2>2. queue' = Append(queue, DtrItem(0)) \/ UNCHANGED queue  BY <1>8 DEF Close
  <2>3. /\ host' \in HostRecords /\ host'.kept = kept /\ host'.got = <<>> /\ host'.pc = "closed"
        /\ host'.session = host.session /\ host'.job = host.job /\ host'.since = host.since
    <3> HIDE DEF Replies
    <3> QED  BY ONLY <1>5, <2>1 DEF HostRecords
  <2>4. Len(kept) = Len(Script(host.job))  BY ONLY <1>3, <1>8
  <2> QED  BY ONLY <2>2, <2>3, <2>4 DEF kept
<1>9. CASE Close(Failed(more))
  <2>1. host' = Failed(more) /\ (queue' = Append(queue, DtrItem(0)) \/ UNCHANGED queue)
    BY ONLY <1>9 DEF Close
  <2>2. /\ host' \in HostRecords /\ host'.kept = kept /\ host'.got = <<>> /\ host'.pc = "closed"
        /\ host'.session = host.session /\ host'.job = host.job /\ host'.since = host.since
        /\ host'.state \in {"PARTIAL", "CONNECTION_FAILED"}
    BY ONLY <1>5, <2>1, FailedIs
  <2> QED  BY ONLY <2>1, <2>2 DEF kept
<1> QED  BY ONLY <1>6, <1>7, <1>8, <1>9

LEMMA ReceiveStep == ASSUME IInv, Receive PROVE IInv'
<1> DEFINE p == endpoint[1]
<1>1. /\ UNCHANGED <<dev, wire, cdc, fifo, board, served>> /\ endpoint' = <<>>
      /\ host.pc = "waiting" /\ endpoint # <<>>
  BY DEF Receive
<1>2. \/ host.got = <<>> /\ HeaderMatches(p) /\ host' = [host EXCEPT !.got = <<p>>] /\ UNCHANGED queue
      \/ host.got # <<>> /\ p = [host.got[1] EXCEPT !.part = 2] /\ Accept(p.reply)
      \/ Fail
  BY DEF Receive
<1>3. p \in KnownPackets
  <2>1. endpoint \in Seq(KnownPackets)  BY DEF IInv, OnlyKnown
  <2> QED  BY ONLY <1>1, <2>1
<1> HIDE DEF p
<1>4. CASE host.got = <<>> /\ HeaderMatches(p) /\ host' = [host EXCEPT !.got = <<p>>] /\ UNCHANGED queue
  <2>1. host \in HostRecords /\ host.since <= served  BY <1>1 DEF IInv, Types, Running
  <2>2. p \in [reply : Replies, part : 1 .. 2]
    <3>1. KnownReplies \subseteq Replies  BY DEF KnownReplies
    <3> QED  BY ONLY <1>3, <3>1 DEF KnownPackets
  <2>3. <<p>> \in Seq([reply : Replies, part : 1 .. 2])  BY ONLY <2>2
  <2> HIDE DEF Replies
  <2>4. /\ host' \in HostRecords /\ host'.pc = host.pc /\ host'.since = host.since
        /\ host'.got = <<p>> /\ host'.kept = host.kept /\ host'.session = host.session
        /\ host'.job = host.job /\ host'.state = host.state
    BY ONLY <1>4, <2>1, <2>3 DEF HostRecords
  <2>5. \A id \in Idents : Past(id) => Past(id)'  BY <2>4 DEF Past
  <2>6. \A id \in Idents : Current(id) => Current(id)'  BY <2>4 DEF Current, Ident
  <2>7. Onward  BY <1>1, <2>4, <2>5, <2>6 DEF Onward
  <2>8. p \in KnownPackets'  BY <1>3, <2>7, KnownGrows
  <2>9. HeadMatches'
    <3>1. host'.got[1] = p /\ host'.pc = "waiting"  BY ONLY <1>1, <2>4
    <3>2. Ident' = Ident /\ Asked' = Asked  BY ONLY <2>4 DEF Ident, Asked
    <3>3. p.part = 1 /\ p.reply.ident = Ident /\ p.reply.asks = Asked
      BY ONLY <1>4 DEF HeaderMatches
    <3> QED  BY ONLY <2>8, <3>1, <3>2, <3>3 DEF HeadMatches, HeaderMatches
  <2>10. KeptIsRight'  BY <1>1, <2>4 DEF IInv, KeptIsRight
  <2>11. Running'  BY <1>1, <2>4 DEF IInv, Running
  <2> QED  BY ONLY <1>1, <1>4, <2>4, <2>7, <2>9, <2>10, <2>11, IInv, HostMoves
<1>5. CASE host.got # <<>> /\ p = [host.got[1] EXCEPT !.part = 2] /\ Accept(p.reply)
  <2>1. /\ p.reply \in Replies /\ p.reply.asks = Asked
        /\ p.reply.at > host.since /\ p.reply.boot = board.boot
    BY ONLY <1>3, <1>5, IInv, HeadResult
  <2>2. /\ host' \in HostRecords
        /\ host'.kept = Append(host.kept, [since |-> host.since, reply |-> p.reply])
        /\ host'.got = <<>> /\ host'.session = host.session /\ host'.job = host.job
        /\ host'.since = host.since
        /\ \/ /\ host'.pc = "ready" /\ host'.state = host.state
              /\ Len(host'.kept) < Len(Script(host.job))
           \/ /\ host'.pc = "closed"
              /\ host'.state \in {"CAPTURED", "DOWNLOADED"} =>
                   Len(host'.kept) = Len(Script(host.job))
        /\ (queue' = Append(queue, DtrItem(0)) /\ host'.pc = "closed") \/ UNCHANGED queue
    BY ONLY <1>1, <1>5, <2>1, IInv, AcceptResult
  <2>3. Onward /\ HeadMatches' /\ KeptIsRight' /\ Running'
    BY ONLY <1>1, <2>1, <2>2, IInv, KeepsAnswer
  <2>4. UNCHANGED queue \/ \E session \in Nat : queue' = Append(queue, DtrItem(session))
    BY <2>2
  <2> QED  BY ONLY <1>1, <2>2, <2>3, <2>4, IInv, HostMoves
<1>6. CASE Fail
  <2>1. host' = Failed(host) /\ (queue' = Append(queue, DtrItem(0)) \/ UNCHANGED queue)
    BY ONLY <1>6 DEF Fail, Close
  <2>2. host' \in HostRecords /\ Onward /\ HeadMatches' /\ KeptIsRight' /\ Running'
    BY ONLY <2>1, IInv, HostFails
  <2>3. UNCHANGED queue \/ \E session \in Nat : queue' = Append(queue, DtrItem(session))
    BY <2>1
  <2> QED  BY ONLY <1>1, <2>2, <2>3, IInv, HostMoves
<1> QED  BY ONLY <1>2, <1>4, <1>5, <1>6

-----------------------------------------------------------------------------
LEMMA InitIInv == Init => IInv
<1> SUFFICES ASSUME Init PROVE IInv  OBVIOUS
<1>1. /\ host.pc = "closed" /\ host.got = <<>> /\ host.kept = <<>> /\ host.state = "NONE"
      /\ Len(host.kept) = 0
  BY DEF Init
<1>2. host \in HostRecords
  <2>1. <<>> \in Seq([reply : Replies, part : 1 .. 2])
        /\ <<>> \in Seq([since : Nat, reply : Replies])
    OBVIOUS
  <2> HIDE DEF Replies
  <2> QED  BY ONLY <2>1, Init DEF Init, HostRecords
<1>3. Types  BY <1>2, UsbAssumption DEF Init, Types, DevRecords, Started
<1>4. OnlyKnown  BY DEF Init, OnlyKnown, NoWire
<1>5. HeadMatches /\ KeptIsRight /\ Running  BY <1>1 DEF HeadMatches, KeptIsRight, Running
<1> QED  BY <1>3, <1>4, <1>5 DEF IInv

LEMMA StutterStep == ASSUME IInv, UNCHANGED vars PROVE IInv'
<1>1. /\ UNCHANGED <<host, queue, dev, wire, cdc, fifo, endpoint, board, served>>
  BY DEF vars
<1>2. host' \in HostRecords /\ Onward /\ HeadMatches' /\ KeptIsRight' /\ Running'
  BY <1>1, HostStands DEF IInv, Types
<1> QED  BY ONLY <1>1, <1>2, IInv, HostMoves

LEMMA IInvStep == IInv /\ [Next]_vars => IInv'
<1> SUFFICES ASSUME IInv, [Next]_vars PROVE IInv'  OBVIOUS
<1>1. CASE Host
  BY <1>1, OpenStep, DiscardStep, InputResetStep, RequestStep, WriteStep, ReceiveStep, DeadlineStep
     DEF Host
<1>2. CASE Task
  BY <1>2, TaskDetachStep, PowerStep, TaskEventStep, TaskSentStep, TaskTickStep, TaskFeedStep,
     TaskWriteStep DEF Task
<1>3. CASE Line
  BY <1>3, BusResetStep, UnplugStep, PlugStep, PowerStep, BoardResetStep, NoiseStep DEF Line
<1>4. CASE UNCHANGED vars  BY <1>4, StutterStep
<1> QED  BY <1>1, <1>2, <1>3, <1>4 DEF Next

LEMMA Inductive == Spec => []IInv
  BY InitIInv, IInvStep, PTL DEF Spec

\* Client.request: whatever earlier sessions, noise or a reset left on its way,
\* what the tool keeps answers its own request, computed after it asked.
THEOREM FreshAnswers == Spec => []AnswersAreFresh
<1>1. IInv => AnswersAreFresh
  <2> SUFFICES ASSUME IInv PROVE AnswersAreFresh  OBVIOUS
  <2>1. DOMAIN host.kept = 1 .. Len(host.kept)  BY DEF IInv, Types, HostRecords
  <2> QED  BY ONLY <2>1, IInv DEF IInv, KeptIsRight, AnswersAreFresh
<1> QED  BY <1>1, Inductive, PTL

\* capture, dump: what ends well is complete and of one run of the board, a reset
\* at any moment included.
THEOREM OneRun == Spec => []OneBoot
<1>1. IInv => OneBoot
  <2> SUFFICES ASSUME IInv PROVE OneBoot  OBVIOUS
  <2>1. DOMAIN host.kept = 1 .. Len(host.kept)  BY DEF IInv, Types, HostRecords
  <2> QED  BY ONLY <2>1, IInv DEF IInv, KeptIsRight, Running, OneBoot
<1> QED  BY <1>1, Inductive, PTL

-----------------------------------------------------------------------------
(***************************************************************************)
(* The hand-over between sessions                                          *)
(***************************************************************************)
\* The session an item of the queue is of; a fall of DTR ends the one before it.
SessionOf(item) ==
  IF item.kind = "BYTE" THEN item.byte.ident[1] ELSE IF item.kind = "DTR" THEN item.session ELSE 0
IsFall(item) == item.kind = "DTR" /\ item.session = 0

\* A number that comes after every fall in the queue is of none of the sessions
\* that fall ends: neither of the one the board is in, nor of one before the fall.
After(i, session) ==
  /\ dev.dtr # 0 => session # dev.dtr
  /\ \A k \in 1 .. i - 1 : SessionOf(queue[k]) # 0 => session # SessionOf(queue[k])

Ordered ==
  \A i \in 1 .. Len(queue) :
    /\ SessionOf(queue[i]) <= host.session /\ SessionOf(queue[i]) \notin fallen
    /\ IsFall(queue[i]) =>
         /\ \A j \in i + 1 .. Len(queue) : After(i, SessionOf(queue[j]))
         /\ host.pc # "closed" => After(i, host.session)

Numbers ==
  /\ \A session \in fallen : session \in Nat /\ session # 0 /\ session <= host.session
  /\ dev.dtr <= host.session /\ dev.dtr \notin fallen
  /\ host.pc # "closed" => host.session \notin fallen

\* What TinyUSB and the protocol hold is of no session that fell.
CleanBytes == [ident : {id \in Idents : id[1] \notin fallen}, asks : Asks, pos : Nat]
CleanPackets == [reply : {r \in Replies : r.session \notin fallen}, part : 1 .. 2]
Clean ==
  /\ wire \in [rx : Seq(CleanBytes), tx : Seq(CleanPackets)]
  /\ cdc \in Seq(CleanBytes) /\ fifo \in Seq(CleanPackets)

HandInv == IInv /\ Numbers /\ Clean /\ Ordered

LEMMA ItemSession ==
  ASSUME IInv, NEW i \in 1 .. Len(queue)
  PROVE  queue[i] \in KnownItems /\ SessionOf(queue[i]) \in Nat
<1>1. queue[i] \in KnownItems  BY DEF IInv, OnlyKnown
<1>2. CASE queue[i].kind = "BYTE"
  <2>1. queue[i].byte.ident \in Idents  BY ONLY <1>1, <1>2 DEF KnownItems, KnownBytes
  <2> QED  BY ONLY <1>1, <1>2, <2>1 DEF SessionOf, Idents
<1>3. CASE queue[i].kind # "BYTE"
  BY ONLY <1>1, <1>3 DEF KnownItems, SessionOf
<1> QED  BY ONLY <1>1, <1>2, <1>3

\* A step that leaves the queue alone leaves its order alone, unless it opens
\* a session.
LEMMA SameQueue ==
  ASSUME HandInv, UNCHANGED <<queue, fallen>>, dev'.dtr = dev.dtr \/ dev'.dtr = 0,
         host'.session = host.session, host'.pc = "closed" \/ host.pc # "closed"
  PROVE  Numbers' /\ Ordered'
<1>1. Numbers'
  <2>1. host.session \in Nat /\ dev.dtr \in Nat  BY DEF HandInv, IInv, Types, HostRecords, DevRecords
  <2>2. 0 \notin fallen /\ 0 <= host.session  BY <2>1 DEF HandInv, Numbers
  <2> QED  BY <2>1, <2>2 DEF HandInv, Numbers
<1>2. Ordered'
  <2>1. ASSUME NEW i \in 1 .. Len(queue), NEW session, After(i, session)
        PROVE  After(i, session)'
    BY <2>1 DEF After
  <2> SUFFICES ASSUME NEW i \in 1 .. Len(queue)
      PROVE  /\ SessionOf(queue[i]) <= host.session /\ SessionOf(queue[i]) \notin fallen
             /\ IsFall(queue[i]) =>
                  /\ \A j \in i + 1 .. Len(queue) : After(i, SessionOf(queue[j]))'
                  /\ host'.pc # "closed" => After(i, host.session)'
    BY DEF Ordered
  <2> QED  BY <2>1 DEF HandInv, Ordered
<1> QED  BY <1>1, <1>2

\* What is put at the end of the queue while its session is up: bytes of it, of
\* no session, or a change of the line.
LEMMA QueueExtended ==
  ASSUME HandInv, dev'.dtr = dev.dtr, UNCHANGED fallen, NEW c \in Nat, NEW t \in Seq(KnownItems'),
         queue' = queue \o t, IInv',
         \A i \in 1 .. Len(t) : SessionOf(t[i]) = c,
         c <= host'.session, c \notin fallen,
         \A i \in 1 .. Len(queue) : IsFall(queue[i]) => c = 0 \/ After(i, c),
         \/ host'.session = host.session /\ (host'.pc = "closed" \/ host.pc # "closed")
         \/ host'.session = host.session + 1,
         host'.pc = "closed" \/ \A i \in 1 .. Len(t) : ~IsFall(t[i])
  PROVE  Numbers' /\ Ordered'
<1>1. /\ host.session \in Nat /\ host'.session \in Nat /\ dev.dtr \in Nat
      /\ Len(queue) \in Nat /\ Len(t) \in Nat
  <2>1. host.session \in Nat /\ dev.dtr \in Nat
    BY DEF HandInv, IInv, Types, HostRecords, DevRecords
  <2>2. host'.session \in Nat  BY ONLY IInv' DEF IInv, Types, HostRecords
  <2>3. queue \in Seq(KnownItems)  BY DEF HandInv, IInv, OnlyKnown
  <2>4. Len(queue) \in Nat  BY ONLY <2>3
  <2>5. Len(t) \in Nat  BY ONLY t \in Seq(KnownItems')
  <2> QED  BY ONLY <2>1, <2>2, <2>4, <2>5
<1>2. /\ Len(queue') = Len(queue) + Len(t)
      /\ \A i \in 1 .. Len(queue) : queue'[i] = queue[i]
      /\ \A i \in Len(queue) + 1 .. Len(queue) + Len(t) :
           i - Len(queue) \in 1 .. Len(t) /\ queue'[i] = t[i - Len(queue)]
  <2>1. queue \in Seq(KnownItems)  BY DEF HandInv, IInv, OnlyKnown
  <2>2. /\ Len(queue \o t) = Len(queue) + Len(t)
        /\ \A i \in 1 .. Len(queue) + Len(t) :
             (queue \o t)[i] = IF i <= Len(queue) THEN queue[i] ELSE t[i - Len(queue)]
    BY ONLY <2>1, t \in Seq(KnownItems')
  <2>3. \A i \in 1 .. Len(queue) : i \in 1 .. Len(queue) + Len(t) /\ i <= Len(queue)
    BY ONLY <1>1
  <2>4. \A i \in Len(queue) + 1 .. Len(queue) + Len(t) :
          i - Len(queue) \in 1 .. Len(t) /\ i \in 1 .. Len(queue) + Len(t) /\ ~(i <= Len(queue))
    BY ONLY <1>1
  <2> QED  BY ONLY <2>2, <2>3, <2>4, queue' = queue \o t
<1>3. \A i \in 1 .. Len(queue') :
        i \in 1 .. Len(queue) \/ (i \in Len(queue) + 1 .. Len(queue) + Len(t) /\ i \notin 1 .. Len(queue))
  BY ONLY <1>1, <1>2
<1>4. Numbers'
  <2>1. host.session + 1 \notin fallen  BY <1>1 DEF HandInv, Numbers
  <2> QED  BY <1>1, <2>1 DEF HandInv, Numbers
<1>5. ASSUME NEW i \in 1 .. Len(queue), NEW session \in Nat, After(i, session)
      PROVE  After(i, session)'
  <2>1. \A k \in 1 .. i - 1 : queue'[k] = queue[k]  BY <1>1, <1>2
  <2> QED  BY <1>5, <2>1 DEF After
<1>6. ASSUME NEW i \in 1 .. Len(queue), IsFall(queue[i]), NEW session \in Nat, session > host.session
      PROVE  After(i, session)
  <2>1. \A k \in 1 .. i - 1 : SessionOf(queue[k]) <= host.session /\ SessionOf(queue[k]) \in Nat
    <3>1. \A k \in 1 .. i - 1 : k \in 1 .. Len(queue)  BY <1>1
    <3> QED  BY <3>1, ItemSession DEF HandInv, Ordered
  <2>2. dev.dtr <= host.session  BY DEF HandInv, Numbers
  <2> QED  BY <1>1, <1>6, <2>1, <2>2 DEF After
<1>7. ASSUME NEW i \in 1 .. Len(queue), IsFall(queue[i])
      PROVE  /\ \A j \in i + 1 .. Len(queue') : After(i, SessionOf(queue[j]))'
             /\ host'.pc # "closed" => After(i, host.session)'
  <2>1. ASSUME NEW j \in i + 1 .. Len(queue') PROVE After(i, SessionOf(queue[j]))'
    <3>1. CASE j \in 1 .. Len(queue)
      <4>1. queue'[j] = queue[j] /\ j \in i + 1 .. Len(queue)  BY <1>1, <1>2, <3>1
      <4>2. After(i, SessionOf(queue[j]))  BY <1>7, <4>1 DEF HandInv, Ordered
      <4>3. SessionOf(queue[j]) \in Nat  BY <3>1, ItemSession DEF HandInv
      <4> QED  BY <1>1, <1>2, <4>1, <4>2, <4>3 DEF After
    <3>2. CASE j \in Len(queue) + 1 .. Len(queue) + Len(t)
      <4>1. SessionOf(queue'[j]) = c  BY <1>2, <3>2
      <4>2. CASE c = 0
        BY <4>1, <4>2 DEF After
      <4>3. CASE After(i, c)
        BY <1>1, <1>2, <4>1, <4>3 DEF After
      <4> QED  BY <1>7, <4>2, <4>3
    <3> QED  BY <1>1, <1>2, <3>1, <3>2
  <2>2. ASSUME host'.pc # "closed" PROVE After(i, host.session)'
    <3>1. CASE host'.session = host.session /\ host.pc # "closed"
      <4>1. After(i, host.session)  BY <1>7, <3>1 DEF HandInv, Ordered
      <4> QED  BY <1>1, <1>2, <3>1, <4>1 DEF After
    <3>2. CASE host'.session = host.session + 1
      <4>1. After(i, host.session + 1)  BY <1>1, <1>6, <1>7
      <4> QED  BY <1>1, <1>2, <3>2, <4>1 DEF After
    <3> QED  BY <2>2, <3>1, <3>2
  <2> QED  BY <2>1, <2>2
<1>8. Ordered'
  <2>1. ASSUME NEW i \in 1 .. Len(queue')
        PROVE  /\ SessionOf(queue'[i]) <= host'.session /\ SessionOf(queue'[i]) \notin fallen
               /\ IsFall(queue'[i]) =>
                    /\ \A j \in i + 1 .. Len(queue') : After(i, SessionOf(queue[j]))'
                    /\ host'.pc # "closed" => After(i, host.session)'
    <3>1. CASE i \in 1 .. Len(queue)
      <4>1. queue'[i] = queue[i] /\ SessionOf(queue[i]) \in Nat
        BY <1>2, <3>1, ItemSession DEF HandInv
      <4>2. SessionOf(queue[i]) <= host.session /\ SessionOf(queue[i]) \notin fallen
        BY <3>1 DEF HandInv, Ordered
      <4> QED  BY <1>1, <1>7, <3>1, <4>1, <4>2
    <3>2. CASE i \in Len(queue) + 1 .. Len(queue) + Len(t)
      <4>1. SessionOf(queue'[i]) = c /\ (IsFall(queue'[i]) => host'.pc = "closed")
        BY <1>2, <3>2
      <4>2. CASE c = 0
        <5>1. \A j \in i + 1 .. Len(queue') : SessionOf(queue'[j]) = 0
          BY <1>1, <1>2, <3>2, <4>2
        <5> QED  BY <4>1, <4>2, <5>1 DEF After
      <4>3. CASE c # 0
        <5>1. ~IsFall(queue'[i])
          BY <1>2, <3>2, <4>1, <4>3 DEF IsFall, SessionOf
        <5> QED  BY <4>1, <5>1
      <4> QED  BY <4>2, <4>3
    <3> QED  BY <1>3, <3>1, <3>2
  <2> QED  BY <2>1 DEF Ordered
<1> QED  BY <1>4, <1>8

\* The same for one item.
LEMMA OneItem ==
  ASSUME HandInv, dev'.dtr = dev.dtr, UNCHANGED fallen, NEW x \in KnownItems', SessionOf(x) \in Nat,
         queue' = Append(queue, x), IInv',
         SessionOf(x) <= host'.session, SessionOf(x) \notin fallen,
         \A i \in 1 .. Len(queue) : IsFall(queue[i]) => SessionOf(x) = 0 \/ After(i, SessionOf(x)),
         \/ host'.session = host.session /\ (host'.pc = "closed" \/ host.pc # "closed")
         \/ host'.session = host.session + 1,
         host'.pc = "closed" \/ ~IsFall(x)
  PROVE  Numbers' /\ Ordered'
<1>1. <<x>> \in Seq(KnownItems') /\ Len(<<x>>) = 1 /\ <<x>>[1] = x  OBVIOUS
<1>2. queue' = queue \o <<x>>
  <2>1. queue \in Seq(KnownItems)  BY DEF HandInv, IInv, OnlyKnown
  <2> QED  BY ONLY <2>1, queue' = Append(queue, x), AppendIsConcat
<1>3. \A i \in 1 .. Len(<<x>>) : <<x>>[i] = x  BY <1>1
<1>4. PICK c \in Nat : c = SessionOf(x)  OBVIOUS
<1>5. PICK t \in Seq(KnownItems') : t = <<x>>  BY <1>1
<1>6. \A i \in 1 .. Len(t) : SessionOf(t[i]) = c  BY <1>3, <1>4, <1>5
<1>7. host'.pc = "closed" \/ \A i \in 1 .. Len(t) : ~IsFall(t[i])  BY <1>3, <1>5
<1>8. queue' = queue \o t  BY <1>2, <1>5
<1> QED  BY <1>4, <1>6, <1>7, <1>8, QueueExtended

LEMMA CleanStays ==
  ASSUME Clean, UNCHANGED fallen,
         UNCHANGED <<wire, cdc, fifo>> \/ (wire' = NoWire /\ cdc' = <<>> /\ fifo' = <<>>)
  PROVE  Clean'
<1>1. CleanBytes' = CleanBytes /\ CleanPackets' = CleanPackets  BY DEF CleanBytes, CleanPackets
<1>2. CASE UNCHANGED <<wire, cdc, fifo>>  BY <1>1, <1>2 DEF Clean
<1>3. CASE wire' = NoWire /\ cdc' = <<>> /\ fifo' = <<>>  BY <1>1, <1>3 DEF Clean, NoWire
<1> QED  BY <1>2, <1>3

\* The board is off the bus, or starts again: nothing is left of any session.
LEMMA HandDetached ==
  ASSUME HandInv, IInv', TaskDetach \/ BoardReset
  PROVE  HandInv'
<1>1. /\ host' = PortLost(host) /\ wire' = NoWire /\ cdc' = <<>> /\ fifo' = <<>>
      /\ queue' = <<>> /\ UNCHANGED fallen
  BY DEF TaskDetach, BoardReset, Detached
<1>2. dev'.dtr = 0
  <2>1. dev \in DevRecords  BY DEF HandInv, IInv, Types
  <2>2. \A ready \in BOOLEAN : [Started(ready) EXCEPT !.vbus = dev.vbus].dtr = 0
    BY DEF Started
  <2> QED  BY <2>1, <2>2 DEF TaskDetach, BoardReset, DevRecords
<1>3. host'.session = host.session /\ host'.pc = "closed"
  <2>1. host \in HostRecords  BY DEF HandInv, IInv, Types
  <2> QED  BY ONLY <1>1, <2>1, FailedIs DEF PortLost
<1>4. Numbers'
  <2>1. host.session \in Nat  BY DEF HandInv, IInv, Types, HostRecords
  <2> QED  BY <1>1, <1>2, <1>3, <2>1 DEF HandInv, Numbers
<1>5. Ordered'  BY <1>1 DEF Ordered
<1>6. Clean'  BY <1>1, CleanStays DEF HandInv
<1> QED  BY <1>4, <1>5, <1>6 DEF HandInv

\* The steps that change neither the queue nor what TinyUSB and the protocol hold.
LEMMA HandQuiet ==
  ASSUME HandInv, IInv', UNCHANGED <<queue, fallen, wire, cdc, fifo>>,
         dev'.dtr = dev.dtr, host'.session = host.session,
         host'.pc = "closed" \/ host.pc # "closed"
  PROVE  HandInv'
<1>1. Numbers' /\ Ordered'  BY SameQueue
<1>2. Clean'  BY CleanStays DEF HandInv
<1> QED  BY <1>1, <1>2 DEF HandInv

LEMMA HandPower ==
  ASSUME HandInv, IInv', TaskAttach \/ TaskEnter \/ ClockLost \/ Unplug
  PROVE  HandInv'
<1>1. host \in HostRecords /\ dev \in DevRecords  BY DEF HandInv, IInv, Types
<1>2. UNCHANGED <<queue, fallen, wire, cdc, fifo>> /\ host' \in {host, PortLost(host)}
  BY DEF TaskAttach, TaskEnter, ClockLost, Unplug
<1>3. dev'.dtr = dev.dtr
  BY <1>1 DEF TaskAttach, TaskEnter, ClockLost, Unplug, DevRecords
<1>4. host'.session = host.session /\ (host'.pc = "closed" \/ host.pc # "closed")
  BY ONLY <1>1, <1>2, FailedIs DEF PortLost
<1> QED  BY ONLY <1>2, <1>3, <1>4, HandInv, IInv', HandQuiet

LEMMA HandHost ==
  ASSUME HandInv, IInv', Discard \/ InputReset \/ Request
  PROVE  HandInv'
<1>1. host \in HostRecords  BY DEF HandInv, IInv, Types
<1>2. UNCHANGED <<queue, dev, fallen, wire, cdc, fifo>> /\ host.pc # "closed"
  BY DEF Discard, InputReset, Request
<1>3. host'.session = host.session
  BY <1>1 DEF Discard, InputReset, Request, HostRecords
<1> QED  BY ONLY <1>2, <1>3, HandInv, IInv', HandQuiet

\* A fall of DTR, or a bus reset, at the end of the queue.
LEMMA HandFalls ==
  ASSUME HandInv, IInv', dev'.dtr = dev.dtr, UNCHANGED <<fallen, wire, cdc, fifo>>,
         \/ queue' = Append(queue, DtrItem(0)) /\ host'.pc = "closed"
         \/ queue' = Append(queue, ResetItem),
         host'.session = host.session, host'.pc = "closed" \/ host.pc # "closed"
  PROVE  HandInv'
<1>1. /\ DtrItem(0) \in KnownItems' /\ SessionOf(DtrItem(0)) = 0
      /\ ResetItem \in KnownItems' /\ SessionOf(ResetItem) = 0 /\ ~IsFall(ResetItem)
  BY DEF DtrItem, ResetItem, KnownItems, SessionOf, IsFall
<1>2. 0 <= host'.session /\ 0 \notin fallen
  <2>1. host'.session \in Nat  BY ONLY IInv' DEF IInv, Types, HostRecords
  <2> QED  BY <2>1 DEF HandInv, Numbers
<1>3. Numbers' /\ Ordered'
  <2>1. CASE queue' = Append(queue, DtrItem(0)) /\ host'.pc = "closed"
    <3>1. PICK x \in KnownItems' : x = DtrItem(0)  BY <1>1
    <3> QED  BY <1>1, <1>2, <2>1, <3>1, OneItem
  <2>2. CASE queue' = Append(queue, ResetItem)
    <3>1. PICK x \in KnownItems' : x = ResetItem  BY <1>1
    <3> QED  BY <1>1, <1>2, <2>2, <3>1, OneItem
  <2> QED  BY <2>1, <2>2
<1>4. Clean'  BY CleanStays DEF HandInv
<1> QED  BY <1>3, <1>4 DEF HandInv

LEMMA HandAnswers ==
  ASSUME HandInv, IInv', Receive \/ Deadline
  PROVE  HandInv'
<1>1. UNCHANGED <<dev, fallen, wire, cdc, fifo>> /\ host.pc = "waiting"
  BY DEF Receive, Deadline
<1>2. host \in HostRecords /\ IInv  BY DEF HandInv, IInv, Types
<1>3. /\ host'.session = host.session
      /\ (queue' = Append(queue, DtrItem(0)) /\ host'.pc = "closed") \/ UNCHANGED queue
  <2>1. CASE Fail
    <3>1. host' = Failed(host) /\ (queue' = Append(queue, DtrItem(0)) \/ UNCHANGED queue)
      BY ONLY <2>1 DEF Fail, Close
    <3> QED  BY ONLY <1>2, <3>1, FailedIs
  <2>2. CASE \E p \in KnownPackets : host' = [host EXCEPT !.got = <<p>>] /\ UNCHANGED queue
    BY ONLY <1>2, <2>2 DEF HostRecords
  <2>3. CASE \E reply \in Replies : Accept(reply)
    BY ONLY <1>1, <1>2, <2>3, AcceptResult
  <2>4. ASSUME Receive, ~Fail PROVE \/ \E p \in KnownPackets : host' = [host EXCEPT !.got = <<p>>] /\ UNCHANGED queue
                              \/ \E reply \in Replies : Accept(reply)
    <3> DEFINE p == endpoint[1]
    <3>1. \/ host' = [host EXCEPT !.got = <<p>>] /\ UNCHANGED queue
          \/ Accept(p.reply)
      BY <2>4 DEF Receive
    <3>2. p \in KnownPackets
      <4>1. endpoint \in Seq(KnownPackets)  BY <1>2 DEF IInv, OnlyKnown
      <4>2. endpoint # <<>>  BY <2>4 DEF Receive
      <4> QED  BY ONLY <4>1, <4>2 DEF p
    <3> HIDE DEF p
    <3>3. p.reply \in Replies
      <4>1. KnownReplies \subseteq Replies  BY DEF KnownReplies
      <4> QED  BY ONLY <3>2, <4>1 DEF KnownPackets
    <3> QED  BY ONLY <3>1, <3>2, <3>3
  <2>5. Deadline => Fail  BY DEF Deadline
  <2> QED  BY <2>1, <2>2, <2>3, <2>4, <2>5
<1>4. CASE UNCHANGED queue  BY ONLY <1>1, <1>3, <1>4, HandInv, IInv', HandQuiet
<1>5. CASE queue' = Append(queue, DtrItem(0)) /\ host'.pc = "closed"
  BY ONLY <1>1, <1>3, <1>5, HandInv, IInv', HandFalls
<1> QED  BY <1>3, <1>4, <1>5

LEMMA HandCable ==
  ASSUME HandInv, IInv', BusReset \/ Plug
  PROVE  HandInv'
<1>1. host \in HostRecords /\ dev \in DevRecords  BY DEF HandInv, IInv, Types
<1>2. CASE BusReset
  <2>1. UNCHANGED <<dev, fallen, wire, cdc, fifo>> /\ queue' = Append(queue, ResetItem)
        /\ host' = PortLost(host)
    BY <1>2 DEF BusReset
  <2>2. host'.session = host.session /\ (host'.pc = "closed" \/ host.pc # "closed")
    BY ONLY <1>1, <2>1, FailedIs DEF PortLost
  <2> QED  BY ONLY <2>1, <2>2, HandInv, IInv', HandFalls
<1>3. CASE Plug
  <2>1. /\ UNCHANGED <<host, fallen, wire, cdc, fifo>> /\ dev' = [dev EXCEPT !.vbus = TRUE]
        /\ queue' = Append(queue, ResetItem) \/ UNCHANGED queue
    BY <1>3 DEF Plug
  <2>2. dev'.dtr = dev.dtr  BY ONLY <1>1, <2>1 DEF DevRecords
  <2>3. CASE UNCHANGED queue  BY ONLY <2>1, <2>2, <2>3, HandInv, IInv', HandQuiet
  <2>4. CASE queue' = Append(queue, ResetItem)
    BY ONLY <2>1, <2>2, <2>4, HandInv, IInv', HandFalls
  <2> QED  BY <2>1, <2>3, <2>4
<1> QED  BY <1>2, <1>3

LEMMA HandNoise ==
  ASSUME HandInv, IInv', Noise
  PROVE  HandInv'
<1> DEFINE noise == ByteItem([ident |-> <<0, 0>>, asks |-> Snapshot, pos |-> 0])
<1>1. /\ UNCHANGED <<host, dev, fallen, wire, cdc, fifo>> /\ host.pc # "closed"
      /\ queue' = Append(queue, noise)
  BY DEF Noise
<1>2. SessionOf(noise) = 0 /\ ~IsFall(noise)  BY DEF ByteItem, SessionOf, IsFall
<1>3. noise \in KnownItems'
  <2>1. queue \in Seq(KnownItems) /\ queue' \in Seq(KnownItems')
    BY DEF HandInv, IInv, OnlyKnown
  <2> HIDE DEF noise
  <2>2. Len(queue') = Len(queue) + 1 /\ queue'[Len(queue) + 1] = noise /\ Len(queue) \in Nat
    BY ONLY <1>1, <2>1
  <2> QED  BY ONLY <2>1, <2>2
<1> HIDE DEF noise
<1>4. PICK x \in KnownItems' : x = noise  BY <1>3
<1>5. 0 <= host'.session /\ 0 \notin fallen
  <2>1. host'.session \in Nat  BY ONLY IInv' DEF IInv, Types, HostRecords
  <2> QED  BY <2>1 DEF HandInv, Numbers
<1>6. Numbers' /\ Ordered'  BY <1>1, <1>2, <1>4, <1>5, OneItem
<1>7. Clean'  BY <1>1, CleanStays DEF HandInv
<1> QED  BY <1>6, <1>7 DEF HandInv

LEMMA HandOpen ==
  ASSUME HandInv, IInv', Open
  PROVE  HandInv'
<1> DEFINE rise == DtrItem(host.session + 1)
<1>1. /\ UNCHANGED <<dev, fallen, wire, cdc, fifo>> /\ host'.session = host.session + 1
      /\ queue' = Append(queue, rise)
  BY DEF Open
<1>2. host.session \in Nat  BY DEF HandInv, IInv, Types, HostRecords
<1>3. rise \in KnownItems' /\ SessionOf(rise) = host.session + 1 /\ ~IsFall(rise)
  BY <1>2 DEF DtrItem, KnownItems, SessionOf, IsFall
<1> HIDE DEF rise
<1>4. PICK x \in KnownItems' : x = rise  BY <1>3
<1>5. SessionOf(x) = host.session + 1 /\ ~IsFall(x)  BY ONLY <1>3, <1>4
<1>6. host.session + 1 \notin fallen  BY <1>2 DEF HandInv, Numbers
<1>7. ASSUME NEW i \in 1 .. Len(queue) PROVE After(i, host.session + 1)
  <2>1. dev.dtr <= host.session /\ dev.dtr \in Nat
    BY DEF HandInv, Numbers, IInv, Types, DevRecords
  <2>2. \A k \in 1 .. Len(queue) : SessionOf(queue[k]) <= host.session /\ SessionOf(queue[k]) \in Nat
    BY ItemSession DEF HandInv, Ordered
  <2>3. \A k \in 1 .. i - 1 : k \in 1 .. Len(queue)
    <3>1. Len(queue) \in Nat  BY DEF HandInv, IInv, OnlyKnown
    <3> QED  BY ONLY <3>1, i \in 1 .. Len(queue)
  <2> QED  BY ONLY <1>2, <2>1, <2>2, <2>3 DEF After
<1>8. Numbers' /\ Ordered'
  <2>1. SessionOf(x) \in Nat /\ SessionOf(x) <= host'.session /\ SessionOf(x) \notin fallen
    BY ONLY <1>1, <1>2, <1>5, <1>6
  <2>2. \A i \in 1 .. Len(queue) : After(i, SessionOf(x))  BY ONLY <1>5, <1>7
  <2>3. queue' = Append(queue, x)  BY ONLY <1>1, <1>4
  <2> QED  BY ONLY <1>1, <1>5, <2>1, <2>2, <2>3, HandInv, IInv', OneItem
<1>9. Clean'  BY <1>1, CleanStays DEF HandInv
<1> QED  BY <1>8, <1>9 DEF HandInv

LEMMA HandWrite ==
  ASSUME HandInv, IInv', Write
  PROVE  HandInv'
<1>1. UNCHANGED <<dev, fallen, wire, cdc, fifo>>  BY DEF Write
<1>2. IInv  BY DEF HandInv
<1>3. host.pc = "waiting" /\ host'.session = host.session  BY ONLY <1>2, Write, WriteResult
<1>4. PICK t \in Seq(KnownItems') :
        /\ queue' = queue \o t
        /\ \A i \in 1 .. Len(t) : t[i].kind = "BYTE" /\ t[i].byte.ident = Ident
  BY ONLY <1>2, Write, WriteResult
<1>5. PICK c \in Nat : c = host.session  BY <1>2 DEF IInv, Types, HostRecords
<1>6. \A i \in 1 .. Len(t) : SessionOf(t[i]) = c /\ ~IsFall(t[i])
  BY ONLY <1>4, <1>5 DEF SessionOf, IsFall, Ident
<1>7. c <= host'.session /\ c \notin fallen  BY <1>3, <1>5 DEF HandInv, Numbers
<1>8. \A i \in 1 .. Len(queue) : IsFall(queue[i]) => After(i, c)
  BY <1>3, <1>5 DEF HandInv, Ordered
<1>9. Numbers' /\ Ordered'
  BY ONLY <1>1, <1>3, <1>4, <1>6, <1>7, <1>8, HandInv, IInv', QueueExtended
<1>10. Clean'  BY <1>1, CleanStays DEF HandInv
<1> QED  BY <1>9, <1>10 DEF HandInv

\* The steps of the task that move bytes and packets on.
LEMMA HandMoves ==
  ASSUME HandInv, IInv', UNCHANGED <<host, queue, fallen>>,
         dev'.dtr = dev.dtr,
         wire' \in [rx : Seq(CleanBytes), tx : Seq(CleanPackets)],
         cdc' \in Seq(CleanBytes), fifo' \in Seq(CleanPackets)
  PROVE  HandInv'
<1>1. Numbers' /\ Ordered'  BY SameQueue
<1>2. CleanBytes' = CleanBytes /\ CleanPackets' = CleanPackets  BY DEF CleanBytes, CleanPackets
<1>3. Clean'  BY ONLY <1>2, wire' \in [rx : Seq(CleanBytes), tx : Seq(CleanPackets)],
                      cdc' \in Seq(CleanBytes), fifo' \in Seq(CleanPackets) DEF Clean
<1> QED  BY <1>1, <1>3 DEF HandInv

LEMMA HandSends ==
  ASSUME HandInv, IInv', TaskSent \/ TaskTick \/ TaskWrite
  PROVE  HandInv'
<1>1. UNCHANGED <<host, queue, fallen>>  BY DEF TaskSent, TaskTick, TaskWrite
<1>2. /\ wire \in [rx : Seq(CleanBytes), tx : Seq(CleanPackets)]
      /\ cdc \in Seq(CleanBytes) /\ fifo \in Seq(CleanPackets) /\ dev \in DevRecords
  BY DEF HandInv, Clean, IInv, Types
<1>3. dev'.dtr = dev.dtr  BY <1>2 DEF TaskSent, TaskTick, TaskWrite, DevRecords
<1>4. CASE TaskSent
  <2>1. UNCHANGED <<wire, cdc>> /\ fifo # <<>> /\ fifo' = Tail(fifo)  BY <1>4 DEF TaskSent
  <2>2. fifo' \in Seq(CleanPackets)  BY ONLY <1>2, <2>1, TakeFirst
  <2> QED  BY ONLY <1>1, <1>2, <1>3, <2>1, <2>2, HandInv, IInv', HandMoves
<1>5. CASE TaskTick
  <2>1. UNCHANGED <<cdc, fifo>> /\ (wire' = [wire EXCEPT !.rx = <<>>] \/ UNCHANGED wire)
    BY <1>5 DEF TaskTick
  <2>2. <<>> \in Seq(CleanBytes)  OBVIOUS
  <2>3. wire' \in [rx : Seq(CleanBytes), tx : Seq(CleanPackets)]  BY ONLY <1>2, <2>1, <2>2
  <2> QED  BY ONLY <1>1, <1>2, <1>3, <2>1, <2>3, HandInv, IInv', HandMoves
<1>6. CASE TaskWrite
  <2> DEFINE taken == SubSeq(wire.tx, 1, Room)
             sending == fifo \o taken
  <2>1. /\ UNCHANGED cdc /\ wire' = [wire EXCEPT !.tx = SubSeq(@, Room + 1, Len(@))]
        /\ (taken # <<>> /\ fifo' = Tail(sending)) \/ fifo' = sending
    BY <1>6 DEF TaskWrite
  <2>2. wire.tx \in Seq(CleanPackets)  BY ONLY <1>2
  <2>3. Room \in 0 .. Len(wire.tx)  BY ONLY <2>2 DEF Room
  <2>4. /\ taken \in Seq(CleanPackets)
        /\ SubSeq(wire.tx, Room + 1, Len(wire.tx)) \in Seq(CleanPackets)
    BY ONLY <2>2, <2>3, TakeSome
  <2> HIDE DEF taken
  <2>5. sending \in Seq(CleanPackets) /\ Len(sending) = Len(fifo) + Len(taken)
    BY ONLY <1>2, <2>4, ConcatProperties
  <2>6. taken # <<>> => sending # <<>>  BY ONLY <1>2, <2>4, <2>5
  <2> HIDE DEF sending
  <2>7. taken # <<>> => Tail(sending) \in Seq(CleanPackets)  BY ONLY <2>5, <2>6, TakeFirst
  <2>8. fifo' \in Seq(CleanPackets)  BY ONLY <2>1, <2>5, <2>7
  <2>9. wire' \in [rx : Seq(CleanBytes), tx : Seq(CleanPackets)]
    BY ONLY <1>2, <2>1, <2>4
  <2>10. cdc' \in Seq(CleanBytes)  BY ONLY <1>2, <2>1
  <2> QED  BY ONLY <1>1, <1>3, <2>8, <2>9, <2>10, HandInv, IInv', HandMoves
<1> QED  BY <1>4, <1>5, <1>6

\* A reply is of the session the board is in, which has not fallen.
LEMMA HandFeeds ==
  ASSUME HandInv, IInv', TaskFeed
  PROVE  HandInv'
<1> DEFINE rx == Append(wire.rx, Head(cdc))
<1>1. /\ UNCHANGED <<host, queue, dev, fallen, fifo>> /\ cdc # <<>> /\ cdc' = Tail(cdc)
      /\ \/ wire' = [wire EXCEPT !.rx = rx]
         \/ wire' = Resync(rx)
         \/ Execute(Head(cdc))
  BY DEF TaskFeed
<1>2. /\ wire \in [rx : Seq(CleanBytes), tx : Seq(CleanPackets)]
      /\ cdc \in Seq(CleanBytes) /\ fifo \in Seq(CleanPackets)
  BY DEF HandInv, Clean
<1>3. Head(cdc) \in CleanBytes /\ cdc' \in Seq(CleanBytes)  BY ONLY <1>1, <1>2, TakeFirst
<1>4. rx \in Seq(CleanBytes) /\ rx # <<>>
  <2>1. wire.rx \in Seq(CleanBytes)  BY ONLY <1>2
  <2> QED  BY ONLY <1>3, <2>1 DEF rx
<1> HIDE DEF rx
<1>5. Tail(rx) \in Seq(CleanBytes)  BY ONLY <1>4, TakeFirst
<1>6. wire' \in [rx : Seq(CleanBytes), tx : Seq(CleanPackets)]
  <2>1. CASE wire' = [wire EXCEPT !.rx = rx]  BY ONLY <1>2, <1>4, <2>1
  <2>2. CASE wire' = Resync(rx)  BY ONLY <1>2, <1>5, <2>2 DEF Resync
  <2>3. CASE Execute(Head(cdc))
    <3>1. PICK reply : /\ wire' = [rx |-> <<>>, tx |-> Packets(reply)]
                       /\ reply.session = dev.dtr
      BY <2>3 DEF Execute
    <3>2. wire'.tx = Packets(reply) /\ wire'.tx \in Seq(KnownPackets')
      BY ONLY <3>1, IInv' DEF IInv, OnlyKnown
    <3>3. dev.dtr \notin fallen  BY DEF HandInv, Numbers
    <3>4. /\ Len(Packets(reply)) \in {1, 2}
          /\ \A i \in 1 .. Len(Packets(reply)) : Packets(reply)[i].reply = reply
      BY DEF Packets
    <3>5. \A i \in 1 .. Len(wire'.tx) : wire'.tx[i] \in CleanPackets
      <4> SUFFICES ASSUME NEW i \in 1 .. Len(wire'.tx) PROVE wire'.tx[i] \in CleanPackets
        OBVIOUS
      <4>1. wire'.tx[i] \in KnownPackets' /\ wire'.tx[i].reply = reply
        BY ONLY <3>2, <3>4, i \in 1 .. Len(wire'.tx)
      <4>2. KnownReplies' \subseteq Replies  BY DEF KnownReplies
      <4> QED  BY ONLY <3>1, <3>3, <4>1, <4>2 DEF KnownPackets, CleanPackets
    <3>6. wire'.tx \in Seq(CleanPackets)
      <4>1. PICK tx \in Seq(KnownPackets') : tx = wire'.tx  BY <3>2
      <4>2. \A i \in 1 .. Len(tx) : tx[i] \in CleanPackets  BY ONLY <3>5, <4>1
      <4> QED  BY ONLY <4>1, <4>2, SeqOfElements
    <3>7. <<>> \in Seq(CleanBytes)  OBVIOUS
    <3> QED  BY ONLY <3>1, <3>2, <3>6, <3>7
  <2> QED  BY ONLY <1>1, <2>1, <2>2, <2>3
<1> QED  BY ONLY <1>1, <1>2, <1>3, <1>6, HandInv, IInv', HandMoves

\* The fall of a session clears all that is of it, and nothing of it follows.
LEMMA HandEvent ==
  ASSUME HandInv, IInv', TaskEvent
  PROVE  HandInv'
<1> DEFINE e == queue[1]
<1>1. UNCHANGED host /\ queue # <<>> /\ queue' = Tail(queue) /\ Head(queue) = queue[1]
  <2>1. queue \in Seq(KnownItems)  BY DEF HandInv, IInv, OnlyKnown
  <2>2. UNCHANGED host /\ queue # <<>> /\ queue' = Tail(queue)  BY DEF TaskEvent
  <2> QED  BY ONLY <2>1, <2>2
<1>2. /\ Len(queue) \in Nat \ {0} /\ Len(queue') = Len(queue) - 1
      /\ \A i \in 1 .. Len(queue) - 1 : queue'[i] = queue[i + 1]
  <2>1. queue \in Seq(KnownItems)  BY DEF HandInv, IInv, OnlyKnown
  <2> QED  BY ONLY <1>1, <2>1
<1>3. 1 \in 1 .. Len(queue)  BY ONLY <1>2
<1>4. /\ e \in KnownItems /\ SessionOf(e) \in Nat
      /\ SessionOf(e) <= host.session /\ SessionOf(e) \notin fallen
  BY <1>3, ItemSession DEF HandInv, Ordered
<1>5. /\ host.session \in Nat /\ dev \in DevRecords /\ dev.dtr \in Nat
      /\ dev.dtr <= host.session /\ dev.dtr \notin fallen /\ 0 \notin fallen
  BY DEF HandInv, IInv, Types, HostRecords, DevRecords, Numbers
<1>6. \/ e.kind = "BYTE" /\ cdc' = Append(cdc, e.byte) /\ UNCHANGED <<dev, wire, fifo, fallen>>
      \/ /\ e.kind = "DTR" /\ dev' = [dev EXCEPT !.dtr = e.session]
         /\ UNCHANGED <<wire, cdc, fifo, fallen>>
      \/ /\ IsFall(e) /\ dev' = [dev EXCEPT !.dtr = 0]
         /\ wire' = NoWire /\ cdc' = <<>> /\ fifo' = <<>>
         /\ fallen' = fallen \cup ({dev.dtr} \ {0})
      \/ /\ dev' = [dev EXCEPT !.dtr = 0] /\ cdc' = <<>> /\ fifo' = <<>>
         /\ UNCHANGED <<wire, fallen>>
  BY <1>1 DEF TaskEvent, IsFall
<1> HIDE DEF e
<1>7. /\ dev'.dtr \in {dev.dtr, 0, SessionOf(e)} /\ dev'.dtr \in Nat
      /\ \/ fallen' = fallen
         \/ IsFall(e) /\ dev'.dtr = 0 /\ fallen' = fallen \cup ({dev.dtr} \ {0})
  BY ONLY <1>4, <1>5, <1>6 DEF DevRecords, SessionOf
<1>8. ASSUME NEW session \in Nat, session \notin fallen, IsFall(e) => After(1, session)
      PROVE  session \notin fallen'
  BY ONLY <1>7, <1>8 DEF After
<1>9. ASSUME NEW i \in 1 .. Len(queue) - 1, NEW session \in Nat, After(i + 1, session)
      PROVE  After(i, session)'
  <2>1. \A k \in 1 .. i - 1 : k + 1 \in 1 .. (i + 1) - 1 /\ queue'[k] = queue[k + 1]
    BY ONLY <1>2, i \in 1 .. Len(queue) - 1
  <2>2. 1 \in 1 .. (i + 1) - 1  BY ONLY <1>2, i \in 1 .. Len(queue) - 1
  <2>3. dev'.dtr # 0 => session # dev'.dtr
    BY <1>7, <1>9, <2>2 DEF After, e
  <2>4. \A k \in 1 .. i - 1 : SessionOf(queue'[k]) # 0 => session # SessionOf(queue'[k])
    BY <1>9, <2>1 DEF After
  <2> QED  BY ONLY <2>3, <2>4 DEF After
<1>10. ASSUME NEW j \in 1 .. Len(queue) - 1
       PROVE  /\ j + 1 \in 1 .. Len(queue) /\ queue'[j] = queue[j + 1]
              /\ SessionOf(queue[j + 1]) \in Nat /\ SessionOf(queue[j + 1]) <= host.session
              /\ SessionOf(queue[j + 1]) \notin fallen'
  <2>1. j + 1 \in 1 .. Len(queue) /\ j + 1 \in 2 .. Len(queue) /\ queue'[j] = queue[j + 1]
    BY ONLY <1>2, j \in 1 .. Len(queue) - 1
  <2>2. /\ SessionOf(queue[j + 1]) \in Nat /\ SessionOf(queue[j + 1]) <= host.session
        /\ SessionOf(queue[j + 1]) \notin fallen
    BY <2>1, ItemSession DEF HandInv, Ordered
  <2>3. IsFall(e) => After(1, SessionOf(queue[j + 1]))
    BY <1>3, <2>1 DEF HandInv, Ordered, e
  <2> QED  BY ONLY <1>8, <2>1, <2>2, <2>3
<1>11. Ordered'
  <2>1. ASSUME NEW i \in 1 .. Len(queue')
        PROVE  /\ SessionOf(queue'[i]) <= host'.session /\ SessionOf(queue'[i]) \notin fallen'
               /\ IsFall(queue'[i]) =>
                    /\ \A j \in i + 1 .. Len(queue') : After(i, SessionOf(queue[j]))'
                    /\ host'.pc # "closed" => After(i, host.session)'
    <3>1. i \in 1 .. Len(queue) - 1  BY <1>2
    <3>2. /\ i + 1 \in 1 .. Len(queue) /\ queue'[i] = queue[i + 1]
      BY <1>10, <3>1
    <3>3. ASSUME IsFall(queue'[i]), NEW j \in i + 1 .. Len(queue')
          PROVE  After(i, SessionOf(queue[j]))'
      <4>1. j \in 1 .. Len(queue) - 1 /\ j + 1 \in i + 1 + 1 .. Len(queue)
        BY ONLY <1>2, <3>1, j \in i + 1 .. Len(queue')
      <4>2. After(i + 1, SessionOf(queue[j + 1]))
        BY <3>2, <3>3, <4>1 DEF HandInv, Ordered
      <4>3. PICK session \in Nat : session = SessionOf(queue[j + 1])  BY <1>10, <4>1
      <4>4. After(i, session)'  BY <1>9, <3>1, <4>2, <4>3
      <4>5. SessionOf(queue'[j]) = session  BY <1>10, <4>1, <4>3
      <4> QED  BY ONLY <4>4, <4>5 DEF After
    <3>4. ASSUME IsFall(queue'[i]), host'.pc # "closed"
          PROVE  After(i, host.session)'
      <4>1. After(i + 1, host.session)
        BY <1>1, <3>2, <3>4 DEF HandInv, Ordered
      <4>2. PICK session \in Nat : session = host.session  BY <1>5
      <4>3. After(i, session)'  BY <1>9, <3>1, <4>1, <4>2
      <4>4. host'.session = session  BY <1>1, <4>2
      <4> QED  BY ONLY <4>3, <4>4 DEF After
    <3>5. SessionOf(queue'[i]) <= host'.session /\ SessionOf(queue'[i]) \notin fallen'
      BY <1>1, <1>10, <3>1
    <3> QED  BY <3>3, <3>4, <3>5
  <2> QED  BY <2>1 DEF Ordered
<1>12. Numbers'
  <2>1. \A session \in fallen' : session \in Nat /\ session # 0 /\ session <= host'.session
    BY <1>1, <1>5, <1>7 DEF HandInv, Numbers
  <2>2. dev'.dtr <= host'.session /\ dev'.dtr \notin fallen'
    BY ONLY <1>1, <1>4, <1>5, <1>7
  <2>3. host'.pc # "closed" => host'.session \notin fallen'
    <3>1. host.pc # "closed" => host.session \notin fallen /\ (IsFall(e) => After(1, host.session))
      BY <1>3 DEF HandInv, Numbers, Ordered, e
    <3> QED  BY ONLY <1>1, <1>5, <1>8, <3>1
  <2> QED  BY ONLY <2>1, <2>2, <2>3 DEF Numbers
<1>13. Clean'
  <2>1. /\ wire \in [rx : Seq(CleanBytes), tx : Seq(CleanPackets)]
        /\ cdc \in Seq(CleanBytes) /\ fifo \in Seq(CleanPackets)
    BY DEF HandInv, Clean
  <2>2. ASSUME UNCHANGED fallen
        PROVE  CleanBytes' = CleanBytes /\ CleanPackets' = CleanPackets
    BY <2>2 DEF CleanBytes, CleanPackets
  <2>3. CASE e.kind = "BYTE" /\ cdc' = Append(cdc, e.byte) /\ UNCHANGED <<wire, fifo, fallen>>
    <3>1. e.byte \in KnownBytes  BY ONLY <1>4, <2>3 DEF KnownItems
    <3>2. e.byte.ident[1] \notin fallen  BY ONLY <1>4, <2>3 DEF SessionOf
    <3>3. e.byte \in CleanBytes  BY ONLY <3>1, <3>2 DEF KnownBytes, CleanBytes
    <3>4. cdc' \in Seq(CleanBytes)  BY ONLY <2>1, <2>3, <3>3, OneMore
    <3> QED  BY ONLY <2>1, <2>2, <2>3, <3>4 DEF Clean
  <2>4. CASE UNCHANGED <<wire, cdc, fifo, fallen>>  BY ONLY <2>1, <2>2, <2>4 DEF Clean
  <2>5. CASE wire' = NoWire /\ cdc' = <<>> /\ fifo' = <<>>  BY ONLY <2>5 DEF Clean, NoWire
  <2>6. CASE cdc' = <<>> /\ fifo' = <<>> /\ UNCHANGED <<wire, fallen>>
    <3>1. <<>> \in Seq(CleanBytes) /\ <<>> \in Seq(CleanPackets)  OBVIOUS
    <3> QED  BY ONLY <2>1, <2>2, <2>6, <3>1 DEF Clean
  <2> QED  BY ONLY <1>6, <2>3, <2>4, <2>5, <2>6
<1> QED  BY <1>11, <1>12, <1>13 DEF HandInv

LEMMA InitHand == Init => HandInv
<1> SUFFICES ASSUME Init PROVE HandInv  OBVIOUS
<1>1. IInv  BY InitIInv
<1>2. Numbers /\ Clean /\ Ordered
  BY DEF Init, Started, NoWire, Numbers, Clean, Ordered
<1> QED  BY <1>1, <1>2 DEF HandInv

LEMMA HandStep == HandInv /\ [Next]_vars => HandInv'
<1> SUFFICES ASSUME HandInv, [Next]_vars PROVE HandInv'  OBVIOUS
<1>1. IInv'  BY IInvStep DEF HandInv
<1>2. CASE Host
  BY <1>1, <1>2, HandOpen, HandHost, HandWrite, HandAnswers DEF Host
<1>3. CASE Task
  BY <1>1, <1>3, HandDetached, HandPower, HandEvent, HandSends, HandFeeds DEF Task
<1>4. CASE Line
  BY <1>1, <1>4, HandCable, HandPower, HandDetached, HandNoise DEF Line
<1>5. CASE UNCHANGED vars
  <2>1. UNCHANGED <<host, queue, dev, fallen, wire, cdc, fifo>>  BY <1>5 DEF vars
  <2>2. dev'.dtr = dev.dtr /\ host'.session = host.session
        /\ (host'.pc = "closed" \/ host.pc # "closed")
    BY ONLY <2>1
  <2> QED  BY ONLY <1>1, <2>1, <2>2, HandInv, HandQuiet
<1> QED  BY <1>2, <1>3, <1>4, <1>5 DEF Next

\* tud_cdc_line_state_cb: once the board saw a session end, no byte of its
\* requests and no packet of its replies is left where it could reach another.
THEOREM HandOver == Spec => []CleanHandover
<1>1. Spec => []HandInv  BY InitHand, HandStep, PTL DEF Spec
<1>2. HandInv => CleanHandover
  <2> SUFFICES ASSUME HandInv PROVE CleanHandover  OBVIOUS
  <2>1. wire.rx \in Seq(CleanBytes) /\ wire.tx \in Seq(CleanPackets)
        /\ cdc \in Seq(CleanBytes) /\ fifo \in Seq(CleanPackets)
    BY DEF HandInv, Clean
  <2>2. \A b \in CleanBytes : b.ident[1] \notin fallen  BY DEF CleanBytes
  <2>3. \A p \in CleanPackets : p.reply.session \notin fallen  BY DEF CleanPackets
  <2> HIDE DEF CleanBytes, CleanPackets
  <2> QED  BY ONLY <2>1, <2>2, <2>3 DEF CleanHandover
<1> QED  BY <1>1, <1>2, PTL
-----------------------------------------------------------------------------
(***************************************************************************)
(* Nothing grows: every buffer keeps within its size                       *)
(***************************************************************************)
HostRoom(h) == h.session <= Sessions /\ h.written <= Frame /\ Len(h.got) <= 1
WireRoom == Len(wire.rx) < Frame /\ Len(wire.tx) <= 2
OutRoom == Len(fifo) <= 1 /\ Len(endpoint) <= 1
BoardRoom == board.uptime \in 0 .. Clock - 1 /\ faults \in 0 .. Faults
RoomInv == HostRoom(host) /\ WireRoom /\ OutRoom /\ BoardRoom

LEMMA FailedRoom ==
  ASSUME NEW h \in HostRecords, HostRoom(h)
  PROVE  HostRoom(Failed(h)) /\ HostRoom(PortLost(h))
<1>1. PICK last \in {"PARTIAL", "CONNECTION_FAILED"} :
        Failed(h) = [h EXCEPT !.pc = "closed", !.got = <<>>, !.state = last]
  BY DEF Failed
<1>2. /\ Failed(h).session = h.session /\ Failed(h).written = h.written
      /\ Failed(h).got = <<>> /\ Len(<<>>) = 0
  BY <1>1 DEF HostRecords
<1>3. HostRoom(Failed(h))  BY ONLY <1>2, HostRoom(h) DEF HostRoom
<1> QED  BY <1>3 DEF PortLost

LEMMA AcceptRoom ==
  ASSUME host \in HostRecords, HostRoom(host), NEW reply \in Replies, Accept(reply)
  PROVE  HostRoom(host')
<1> DEFINE kept == Append(host.kept, [since |-> host.since, reply |-> reply])
           more == [host EXCEPT !.pc = "ready", !.got = <<>>, !.kept = kept]
<1>1. kept \in Seq([since : Nat, reply : Replies])
  <2>1. [since |-> host.since, reply |-> reply] \in [since : Nat, reply : Replies]
    BY DEF HostRecords
  <2>2. host.kept \in Seq([since : Nat, reply : Replies])  BY DEF HostRecords
  <2> QED  BY ONLY <2>1, <2>2, OneMore
<1> HIDE DEF kept
<1>2. more \in HostRecords
  <2>1. <<>> \in Seq([reply : Replies, part : 1 .. 2])  OBVIOUS
  <2> HIDE DEF Replies
  <2> QED  BY ONLY host \in HostRecords, <1>1, <2>1 DEF HostRecords
<1>3. HostRoom(more)
  <2>1. more.session = host.session /\ more.written = host.written /\ more.got = <<>>
        /\ Len(<<>>) = 0
    BY DEF HostRecords
  <2> QED  BY ONLY <2>1, HostRoom(host) DEF HostRoom
<1>4. ASSUME NEW state \in {"CAPTURED", "DOWNLOADED"}
      PROVE  HostRoom([more EXCEPT !.pc = "closed", !.state = state])
  <2>1. /\ [more EXCEPT !.pc = "closed", !.state = state].session = more.session
        /\ [more EXCEPT !.pc = "closed", !.state = state].written = more.written
        /\ [more EXCEPT !.pc = "closed", !.state = state].got = more.got
    BY <1>2 DEF HostRecords
  <2> HIDE DEF more
  <2> QED  BY ONLY <1>3, <2>1 DEF HostRoom
<1> DEFINE final == IF host.job = "capture" THEN "CAPTURED" ELSE "DOWNLOADED"
<1>5. \/ host' = more \/ host' = Failed(more)
      \/ host' = [more EXCEPT !.pc = "closed", !.state = final]
  <2>1. \/ host' = more \/ Close(Failed(more))
        \/ Close([more EXCEPT !.pc = "closed", !.state = final])
    BY DEF Accept, kept
  <2> HIDE DEF more, final
  <2> QED  BY ONLY <2>1 DEF Close
<1>6. final \in {"CAPTURED", "DOWNLOADED"}  OBVIOUS
<1> HIDE DEF more, final
<1> QED  BY ONLY <1>2, <1>3, <1>4, <1>5, <1>6, FailedRoom

LEMMA HostRoomStep ==
  ASSUME HandInv, HostRoom(host), [Next]_vars
  PROVE  HostRoom(host')
<1>0. host \in HostRecords /\ Frame \in Nat  BY UsbAssumption DEF HandInv, IInv, Types
<1>1. CASE Open
  <2>1. host'.session = host.session + 1 /\ host'.written = 0 /\ host'.got = <<>>
        /\ host.session < Sessions /\ Len(<<>>) = 0
    BY <1>1 DEF Open
  <2>2. host.session \in Nat  BY <1>0 DEF HostRecords
  <2> QED  BY ONLY <1>0, <2>1, <2>2, UsbAssumption DEF HostRoom
<1>2. CASE InputReset \/ Request \/ Write
  <2>1. host.written \in Nat /\ host.written <= Frame
    BY ONLY <1>0, HostRoom(host) DEF HostRecords, HostRoom
  <2>2. CASE InputReset
    <3>1. host' = [host EXCEPT !.pc = "ready"]  BY <2>2 DEF InputReset
    <3> QED  BY ONLY <1>0, <3>1, HostRoom(host) DEF HostRoom, HostRecords
  <2>3. CASE Request
    <3>1. host' = [host EXCEPT !.pc = "waiting", !.written = 0, !.since = served]
      BY <2>3 DEF Request
    <3>2. host'.session = host.session /\ host'.got = host.got /\ host'.written = 0
      BY ONLY <1>0, <3>1 DEF HostRecords
    <3> QED  BY ONLY <1>0, <3>2, HostRoom(host) DEF HostRoom
  <2>4. CASE Write
    <3>1. PICK n \in host.written + 1 .. Frame : host' = [host EXCEPT !.written = n]
      BY <2>4 DEF Write
    <3>2. host'.session = host.session /\ host'.got = host.got /\ host'.written = n
      BY ONLY <1>0, <3>1 DEF HostRecords
    <3>3. n <= Frame  BY ONLY <1>0, <2>1, n \in host.written + 1 .. Frame
    <3> QED  BY ONLY <3>2, <3>3, HostRoom(host) DEF HostRoom
  <2> QED  BY <1>2, <2>2, <2>3, <2>4
<1>3. CASE Deadline \/ TaskDetach \/ BusReset \/ Unplug \/ BoardReset
  <2>1. host' \in {Failed(host), PortLost(host)}
    BY <1>3 DEF Deadline, Fail, Close, TaskDetach, BusReset, Unplug, BoardReset, Detached
  <2> QED  BY ONLY <1>0, <2>1, HostRoom(host), FailedRoom
<1>4. CASE Receive
  <2> DEFINE p == endpoint[1]
  <2>1. p \in KnownPackets
    <3>1. endpoint \in Seq(KnownPackets) /\ endpoint # <<>>
      BY <1>4 DEF Receive, HandInv, IInv, OnlyKnown
    <3> QED  BY ONLY <3>1
  <2>2. p.reply \in Replies  BY ONLY <2>1 DEF KnownPackets, KnownReplies
  <2>3. host' = [host EXCEPT !.got = <<p>>] \/ host' = Failed(host) \/ Accept(p.reply)
    BY <1>4 DEF Receive, Fail, Close
  <2>4. CASE host' = [host EXCEPT !.got = <<p>>]
    <3>1. host'.session = host.session /\ host'.written = host.written /\ host'.got = <<p>>
          /\ Len(<<p>>) = 1
      BY ONLY <1>0, <2>4 DEF HostRecords
    <3> QED  BY ONLY <3>1, HostRoom(host) DEF HostRoom
  <2> HIDE DEF p
  <2> QED  BY ONLY <1>0, <2>2, <2>3, <2>4, HostRoom(host), FailedRoom, AcceptRoom
<1>5. CASE Discard \/ TaskAttach \/ TaskEnter \/ TaskEvent \/ TaskSent \/ TaskTick \/ TaskFeed
           \/ TaskWrite \/ Plug \/ ClockLost \/ Noise \/ UNCHANGED vars
  <2>1. host' = host
    BY <1>5 DEF Discard, TaskAttach, TaskEnter, TaskEvent, TaskSent, TaskTick, TaskFeed,
                TaskWrite, Plug, ClockLost, Noise, vars
  <2> QED  BY ONLY <2>1, HostRoom(host)
<1> QED  BY <1>1, <1>2, <1>3, <1>4, <1>5 DEF Next, Host, Task, Line

LEMMA WireRoomStep ==
  ASSUME HandInv, WireRoom, [Next]_vars
  PROVE  WireRoom'
<1>0. /\ wire \in [rx : Seq(KnownBytes), tx : Seq(KnownPackets)]
      /\ wire.rx \in Seq(KnownBytes) /\ wire.tx \in Seq(KnownPackets)
      /\ cdc \in Seq(KnownBytes) /\ Frame \in Nat /\ Frame >= 2
  BY UsbAssumption DEF HandInv, IInv, OnlyKnown
<1>1. CASE wire' = NoWire
  <2>1. wire'.rx = <<>> /\ wire'.tx = <<>> /\ Len(<<>>) = 0  BY ONLY <1>1 DEF NoWire
  <2> QED  BY ONLY <1>0, <2>1 DEF WireRoom
<1>2. CASE TaskTick
  <2>1. wire' = wire \/ wire' = [wire EXCEPT !.rx = <<>>]  BY <1>2 DEF TaskTick
  <2>2. wire'.tx = wire.tx /\ (wire'.rx = wire.rx \/ wire'.rx = <<>>)  BY ONLY <1>0, <2>1
  <2> QED  BY ONLY <1>0, <2>2, WireRoom DEF WireRoom
<1>3. CASE TaskFeed
  <2> DEFINE rx == Append(wire.rx, Head(cdc))
  <2>1. Head(cdc) \in KnownBytes  BY ONLY <1>0, <1>3, TakeFirst DEF TaskFeed
  <2>2. rx \in Seq(KnownBytes) /\ Len(rx) = Len(wire.rx) + 1
    BY ONLY <1>0, <2>1
  <2>3. \/ Len(rx) < Frame /\ wire' = [wire EXCEPT !.rx = rx]
        \/ Len(rx) = Frame /\ wire' = Resync(rx)
        \/ Execute(Head(cdc))
    BY <1>3 DEF TaskFeed
  <2> HIDE DEF rx
  <2>4. CASE Len(rx) < Frame /\ wire' = [wire EXCEPT !.rx = rx]
    <3>1. wire'.rx = rx /\ wire'.tx = wire.tx  BY ONLY <1>0, <2>4
    <3> QED  BY ONLY <2>4, <3>1, WireRoom DEF WireRoom
  <2>5. CASE Len(rx) = Frame /\ wire' = Resync(rx)
    <3>1. wire'.rx = Tail(rx) /\ wire'.tx = wire.tx  BY ONLY <1>0, <2>5 DEF Resync
    <3>2. Len(Tail(rx)) = Frame - 1  BY ONLY <1>0, <2>2, <2>5
    <3> QED  BY ONLY <1>0, <3>1, <3>2, WireRoom DEF WireRoom
  <2>6. CASE Execute(Head(cdc))
    <3>1. PICK reply : wire' = [rx |-> <<>>, tx |-> Packets(reply)]  BY <2>6 DEF Execute
    <3>2. Len(Packets(reply)) <= 2  BY DEF Packets
    <3>3. wire'.rx = <<>> /\ wire'.tx = Packets(reply) /\ Len(<<>>) = 0  BY ONLY <3>1
    <3> QED  BY ONLY <1>0, <3>2, <3>3 DEF WireRoom
  <2> QED  BY ONLY <2>3, <2>4, <2>5, <2>6
<1>4. CASE TaskWrite
  <2>1. wire'.rx = wire.rx /\ wire'.tx = SubSeq(wire.tx, Room + 1, Len(wire.tx))
    BY <1>0, <1>4 DEF TaskWrite
  <2>2. Room = 0 \/ Room = 1  BY DEF Room
  <2>3. Len(SubSeq(wire.tx, Room + 1, Len(wire.tx))) <= Len(wire.tx)
    BY ONLY <1>0, <2>2
  <2>4. Len(wire'.tx) \in Nat /\ Len(wire.tx) \in Nat  BY ONLY <1>0, <2>1, <2>2
  <2>5. Len(wire'.tx) <= Len(wire.tx) /\ Len(wire'.rx) = Len(wire.rx)  BY ONLY <2>1, <2>3
  <2>6. Len(wire.rx) < Frame /\ Len(wire.tx) <= 2  BY ONLY WireRoom DEF WireRoom
  <2>7. Len(wire'.tx) <= 2 /\ Len(wire'.rx) < Frame  BY ONLY <2>4, <2>5, <2>6
  <2> QED  BY ONLY <2>7 DEF WireRoom
<1>5. CASE wire' = wire
  BY ONLY <1>5, WireRoom DEF WireRoom
<1>6. wire' = NoWire \/ TaskTick \/ TaskFeed \/ TaskWrite \/ wire' = wire
  BY DEF Next, Host, Task, Line, Open, Discard, InputReset, Request, Write, Receive, Deadline,
         TaskDetach, TaskAttach, TaskEnter, TaskEvent, TaskSent, BusReset, Unplug, Plug,
         ClockLost, BoardReset, Noise, Detached, vars
<1> QED  BY ONLY <1>1, <1>2, <1>3, <1>4, <1>5, <1>6

LEMMA OutRoomStep ==
  ASSUME HandInv, OutRoom, [Next]_vars
  PROVE  OutRoom'
<1>0. /\ wire.tx \in Seq(KnownPackets) /\ fifo \in Seq(KnownPackets)
      /\ endpoint \in Seq(KnownPackets)
  BY DEF HandInv, IInv, OnlyKnown
<1>1. CASE (fifo' = fifo \/ fifo' = <<>>) /\ (endpoint' = endpoint \/ endpoint' = <<>>)
  BY ONLY <1>0, <1>1, OutRoom DEF OutRoom
<1>2. CASE TaskSent
  <2>1. fifo # <<>> /\ endpoint' = <<Head(fifo)>> /\ fifo' = Tail(fifo)  BY <1>2 DEF TaskSent
  <2>2. Len(endpoint') = 1 /\ Len(Tail(fifo)) = Len(fifo) - 1  BY ONLY <1>0, <2>1
  <2> QED  BY ONLY <1>0, <2>1, <2>2, OutRoom DEF OutRoom
<1>3. CASE TaskWrite
  <2> DEFINE taken == SubSeq(wire.tx, 1, Room)
             sending == fifo \o taken
  <2>1. \/ /\ endpoint = <<>> /\ taken # <<>>
           /\ endpoint' = <<Head(sending)>> /\ fifo' = Tail(sending)
        \/ fifo' = sending /\ endpoint' = endpoint
    BY <1>3 DEF TaskWrite
  <2>2. Room = 0 \/ (Room = 1 /\ fifo = <<>> /\ wire.tx # <<>>)  BY DEF Room
  <2>3. Room \in 0 .. Len(wire.tx)  BY ONLY <1>0, <2>2
  <2>4. taken \in Seq(KnownPackets) /\ Len(taken) = Room
    <3>1. taken \in Seq(KnownPackets)  BY ONLY <1>0, <2>3, TakeSome
    <3>2. Len(taken) = Room  BY ONLY <1>0, <2>2, <2>3
    <3> QED  BY <3>1, <3>2
  <2> HIDE DEF taken
  <2>5. sending \in Seq(KnownPackets) /\ Len(sending) = Len(fifo) + Room
    BY ONLY <1>0, <2>4, ConcatProperties
  <2> HIDE DEF sending
  <2>6. Len(sending) <= 1
    <3>1. fifo = <<>> => Len(fifo) = 0  OBVIOUS
    <3>2. Len(fifo) \in Nat  BY ONLY <1>0
    <3> QED  BY ONLY <2>2, <2>5, <3>1, <3>2, OutRoom DEF OutRoom
  <2>7. taken # <<>> => Len(sending) > 0 /\ sending # <<>>
    <3>1. taken # <<>> => Len(taken) > 0  BY ONLY <2>4
    <3>2. Len(fifo) \in Nat  BY ONLY <1>0
    <3> QED  BY ONLY <2>4, <2>5, <3>1, <3>2
  <2>8. taken # <<>> => Len(Tail(sending)) = Len(sending) - 1  BY ONLY <2>5, <2>7
  <2>9. Len(<<Head(sending)>>) = 1 /\ Len(sending) \in Nat  BY ONLY <2>5
  <2> QED  BY ONLY <2>1, <2>6, <2>8, <2>9, OutRoom DEF OutRoom
<1>4. \/ (fifo' = fifo \/ fifo' = <<>>) /\ (endpoint' = endpoint \/ endpoint' = <<>>)
      \/ TaskSent \/ TaskWrite
  BY DEF Next, Host, Task, Line, Open, Discard, InputReset, Request, Write, Receive, Deadline,
         TaskDetach, TaskAttach, TaskEnter, TaskEvent, TaskTick, TaskFeed, BusReset, Unplug,
         Plug, ClockLost, BoardReset, Noise, Detached, vars
<1> QED  BY ONLY <1>1, <1>2, <1>3, <1>4

LEMMA BoardRoomStep ==
  ASSUME HandInv, BoardRoom, [Next]_vars
  PROVE  BoardRoom'
<1>0. /\ Clock \in Nat \ {0} /\ Faults \in Nat /\ faults \in 0 .. Faults
      /\ board \in [boot : Nat, uptime : Int] /\ board.uptime \in 0 .. Clock - 1
  BY UsbAssumption DEF HandInv, IInv, Types, BoardRoom
<1>1. faults' = faults \/ (faults < Faults /\ faults' = faults + 1)
  BY DEF Next, Host, Task, Line, Open, Discard, InputReset, Request, Write, Receive, Accept,
         Deadline, Fail, Close, TaskDetach, TaskAttach, TaskEnter, TaskEvent, TaskSent,
         TaskTick, TaskFeed, TaskWrite, BusReset, Unplug, Plug, ClockLost, BoardReset, Noise,
         Fault, vars
<1>2. faults' \in 0 .. Faults  BY ONLY <1>0, <1>1
<1>3. CASE board' = board \/ board' = [boot |-> board.boot + 1, uptime |-> 0]
  BY ONLY <1>0, <1>2, <1>3 DEF BoardRoom
<1>4. CASE TaskFeed
  <2>1. board' = board \/ \E uptime \in {0, 1} :
                            board' = [board EXCEPT !.uptime = (@ + uptime) % Clock]
    BY <1>4 DEF TaskFeed, Execute
  <2>2. ASSUME NEW uptime \in {0, 1}, board' = [board EXCEPT !.uptime = (@ + uptime) % Clock]
        PROVE  board'.uptime \in 0 .. Clock - 1
    <3>1. board'.uptime = (board.uptime + uptime) % Clock  BY ONLY <1>0, <2>2
    <3> QED  BY ONLY <1>0, <3>1, uptime \in {0, 1}
  <2> QED  BY ONLY <1>0, <1>2, <2>1, <2>2 DEF BoardRoom
<1>5. TaskFeed \/ board' = board \/ board' = [boot |-> board.boot + 1, uptime |-> 0]
  BY DEF Next, Host, Task, Line, Open, Discard, InputReset, Request, Write, Receive, Deadline,
         TaskDetach, TaskAttach, TaskEnter, TaskEvent, TaskSent, TaskTick, TaskWrite,
         BusReset, Unplug, Plug, ClockLost, BoardReset, Noise, vars
<1> QED  BY ONLY <1>3, <1>4, <1>5

LEMMA InitRoom == Init => RoomInv
<1> SUFFICES ASSUME Init PROVE RoomInv  OBVIOUS
<1>1. Frame \in Nat /\ Frame >= 2 /\ Clock \in Nat \ {0} /\ Sessions \in Nat /\ Faults \in Nat
  BY UsbAssumption
<1>2. HostRoom(host)  BY <1>1 DEF Init, HostRoom
<1>3. WireRoom /\ OutRoom  BY <1>1 DEF Init, NoWire, WireRoom, OutRoom
<1>4. BoardRoom  BY <1>1 DEF Init, BoardRoom
<1> QED  BY <1>2, <1>3, <1>4 DEF RoomInv

\* Whatever comes down the line, a request never fills the frame it is gathered in, a reply
\* is two packets at most and TinyUSB holds one beside the one in its endpoint
\* (usb_wire.c:16-41), and the task is in the session the host opened last or before.
THEOREM BuffersBounded == Spec => []TypeOK
<1>1. Init => HandInv /\ RoomInv  BY InitHand, InitRoom
<1>2. HandInv /\ RoomInv /\ [Next]_vars => (HandInv /\ RoomInv)'
  <2> SUFFICES ASSUME HandInv, RoomInv, [Next]_vars PROVE HandInv' /\ RoomInv'  OBVIOUS
  <2>1. HandInv'  BY HandStep
  <2>2. HostRoom(host')  BY HostRoomStep DEF RoomInv
  <2>3. WireRoom' /\ OutRoom' /\ BoardRoom'
    BY WireRoomStep, OutRoomStep, BoardRoomStep DEF RoomInv
  <2> QED  BY <2>1, <2>2, <2>3 DEF RoomInv
<1>3. HandInv /\ RoomInv => TypeOK
  <2> SUFFICES ASSUME HandInv, RoomInv PROVE TypeOK  OBVIOUS
  <2>1. host \in HostRecords /\ dev \in DevRecords /\ served \in Nat
    BY DEF HandInv, IInv, Types
  <2>2. Sessions \in Nat /\ Frame \in Nat  BY UsbAssumption
  <2>3. /\ host.pc \in {"closed", "opened", "ready", "waiting"}
        /\ host.state \in {"NONE", "STARTED", "CAPTURED", "DOWNLOADED", "PARTIAL",
                           "CONNECTION_FAILED"}
        /\ host.session \in Nat /\ host.written \in Nat
    BY ONLY <2>1 DEF HostRecords
  <2>4. dev.dtr \in Nat /\ dev.task \in {"rest", "events", "feed"}  BY ONLY <2>1 DEF DevRecords
  <2>5. host.session \in 0 .. Sessions /\ host.written \in 0 .. Frame /\ Len(host.got) <= 1
    BY <2>2, <2>3 DEF RoomInv, HostRoom
  <2>6. dev.dtr \in 0 .. Sessions /\ fallen \subseteq 0 .. Sessions
    <3>1. dev.dtr <= host.session
          /\ \A session \in fallen : session \in Nat /\ session <= host.session
      BY DEF HandInv, Numbers
    <3> QED  BY ONLY <2>2, <2>3, <2>4, <2>5, <3>1
  <2> QED  BY <2>1, <2>3, <2>4, <2>5, <2>6 DEF TypeOK, RoomInv, WireRoom, OutRoom, BoardRoom
<1> QED  BY <1>1, <1>2, <1>3, PTL DEF Spec
=============================================================================
