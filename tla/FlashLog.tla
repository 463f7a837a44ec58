------------------------------ MODULE FlashLog ------------------------------
(***************************************************************************)
(* The append-only diagnostic journal of the bench firmware: the writer    *)
(* (m3_firmware/src/storage.c) on a W25Q128 NOR flash, through power       *)
(* losses, resets of the processor alone, failed transfers, weak cells and *)
(* wrong reads; and what the host recovers from the image it leaves        *)
(* (diagnostics/storage.py).                                               *)
(*                                                                         *)
(* One boot runs one build. A build has a record kind, and the kind fixes  *)
(* the layout of a sector: page 0 is its header, then Slots[k] records of  *)
(* Width[k] pages (storage.h: five records of three pages, or three of     *)
(* five). A page is an abstract value: blank, torn (partly programmed, or  *)
(* programmed wrong: its CRC does not match), a header or a data page.     *)
(***************************************************************************)
EXTENDS Integers, FiniteSets

CONSTANTS
  Sectors,         \* number of sectors
  DataPages,       \* pages of a sector after its header page
  Kinds,           \* record kinds: the layouts of the builds
  Width, Slots,    \* per kind: pages of a record, records of a sector
  CounterModulus,  \* the acquisition counter wraps here (2^32 in the code)
  MaxBoots,        \* bound: boots of a behaviour
  MaxDropped,      \* bound: dropped records counted in one boot
  MaxMisreads      \* bound: reads that return wrong data and no error

ASSUME LayoutAssumption ==
  /\ Sectors \in Nat \ {0} /\ DataPages \in Nat \ {0}
  /\ Width \in [Kinds -> Nat \ {0}] /\ Slots \in [Kinds -> Nat \ {0}]
  /\ \A k \in Kinds : Width[k] * Slots[k] = DataPages
ASSUME BoundAssumption ==
  /\ CounterModulus \in Nat \ {0} /\ MaxBoots \in Nat /\ MaxDropped \in Nat
  /\ MaxMisreads \in 0..2

Sector == 0 .. Sectors - 1
Page == 0 .. DataPages
Modes == {"inspect", "record"}
Errors == {"OK", "CLOCK", "IO", "ID", "SFDP", "BUSY", "PROTECTED", "QE",
           "NOT_BLANK", "WEL", "TIMEOUT", "VERIFY", "FULL", "FORMAT"}

(***************************************************************************)
(* Page contents                                                           *)
(***************************************************************************)
Blank == [type |-> "blank"]
Torn == [type |-> "torn"]
Header(s, k) == [type |-> "header", session |-> s, kind |-> k]
\* `boot' stands for the payload: the sample that boot took under that counter.
Data(k, s, c, i, b) == [type |-> "data", kind |-> k, session |-> s,
                        counter |-> c, chunk |-> i, boot |-> b]

Content == {Blank, Torn}
           \cup [type : {"header"}, session : Nat, kind : Kinds]
           \cup [type : {"data"}, kind : Kinds, session : Nat, counter : Nat,
                 chunk : Nat, boot : Nat]

NoProg == [sector |-> 0, page |-> 0, image |-> Blank]
Programs == [sector : Sector, page : Page, image : Content]

VARIABLES
  \* the chip: its array, the page program it is executing, its write-enable latch
  flash, prog, wel,
  \* the writer: where storage.c is, and the Storage structure it keeps in RAM
  pc, mode, kind, status, error, scanned, used, next, open, slot, chunk,
  counter, last, written, dropped,
  \* history: boots so far, wrong reads so far, records counted as written
  boots, misreads, acked

chip == <<flash, prog, wel>>
scan == <<scanned, used>>
place == <<next, open, slot, chunk>>
identity == <<mode, kind>>
totals == <<counter, last, written, dropped>>
history == <<boots, misreads, acked>>
vars == <<chip, pc, mode, kind, status, error, scan, place, totals, history>>

Busy == prog # NoProg

\* Fault: the session is the index of the last used sector instead of their number.
Session_LastUsed == IF used = 0 THEN 0 ELSE used - 1
Session == used     \* storage.c:131: the sectors in use at boot number the session

SectorBlank(s) == \A p \in Page : flash[s][p] = Blank

PageOf(k, sl, i) == 1 + Width[k] * sl + i
Target == IF open THEN PageOf(kind, slot, chunk) ELSE 0
Image == IF open THEN Data(kind, Session, counter, chunk, boots) ELSE Header(Session, kind)

RamInit ==
  /\ pc = "off" /\ mode = "inspect" /\ kind \in Kinds /\ status = "off" /\ error = "OK"
  /\ scanned = 0 /\ used = 0 /\ next = 0 /\ open = FALSE /\ slot = 0 /\ chunk = 0
  /\ counter = 0 /\ last = 0 /\ written = 0 /\ dropped = 0

Init ==
  /\ flash = [s \in Sector |-> [p \in Page |-> Blank]]
  /\ prog = NoProg /\ wel = FALSE
  /\ RamInit
  /\ boots = 0 /\ misreads = 0 /\ acked = {}

-----------------------------------------------------------------------------
(***************************************************************************)
(* Helpers of the actions                                                  *)
(***************************************************************************)
\* A read of something that is blank iff `truth' shows `seen'; a wrong read is counted.
ReadBlank(truth, seen) ==
  /\ misreads' = IF seen = truth THEN misreads ELSE misreads + 1
  /\ misreads' <= MaxMisreads
  /\ UNCHANGED <<boots, acked>>

Fail(e) == status' = "stopped" /\ error' = e

\* storage_begin gives up: the session never becomes ready.
BeginFails(e) ==
  /\ Fail(e) /\ pc' = "idle"
  /\ UNCHANGED <<chip, identity, place, totals>>

\* Fault: a record lost on the way is not counted.
AppendFails_Uncounted(e) ==
  /\ Fail(e) /\ pc' = "idle" /\ chunk' = 0
  /\ UNCHANGED <<identity, scan, next, open, slot, totals>>

\* storage_append gives up on this record, and on all the later ones.
AppendFails(e) ==
  /\ Fail(e) /\ pc' = "idle" /\ dropped' = dropped + 1 /\ chunk' = 0
  /\ UNCHANGED <<identity, scan, next, open, slot, counter, last, written>>

Goto(step) ==
  /\ pc' = step
  /\ UNCHANGED <<identity, status, error, scan, totals>>

(***************************************************************************)
(* Boot: storage_begin                                                     *)
(***************************************************************************)
Begin(m, k) ==
  /\ pc = "off" /\ boots < MaxBoots
  /\ pc' = "identify" /\ mode' = m /\ kind' = k /\ status' = "scanning" /\ error' = "OK"
  /\ boots' = boots + 1
  /\ UNCHANGED <<chip, scan, place, totals, misreads, acked>>

\* Controller, status registers, JEDEC id, SFDP and unique id; a recorder checks that it
\* may write. A busy chip, or a latch that an earlier reset left set, stops the session.
Identify ==
  /\ pc = "identify"
  /\ \/ \E e \in {"CLOCK", "IO", "ID", "SFDP"} : BeginFails(e)
     \/ (Busy \/ (mode = "record" /\ wel)) /\ BeginFails("BUSY")
     \/ mode = "record" /\ \E e \in {"PROTECTED", "QE"} : BeginFails(e)
     \/ /\ ~Busy /\ ~(mode = "record" /\ wel)
        /\ pc' = "scan"
        /\ UNCHANGED <<chip, identity, status, error, place, totals>>
  /\ UNCHANGED <<scan, history>>

ScanSector ==
  /\ pc = "scan" /\ scanned < Sectors
  /\ \/ BeginFails("IO") /\ UNCHANGED <<scan, history>>
     \/ \E seen \in BOOLEAN :
          /\ ReadBlank(SectorBlank(scanned), seen)
          /\ used' = IF seen THEN used ELSE scanned + 1
          /\ scanned' = scanned + 1
          /\ UNCHANGED <<chip, pc, identity, status, error, place, totals>>

\* Inspection maps the flash read-only; a recorder continues after the last used sector.
ScanDone ==
  /\ pc = "scan" /\ scanned = Sectors
  /\ \/ mode = "inspect" /\ BeginFails("IO")
     \/ mode = "record" /\ used = Sectors /\ BeginFails("FULL")
     \/ /\ mode = "inspect" \/ used < Sectors
        /\ pc' = "idle" /\ status' = "ready" /\ next' = used
        /\ UNCHANGED <<chip, identity, error, open, slot, chunk, totals>>
  /\ UNCHANGED <<scan, history>>

(***************************************************************************)
(* storage_append, called by the main loop once per acquisition            *)
(***************************************************************************)
Append ==
  /\ pc = "idle" /\ mode = "record" /\ dropped < MaxDropped
  /\ LET c == (counter + 1) % CounterModulus IN
     /\ counter' = c
     /\ \/ /\ status # "ready"
           /\ dropped' = dropped + 1 /\ UNCHANGED <<pc, status, error>>
        \/ /\ status = "ready" /\ (c = 0 \/ c <= last)
           /\ Fail("FORMAT") /\ dropped' = dropped + 1 /\ UNCHANGED pc
        \/ /\ status = "ready" /\ c > last /\ ~open /\ next >= Sectors
           /\ Fail("FULL") /\ dropped' = dropped + 1 /\ UNCHANGED pc
        \/ /\ status = "ready" /\ c > last /\ (open \/ next < Sectors)
           /\ pc' = IF open THEN "check" ELSE "open"
           /\ UNCHANGED <<status, error, dropped>>
  /\ UNCHANGED <<chip, identity, scan, place, last, written, history>>

\* Fault: the writer trusts the scan and does not look at the sector again.
OpenSector_Unchecked ==
  /\ pc = "open"
  /\ Goto("check") /\ UNCHANGED <<chip, place, history>>

\* The sector a header is about to claim must read blank from end to end.
OpenSector ==
  /\ pc = "open"
  /\ UNCHANGED chip
  /\ \/ AppendFails("IO") /\ UNCHANGED history
     \/ \E seen \in BOOLEAN :
          /\ ReadBlank(SectorBlank(next), seen)
          /\ IF seen THEN Goto("check") /\ UNCHANGED place ELSE AppendFails("NOT_BLANK")

-----------------------------------------------------------------------------
(***************************************************************************)
(* storage_program_page: one page of the header or of the record           *)
(***************************************************************************)
CheckPage ==
  /\ pc = "check"
  /\ UNCHANGED chip
  /\ \/ (\E e \in {"IO", "BUSY", "PROTECTED", "QE"} : AppendFails(e)) /\ UNCHANGED history
     \/ \E seen \in BOOLEAN :
          /\ ReadBlank(flash[next][Target] = Blank, seen)
          /\ IF seen THEN Goto("enable") /\ UNCHANGED place ELSE AppendFails("NOT_BLANK")

\* 06h and the status read after it; a failed transfer may or may not have set the latch.
WriteEnable ==
  /\ pc = "enable"
  /\ \/ AppendFails("IO") /\ wel' \in BOOLEAN
     \/ AppendFails("WEL") /\ wel' = FALSE
     \/ Goto("program") /\ wel' = TRUE /\ UNCHANGED place
  /\ UNCHANGED <<flash, prog, history>>

\* 02h: the chip starts on the page it received. A failed transfer raises the chip select
\* early: the chip got nothing, a part of the page, or all of it. A weak cell tears a page.
ProgramPage ==
  /\ pc = "program"
  /\ \/ AppendFails("IO") /\ UNCHANGED prog
     \/ \E image \in {Image, Torn} :
          /\ prog' = [sector |-> next, page |-> Target, image |-> image]
          /\ AppendFails("IO") \/ (Goto("wait") /\ UNCHANGED place)
  /\ UNCHANGED <<flash, wel, history>>

\* Fault: the poll loop has no limit.
PollStatus_Unbounded ==
  /\ pc = "wait"
  /\ \/ \E e \in {"IO", "WEL"} : AppendFails(e)
     \/ ~Busy /\ Goto("verify") /\ UNCHANGED place
  /\ UNCHANGED <<chip, history>>

\* The poll loop: at most twelve polls or 10 ms, then one more look at the status.
PollStatus ==
  /\ pc = "wait"
  /\ \/ \E e \in {"IO", "WEL"} : AppendFails(e)
     \/ Busy /\ AppendFails("TIMEOUT")
     \/ ~Busy /\ Goto("verify") /\ UNCHANGED place
  /\ UNCHANGED <<chip, history>>

\* Where the writer goes once the page has been read back.
HeaderDone ==
  /\ ~open
  /\ open' = TRUE /\ slot' = 0 /\ chunk' = 0
  /\ Goto("check") /\ UNCHANGED <<next, acked>>

ChunkDone ==
  /\ open /\ chunk + 1 < Width[kind]
  /\ chunk' = chunk + 1
  /\ Goto("check") /\ UNCHANGED <<next, open, slot, acked>>

\* Fault: the last slot of a sector does not close it.
RecordDone_NeverCloses ==
  /\ open /\ chunk + 1 = Width[kind]
  /\ written' = written + 1 /\ last' = counter /\ chunk' = 0 /\ pc' = "idle"
  /\ slot' = slot + 1
  /\ acked' = acked \cup {[boot |-> boots, counter |-> counter]}
  /\ UNCHANGED <<identity, status, error, scan, next, open, counter, dropped>>

RecordDone ==
  /\ open /\ chunk + 1 = Width[kind]
  /\ written' = written + 1 /\ last' = counter /\ chunk' = 0 /\ pc' = "idle"
  /\ IF slot + 1 = Slots[kind]
     THEN next' = next + 1 /\ open' = FALSE /\ slot' = 0
     ELSE slot' = slot + 1 /\ UNCHANGED <<next, open>>
  /\ acked' = acked \cup {[boot |-> boots, counter |-> counter]}
  /\ UNCHANGED <<identity, status, error, scan, counter, dropped>>

\* Fault: the page is not read back.
VerifyPage_Trusting ==
  /\ pc = "verify"
  /\ HeaderDone \/ ChunkDone \/ RecordDone
  /\ UNCHANGED <<chip, boots, misreads>>

\* Both read-backs, 03h and the quad 6Bh, must return the page. A wrong read never makes
\* another content look like the page that was sent.
VerifyPage ==
  /\ pc = "verify"
  /\ \/ AppendFails("IO") /\ UNCHANGED history
     \/ flash[next][Target] # Image /\ AppendFails("VERIFY") /\ UNCHANGED history
     \/ /\ misreads < MaxMisreads /\ misreads' = misreads + 1
        /\ AppendFails("VERIFY") /\ UNCHANGED <<boots, acked>>
     \/ /\ flash[next][Target] = Image
        /\ HeaderDone \/ ChunkDone \/ RecordDone
        /\ UNCHANGED <<boots, misreads>>
  /\ UNCHANGED chip

-----------------------------------------------------------------------------
(***************************************************************************)
(* The chip and the power supply                                           *)
(***************************************************************************)
SetPage(s, p, c) == flash' = [flash EXCEPT ![s][p] = c]

ChipFinishes ==
  /\ Busy
  /\ SetPage(prog.sector, prog.page, prog.image)
  /\ prog' = NoProg /\ wel' = FALSE
  /\ UNCHANGED <<pc, identity, status, error, scan, place, totals, history>>

ForgetRam ==
  /\ pc # "off"
  /\ pc' = "off" /\ status' = "off" /\ error' = "OK"
  /\ scanned' = 0 /\ used' = 0 /\ next' = 0 /\ open' = FALSE /\ slot' = 0 /\ chunk' = 0
  /\ counter' = 0 /\ last' = 0 /\ written' = 0 /\ dropped' = 0
  /\ UNCHANGED <<identity, history>>

\* Power loss in the middle of a page program leaves nothing, a torn page or the page.
PowerLoss ==
  /\ ForgetRam
  /\ \/ UNCHANGED flash
     \/ Busy /\ \E c \in {Torn, prog.image} : SetPage(prog.sector, prog.page, c)
  /\ prog' = NoProg /\ wel' = FALSE

\* A reset of the processor alone: the chip keeps working and keeps its latch.
ProcessorReset == ForgetRam /\ UNCHANGED chip

-----------------------------------------------------------------------------
Writer == Identify \/ ScanSector \/ ScanDone \/ OpenSector \/ CheckPage \/ WriteEnable
          \/ ProgramPage \/ PollStatus \/ VerifyPage

Next ==
  \/ \E m \in Modes, k \in Kinds : Begin(m, k)
  \/ Identify \/ ScanSector \/ ScanDone
  \/ Append \/ OpenSector \/ CheckPage \/ WriteEnable \/ ProgramPage \/ PollStatus
  \/ VerifyPage
  \/ ChipFinishes \/ PowerLoss \/ ProcessorReset

Spec == Init /\ [][Next]_vars

\* The firmware is one loop that keeps running; no progress is owed to a failing transfer
\* or a faulty chip, so the steps that only a fault allows are not counted on.
Faults == {"CLOCK", "IO", "ID", "SFDP", "PROTECTED", "QE", "WEL"}
FairSpec == Spec /\ WF_vars(Writer /\ error' \notin Faults)

-----------------------------------------------------------------------------
(***************************************************************************)
(* What the host recovers (diagnostics/storage.py: page_decode, recover)   *)
(***************************************************************************)
ValidHeader(s) == flash[s][0].type = "header" /\ flash[s][0].session <= s

ValidData(s, p) ==
  /\ p # 0 /\ flash[s][p].type = "data"
  /\ flash[s][p].session <= s /\ flash[s][p].counter # 0
  /\ flash[s][p].chunk = (p - 1) % Width[flash[s][p].kind]

\* The identity of a session is the one of its first sector; the build stands for it.
SectorAccepted(s) ==
  /\ ValidHeader(s)
  /\ \E f \in 0..s :
       /\ ValidHeader(f) /\ flash[f][0].session = flash[s][0].session
       /\ flash[f][0].kind = flash[s][0].kind
       /\ \A e \in 0 .. f - 1 :
            ValidHeader(e) => flash[e][0].session # flash[s][0].session

\* The layout of a sector is the one of its first valid data page.
SectorLayout(s, k) ==
  \E p \in Page : /\ ValidData(s, p) /\ flash[s][p].kind = k
                  /\ \A q \in 1 .. p - 1 : ~ValidData(s, q)

\* Fault: the last chunk of a record is not looked at.
Complete_LastUnchecked(s, k, sl) ==
  \A i \in 0 .. Width[k] - 2 :
    LET page == flash[s][PageOf(k, sl, i)] IN
      /\ ValidData(s, PageOf(k, sl, i))
      /\ page.kind = k /\ page.session = flash[s][0].session /\ page.chunk = i
      /\ page.counter = flash[s][PageOf(k, sl, 0)].counter

Complete(s, k, sl) ==
  \A i \in 0 .. Width[k] - 1 :
    LET page == flash[s][PageOf(k, sl, i)] IN
      /\ ValidData(s, PageOf(k, sl, i))
      /\ page.kind = k /\ page.session = flash[s][0].session /\ page.chunk = i
      /\ page.counter = flash[s][PageOf(k, sl, 0)].counter

\* The samples (their boots) a page holds bytes of.
Origin(page) == IF page.type = "data" THEN {page.boot} ELSE {0}

\* The complete records of the image, each with the boots its chunks came from.
RecordAt(s, k, sl) ==
  [sector |-> s, slot |-> sl, session |-> flash[s][0].session,
   counter |-> flash[s][PageOf(k, sl, 0)].counter,
   boots |-> UNION {Origin(flash[s][PageOf(k, sl, i)]) : i \in 0 .. Width[k] - 1}]
Candidates ==
  {RecordAt(x[1], x[2], x[3]) : x \in {y \in Sector \X Kinds \X (0 .. DataPages - 1) :
     /\ SectorAccepted(y[1]) /\ SectorLayout(y[1], y[2])
     /\ y[3] < Slots[y[2]] /\ Complete(y[1], y[2], y[3])}}

Earlier(q, r) == q.sector < r.sector \/ (q.sector = r.sector /\ q.slot < r.slot)

\* Fault: one last counter for the whole image, not one per session.
Recovered_OneCounter ==
  {r \in Candidates : \A q \in Candidates : Earlier(q, r) => q.counter < r.counter}

\* A record whose counter does not pass the last one of its session is refused; passing
\* the last accepted one is passing every complete one before it.
Recovered == {r \in Candidates : \A q \in Candidates :
                (Earlier(q, r) /\ q.session = r.session) => q.counter < r.counter}

RecoveredLog == {[boot |-> CHOOSE b \in r.boots : TRUE, counter |-> r.counter] : r \in Recovered}

-----------------------------------------------------------------------------
(***************************************************************************)
(* Properties                                                              *)
(***************************************************************************)
ChipTypeOK ==
  /\ flash \in [Sector -> [Page -> Content]]
  /\ prog \in Programs \cup {NoProg} /\ wel \in BOOLEAN

ControlTypeOK ==
  /\ pc \in {"off", "identify", "scan", "idle", "open", "check", "enable", "program",
             "wait", "verify"}
  /\ mode \in Modes /\ kind \in Kinds
  /\ status \in {"off", "scanning", "ready", "stopped"} /\ error \in Errors

PlaceTypeOK ==
  /\ scanned \in 0..Sectors /\ used \in 0..Sectors /\ next \in 0..Sectors
  /\ open \in BOOLEAN /\ slot \in 0 .. Slots[kind] - 1 /\ chunk \in 0 .. Width[kind] - 1

CountTypeOK ==
  /\ counter \in 0 .. CounterModulus - 1 /\ last \in 0 .. CounterModulus - 1
  /\ written \in Nat /\ dropped \in 0..MaxDropped
  /\ boots \in 0..MaxBoots /\ misreads \in 0..MaxMisreads
  /\ acked \subseteq [boot : Nat, counter : Nat]

TypeOK == ChipTypeOK /\ ControlTypeOK /\ PlaceTypeOK /\ CountTypeOK

\* "Never erase data": the array only ever changes where it was blank, even when a scan, a
\* sector check and a page check have between them read wrong data twice (storage.c:3).
OnlyBlankProgrammed ==
  [][\A s \in Sector, p \in Page : flash'[s][p] # flash[s][p] => flash[s][p] = Blank]_vars

\* "Never reuse a sector after reboot": no sector holds pages of two boots, and a session
\* number found in the image belongs to one boot, whatever headers were torn before.
SessionPerBoot ==
  \A s, t \in Sector, p, q \in Page :
    (/\ flash[s][p].type = "data" /\ flash[t][q].type = "data"
     /\ s = t \/ flash[s][p].session = flash[t][q].session)
    => flash[s][p].boot = flash[t][q].boot

\* A record the host recovers is whole: all its chunks are from one sample, never a mix
\* of what two boots or two layouts left behind.
RecoveredIntact == \A r \in Recovered : \E b \in 1..boots : r.boots = {b}

\* A failure ends the session (storage.c:14), so a boot damages at most one page.
OneTornPagePerBoot ==
  Cardinality({x \in Sector \X Page : flash[x[1]][x[2]] = Torn}) <= boots

\* Every acquisition of a recording boot is counted once, as written or as dropped.
EveryCallCounted ==
  (pc = "idle" /\ mode = "record") => (written + dropped) % CounterModulus = counter

\* Every storage call returns: each wait for the chip is bounded (storage.c:56-62).
CallsReturn == (pc \notin {"idle", "off"}) ~> (pc \in {"idle", "off"})

\* The image implements the promised log: it only grows, by whole records, in order and
\* without a gap inside a boot, and every record counted as written stays recoverable.
J == INSTANCE Journal WITH log <- RecoveredLog
JournalSpec == J!JSpec
==============================================================================
