--------------------------- MODULE FlashLogProofs ---------------------------
(***************************************************************************)
(* Theorems about FlashLog, for every number of sectors, every layout and  *)
(* every number of boots.                                                  *)
(***************************************************************************)
EXTENDS FlashLog, FiniteSetTheorems, TLAPS

\* Where storage_append is inside a record.
Appending == {"open", "check", "enable", "program", "wait", "verify"}

\* What the control flow adds to the types: pages are only ever addressed inside the array.
ControlInv ==
  /\ pc \in Appending => next < Sectors /\ status = "ready" /\ dropped < MaxDropped
  /\ pc \in {"off", "identify", "scan"} => status # "ready"
  /\ pc \in {"off", "identify"} => scanned = 0
  /\ pc \in {"off", "identify", "scan", "open"} => ~open
  /\ open => next < Sectors
  /\ ~open => slot = 0 /\ chunk = 0

TypeInv == TypeOK /\ ControlInv

\* The pages of a record lie inside its sector, after the header page.
LEMMA PageOfInSector ==
  ASSUME NEW k \in Kinds, NEW sl \in 0 .. Slots[k] - 1, NEW i \in 0 .. Width[k] - 1
  PROVE  PageOf(k, sl, i) \in Page /\ PageOf(k, sl, i) > 0
<1> DEFINE W == Width[k]  S == Slots[k]
<1>1. W \in Nat \ {0} /\ S \in Nat \ {0} /\ W * S = DataPages /\ DataPages \in Nat
  BY LayoutAssumption
<1>2. sl + 1 <= S /\ i < W /\ sl \in Nat /\ i \in Nat
  BY <1>1
<1> HIDE DEF W, S
<1>3. W * (sl + 1) <= W * S
  BY <1>1, <1>2
<1>4. W * (sl + 1) = W * sl + W
  BY <1>1, <1>2
<1>5. W * sl \in Nat
  BY <1>1, <1>2
<1>6. 1 + W * sl + i <= DataPages /\ 1 + W * sl + i \in Nat /\ 1 + W * sl + i > 0
  BY <1>1, <1>2, <1>3, <1>4, <1>5
<1> QED BY <1>6, <1>1 DEF PageOf, Page, W

\* The page the writer is about to program, and what it programs, are well typed.
LEMMA TargetType == TypeOK => Target \in Page
<1> SUFFICES ASSUME TypeOK PROVE Target \in Page
  OBVIOUS
<1>1. CASE open
  BY <1>1, PageOfInSector DEF TypeOK, ControlTypeOK, PlaceTypeOK, Target
<1>2. CASE ~open
  BY <1>2, LayoutAssumption DEF Target, Page
<1> QED BY <1>1, <1>2

LEMMA ImageType == TypeOK => Image \in Content
<1> SUFFICES ASSUME TypeOK PROVE Image \in Content
  OBVIOUS
<1> counter \in Nat /\ chunk \in Nat /\ boots \in Nat /\ used \in Nat /\ kind \in Kinds
  BY LayoutAssumption, BoundAssumption DEF TypeOK, ControlTypeOK, PlaceTypeOK, CountTypeOK
<1>1. CASE open
  BY <1>1 DEF Image, Data, Session, Content
<1>2. CASE ~open
  BY <1>2 DEF Image, Header, Session, Content
<1> QED BY <1>1, <1>2

LEMMA InitType == Init => TypeInv
<1> SUFFICES ASSUME Init PROVE TypeInv
  OBVIOUS
<1> USE DEF Init, RamInit
<1>1. ChipTypeOK
  BY DEF ChipTypeOK, Content
<1>2. ControlTypeOK
  BY DEF ControlTypeOK, Modes, Errors
<1>3. PlaceTypeOK
  <2>1. Slots[kind] \in Nat \ {0} /\ Width[kind] \in Nat \ {0} /\ Sectors \in Nat
    BY LayoutAssumption
  <2>2. scanned \in 0..Sectors /\ used \in 0..Sectors /\ next \in 0..Sectors
        /\ slot \in 0 .. Slots[kind] - 1 /\ chunk \in 0 .. Width[kind] - 1
    BY <2>1
  <2> QED BY <2>2 DEF PlaceTypeOK
<1>4. CountTypeOK
  BY BoundAssumption DEF CountTypeOK
<1>5. ControlInv
  BY DEF ControlInv, Appending
<1> QED BY <1>1, <1>2, <1>3, <1>4, <1>5 DEF TypeInv, TypeOK

\* Only ProgramPage, ChipFinishes and PowerLoss change more of the chip than its latch.
LEMMA NextChipType == TypeInv /\ [Next]_vars => ChipTypeOK'
<1> SUFFICES ASSUME TypeInv, [Next]_vars PROVE ChipTypeOK'
  OBVIOUS
<1> USE DEF TypeInv, TypeOK, ChipTypeOK
<1>1. ASSUME UNCHANGED chip PROVE ChipTypeOK'
  BY <1>1 DEF chip
<1>2. CASE WriteEnable
  BY <1>2 DEF WriteEnable
<1>3. CASE ProgramPage
  <2>1. Target \in Page /\ Image \in Content /\ Torn \in Content
    BY TargetType, ImageType DEF Content
  <2>2. next \in Sector
    BY <1>3, LayoutAssumption DEF ProgramPage, ControlInv, Appending, PlaceTypeOK, Sector
  <2> QED BY <1>3, <2>1, <2>2 DEF ProgramPage, Programs
<1>4. ASSUME NEW c \in Content, Busy, SetPage(prog.sector, prog.page, c)
      PROVE  flash' \in [Sector -> [Page -> Content]]
  BY <1>4 DEF Busy, SetPage, Programs
<1>5. Busy => prog.image \in Content
  BY DEF Busy, Programs
<1>6. CASE ChipFinishes
  BY <1>4, <1>5, <1>6 DEF ChipFinishes
<1>7. CASE PowerLoss
  <2>1. Torn \in Content
    BY DEF Content
  <2> QED BY <1>4, <1>5, <1>7, <2>1 DEF PowerLoss
<1>8. CASE Next /\ ~(WriteEnable \/ ProgramPage \/ ChipFinishes \/ PowerLoss)
  BY <1>1, <1>8 DEF Next, Begin, Identify, BeginFails, ScanSector, ScanDone, Append, OpenSector,
     CheckPage, PollStatus, VerifyPage, ProcessorReset
<1>9. CASE UNCHANGED vars
  BY <1>1, <1>9 DEF vars
<1> QED BY <1>2, <1>3, <1>6, <1>7, <1>8, <1>9

\* The control variables stay in their enumerations.
LEMMA NextControlType == TypeInv /\ [Next]_vars => ControlTypeOK'
<1> SUFFICES ASSUME TypeInv, [Next]_vars PROVE ControlTypeOK'
  OBVIOUS
<1> USE DEF TypeInv, TypeOK, ControlTypeOK, Modes, Errors,
        chip, scan, place, identity, totals, history
<1>1. ASSUME NEW m \in Modes, NEW k \in Kinds, Begin(m, k) PROVE ControlTypeOK'
  BY <1>1 DEF Begin
<1>2. CASE Identify
  BY <1>2 DEF Identify, BeginFails, Fail
<1>3. CASE ScanSector
  BY <1>3 DEF ScanSector, BeginFails, Fail, ReadBlank
<1>4. CASE ScanDone
  BY <1>4 DEF ScanDone, BeginFails, Fail
<1>5. CASE Append
  BY <1>5 DEF Append, Fail
<1>6. CASE OpenSector
  BY <1>6 DEF OpenSector, AppendFails, Fail, ReadBlank, Goto
<1>7. CASE CheckPage
  BY <1>7 DEF CheckPage, AppendFails, Fail, ReadBlank, Goto
<1>8. CASE WriteEnable
  BY <1>8 DEF WriteEnable, AppendFails, Fail, Goto
<1>9. CASE ProgramPage
  BY <1>9 DEF ProgramPage, AppendFails, Fail, Goto
<1>10. CASE PollStatus
  BY <1>10 DEF PollStatus, AppendFails, Fail, Goto
<1>11. CASE VerifyPage
  BY <1>11 DEF VerifyPage, AppendFails, Fail, Goto, HeaderDone, ChunkDone, RecordDone
<1>12. CASE ChipFinishes
  BY <1>12 DEF ChipFinishes
<1>13. CASE PowerLoss
  BY <1>13 DEF PowerLoss, ForgetRam
<1>14. CASE ProcessorReset
  BY <1>14 DEF ProcessorReset, ForgetRam
<1>15. CASE UNCHANGED vars
  BY <1>15 DEF vars
<1> QED
  BY <1>1, <1>2, <1>3, <1>4, <1>5, <1>6, <1>7, <1>8, <1>9, <1>10, <1>11, <1>12, <1>13, <1>14, <1>15
     DEF Next

\* The writer's place stays inside the array and its layout.
LEMMA NextPlaceType == TypeInv /\ [Next]_vars => PlaceTypeOK'
<1> SUFFICES ASSUME TypeInv, [Next]_vars PROVE PlaceTypeOK'
  OBVIOUS
<1> USE LayoutAssumption, BoundAssumption
    DEF TypeInv, TypeOK, ControlTypeOK, PlaceTypeOK, CountTypeOK, ControlInv, Appending,
        chip, scan, place, identity, totals, history
<1> Slots[kind] \in Nat \ {0} /\ Width[kind] \in Nat \ {0}
  OBVIOUS
<1>1. ASSUME NEW m \in Modes, NEW k \in Kinds, Begin(m, k) PROVE PlaceTypeOK'
  BY <1>1 DEF Begin
<1>2. CASE Identify
  BY <1>2 DEF Identify, BeginFails, Fail
<1>3. CASE ScanSector
  BY <1>3 DEF ScanSector, BeginFails, Fail, ReadBlank
<1>4. CASE ScanDone
  BY <1>4 DEF ScanDone, BeginFails, Fail
<1>5. CASE Append
  BY <1>5 DEF Append, Fail
<1>6. CASE OpenSector
  BY <1>6 DEF OpenSector, AppendFails, Fail, ReadBlank, Goto
<1>7. CASE CheckPage
  BY <1>7 DEF CheckPage, AppendFails, Fail, ReadBlank, Goto
<1>8. CASE WriteEnable
  BY <1>8 DEF WriteEnable, AppendFails, Fail, Goto
<1>9. CASE ProgramPage
  BY <1>9 DEF ProgramPage, AppendFails, Fail, Goto
<1>10. CASE PollStatus
  BY <1>10 DEF PollStatus, AppendFails, Fail, Goto
<1>11. CASE VerifyPage
  <2>1. scanned' = scanned /\ used' = used /\ kind' = kind
    BY <1>11 DEF VerifyPage, AppendFails, Goto, HeaderDone, ChunkDone, RecordDone
  <2>2. 0 \in 0 .. Slots[kind] - 1 /\ 0 \in 0 .. Width[kind] - 1
    OBVIOUS
  <2>3. ASSUME NEW e, AppendFails(e) PROVE PlaceTypeOK'
    BY <2>1, <2>2, <2>3 DEF AppendFails
  <2>4. CASE HeaderDone
    BY <2>1, <2>2, <2>4 DEF HeaderDone
  <2>5. CASE ChunkDone
    BY <2>1, <2>5 DEF ChunkDone
  <2>6. CASE RecordDone
    <3>1. next < Sectors /\ next + 1 \in 0..Sectors
      BY <1>11 DEF VerifyPage
    <3>2. open' \in BOOLEAN
      BY <2>6 DEF RecordDone
    <3>3. chunk' = 0 /\ next' \in 0..Sectors
      BY <2>6, <3>1 DEF RecordDone
    <3>4. slot' \in 0 .. Slots[kind] - 1
      <4>1. CASE slot + 1 = Slots[kind]
        BY <2>2, <2>6, <4>1 DEF RecordDone
      <4>2. CASE slot + 1 # Slots[kind]
        <5>1. slot' = slot + 1
          BY <2>6, <4>2 DEF RecordDone
        <5> QED BY <4>2, <5>1
      <4> QED BY <4>1, <4>2
    <3> QED BY <2>1, <2>2, <3>2, <3>3, <3>4
  <2> QED BY <1>11, <2>3, <2>4, <2>5, <2>6 DEF VerifyPage
<1>12. CASE ChipFinishes
  BY <1>12 DEF ChipFinishes
<1>13. ASSUME ForgetRam PROVE PlaceTypeOK'
  <2>1. kind' = kind /\ scanned' = 0 /\ used' = 0 /\ next' = 0 /\ open' = FALSE
        /\ slot' = 0 /\ chunk' = 0
    BY <1>13 DEF ForgetRam
  <2>2. 0 \in 0 .. Slots[kind] - 1 /\ 0 \in 0 .. Width[kind] - 1 /\ 0 \in 0..Sectors
    OBVIOUS
  <2> QED BY <2>1, <2>2
<1>14. CASE PowerLoss \/ ProcessorReset
  BY <1>13, <1>14 DEF PowerLoss, ProcessorReset
<1>15. CASE UNCHANGED vars
  BY <1>15 DEF vars
<1> QED
  BY <1>1, <1>2, <1>3, <1>4, <1>5, <1>6, <1>7, <1>8, <1>9, <1>10, <1>11, <1>12, <1>13, <1>14, <1>15
     DEF Next

\* The counters keep their ranges.
LEMMA NextCountType == TypeInv /\ [Next]_vars => CountTypeOK'
<1> SUFFICES ASSUME TypeInv, [Next]_vars PROVE CountTypeOK'
  OBVIOUS
<1> USE BoundAssumption DEF TypeInv, TypeOK, CountTypeOK, ControlInv, Appending,
        chip, scan, place, identity, totals, history
<1>1. ASSUME NEW m \in Modes, NEW k \in Kinds, Begin(m, k) PROVE CountTypeOK'
  BY <1>1 DEF Begin
<1>2. CASE Identify
  BY <1>2 DEF Identify, BeginFails, Fail
<1>3. CASE ScanSector
  BY <1>3 DEF ScanSector, BeginFails, Fail, ReadBlank
<1>4. CASE ScanDone
  BY <1>4 DEF ScanDone, BeginFails, Fail
<1>5. CASE Append
  BY <1>5 DEF Append, Fail
<1>6. CASE OpenSector
  BY <1>6 DEF OpenSector, AppendFails, Fail, ReadBlank, Goto
<1>7. CASE CheckPage
  BY <1>7 DEF CheckPage, AppendFails, Fail, ReadBlank, Goto
<1>8. CASE WriteEnable
  BY <1>8 DEF WriteEnable, AppendFails, Fail, Goto
<1>9. CASE ProgramPage
  BY <1>9 DEF ProgramPage, AppendFails, Fail, Goto
<1>10. CASE PollStatus
  BY <1>10 DEF PollStatus, AppendFails, Fail, Goto
<1>11. CASE VerifyPage
  BY <1>11 DEF VerifyPage, AppendFails, Fail, Goto, HeaderDone, ChunkDone, RecordDone
<1>12. CASE ChipFinishes
  BY <1>12 DEF ChipFinishes
<1>13. CASE PowerLoss
  BY <1>13 DEF PowerLoss, ForgetRam
<1>14. CASE ProcessorReset
  BY <1>14 DEF ProcessorReset, ForgetRam
<1>15. CASE UNCHANGED vars
  BY <1>15 DEF vars
<1> QED
  BY <1>1, <1>2, <1>3, <1>4, <1>5, <1>6, <1>7, <1>8, <1>9, <1>10, <1>11, <1>12, <1>13, <1>14, <1>15
     DEF Next

\* The writer is only ever inside a record of a ready session with a sector to write.
LEMMA NextControlInv == TypeInv /\ [Next]_vars => ControlInv'
<1> SUFFICES ASSUME TypeInv, [Next]_vars PROVE ControlInv'
  OBVIOUS
<1> USE LayoutAssumption, BoundAssumption
    DEF TypeInv, TypeOK, ControlTypeOK, PlaceTypeOK, CountTypeOK, ControlInv, Appending,
        chip, scan, place, identity, totals, history
<1> Slots[kind] \in Nat \ {0} /\ Width[kind] \in Nat \ {0}
  OBVIOUS
<1>1. ASSUME NEW m \in Modes, NEW k \in Kinds, Begin(m, k) PROVE ControlInv'
  BY <1>1 DEF Begin
<1>2. CASE Identify
  BY <1>2 DEF Identify, BeginFails, Fail
<1>3. CASE ScanSector
  BY <1>3 DEF ScanSector, BeginFails, Fail, ReadBlank
<1>4. CASE ScanDone
  BY <1>4 DEF ScanDone, BeginFails, Fail
<1>5. CASE Append
  BY <1>5 DEF Append, Fail
<1>6. CASE OpenSector
  BY <1>6 DEF OpenSector, AppendFails, Fail, ReadBlank, Goto
<1>7. CASE CheckPage
  BY <1>7 DEF CheckPage, AppendFails, Fail, ReadBlank, Goto
<1>8. CASE WriteEnable
  BY <1>8 DEF WriteEnable, AppendFails, Fail, Goto
<1>9. CASE ProgramPage
  BY <1>9 DEF ProgramPage, AppendFails, Fail, Goto
<1>10. CASE PollStatus
  BY <1>10 DEF PollStatus, AppendFails, Fail, Goto
<1>11. CASE VerifyPage
  BY <1>11 DEF VerifyPage, AppendFails, Fail, Goto, HeaderDone, ChunkDone, RecordDone
<1>12. CASE ChipFinishes
  BY <1>12 DEF ChipFinishes
<1>13. CASE PowerLoss
  BY <1>13 DEF PowerLoss, ForgetRam
<1>14. CASE ProcessorReset
  BY <1>14 DEF ProcessorReset, ForgetRam
<1>15. CASE UNCHANGED vars
  BY <1>15 DEF vars
<1> QED
  BY <1>1, <1>2, <1>3, <1>4, <1>5, <1>6, <1>7, <1>8, <1>9, <1>10, <1>11, <1>12, <1>13, <1>14, <1>15
     DEF Next

LEMMA NextType == TypeInv /\ [Next]_vars => TypeInv'
BY NextChipType, NextControlType, NextPlaceType, NextCountType, NextControlInv
   DEF TypeInv, TypeOK

\* Every variable keeps its type: in particular the writer only addresses pages of the array.
THEOREM TypeCorrect == Spec => []TypeOK
<1>1. Init => TypeInv
  BY InitType
<1>2. TypeInv /\ [Next]_vars => TypeInv'
  BY NextType
<1>3. TypeInv => TypeOK
  BY DEF TypeInv
<1> QED BY <1>1, <1>2, <1>3, PTL DEF Spec

-----------------------------------------------------------------------------
(***************************************************************************)
(* Nothing but a blank page is ever programmed                             *)
(*                                                                         *)
(* The three reads that guard a page (the scan, the sector check, the page *)
(* check) have to be wrong one after the other before a used page is       *)
(* programmed. BlankInv counts them: at each stage of the writer, a page   *)
(* ahead of it that is not blank has cost one wrong read more.             *)
(***************************************************************************)
\* The pages of the open sector the writer has not reached.
Ahead(p) == IF pc \in {"wait", "verify"} THEN p > Target ELSE p >= Target

ProgramsBlank == Busy => flash[prog.sector][prog.page] = Blank

ScanInv == pc = "scan" =>
  /\ ~Busy
  /\ \A s \in Sector : (s < scanned /\ s >= used /\ ~SectorBlank(s)) => misreads >= 1

LaterSectors == status = "ready" =>
  \A s \in Sector : (s > next /\ ~SectorBlank(s)) => misreads >= 1

NextSector == (status = "ready" /\ ~open /\ pc \in {"idle", "open"} /\ next \in Sector) =>
  (~SectorBlank(next) => misreads >= 1)

LaterPages == (status = "ready" /\ (open \/ pc \in Appending \ {"open"})) =>
  \A p \in Page : (Ahead(p) /\ flash[next][p] # Blank) => misreads >= 2

CheckedPage == pc \in {"enable", "program"} => flash[next][Target] = Blank

ChipIdle == status = "ready" =>
  (Busy => pc = "wait" /\ prog.sector = next /\ prog.page = Target)

BlankInv == /\ ProgramsBlank /\ ScanInv /\ LaterSectors /\ NextSector /\ LaterPages
            /\ CheckedPage /\ ChipIdle

\* A writer that is not inside a session owes nothing but the program in flight.
LEMMA OutsideSession ==
  ASSUME ProgramsBlank', status' # "ready", pc' \notin {"scan", "enable", "program"}
  PROVE  BlankInv'
BY DEF BlankInv, ScanInv, LaterSectors, NextSector, LaterPages, CheckedPage, ChipIdle

\* The next page of a record, and the first page of the next record, follow at once.
LEMMA PageOfNext ==
  ASSUME NEW k \in Kinds, NEW sl \in Nat, NEW i \in Nat
  PROVE  /\ PageOf(k, sl, i) \in Nat
         /\ PageOf(k, sl, i + 1) = PageOf(k, sl, i) + 1
         /\ i + 1 = Width[k] => PageOf(k, sl + 1, 0) = PageOf(k, sl, i) + 1
<1> DEFINE W == Width[k]
<1>1. W \in Nat
  BY LayoutAssumption
<1> HIDE DEF W
<1>2. W * (sl + 1) = W * sl + W /\ W * sl \in Nat
  BY <1>1
<1>3. 1 + W * sl + i \in Nat /\ 1 + W * sl + (i + 1) = (1 + W * sl + i) + 1
  BY <1>1, <1>2
<1>4. i + 1 = W => 1 + W * (sl + 1) + 0 = (1 + W * sl + i) + 1
  BY <1>1, <1>2
<1> QED BY <1>3, <1>4 DEF PageOf, W

\* A wrong read is counted, and a third one is not among the faults considered.
LEMMA WrongRead ==
  ASSUME TypeOK, NEW truth \in BOOLEAN, NEW seen \in BOOLEAN, ReadBlank(truth, seen)
  PROVE  /\ misreads \in Nat /\ misreads' \in Nat /\ misreads' >= misreads /\ misreads' <= 2
         /\ seen /\ ~truth => misreads' = misreads + 1
<1>1. misreads \in Nat /\ MaxMisreads <= 2 /\ MaxMisreads \in Nat
  BY BoundAssumption DEF TypeOK, CountTypeOK
<1>2. misreads' = misreads \/ misreads' = misreads + 1
  BY DEF ReadBlank
<1>3. misreads' <= MaxMisreads
  BY DEF ReadBlank
<1>4. seen /\ ~truth => misreads' = misreads + 1
  BY DEF ReadBlank
<1> QED BY <1>1, <1>2, <1>3, <1>4

LEMMA InitBlank == Init => BlankInv
BY DEF Init, RamInit, BlankInv, ProgramsBlank, ScanInv, LaterSectors, NextSector, LaterPages,
       CheckedPage, ChipIdle, Busy

\* The boot: the scan counts a wrong read for each used sector it takes for blank.
LEMMA BootBlank ==
  ASSUME TypeInv, BlankInv,
         \/ \E m \in Modes, k \in Kinds : Begin(m, k)
         \/ Identify \/ ScanSector \/ ScanDone
  PROVE  BlankInv'
<1> USE DEF TypeInv, TypeOK, ControlInv, BlankInv
<1>0. UNCHANGED chip
  BY DEF Begin, Identify, BeginFails, ScanSector, ScanDone
<1>1. ProgramsBlank'
  BY <1>0 DEF ProgramsBlank, chip, Busy
<1>2. ASSUME NEW m \in Modes, NEW k \in Kinds, Begin(m, k) PROVE BlankInv'
  BY <1>1, <1>2, OutsideSession DEF Begin
<1>3. ASSUME NEW e, BeginFails(e) PROVE BlankInv'
  BY <1>1, <1>3, OutsideSession DEF BeginFails, Fail
<1>4. CASE Identify /\ pc' = "scan"
  <2>1. /\ status' # "ready" /\ ~Busy /\ scanned' = 0
    BY <1>4 DEF Identify, BeginFails, scan
  <2>2. ~Busy'
    BY <1>0, <2>1 DEF Busy, chip
  <2>3. ScanInv'
    BY <2>1, <2>2 DEF ScanInv, Sector
  <2> QED
    BY <1>1, <1>4, <2>1, <2>3
       DEF LaterSectors, NextSector, LaterPages, CheckedPage, ChipIdle
<1>5. CASE ScanSector /\ pc' = "scan"
  <2>1. PICK seen \in BOOLEAN :
          /\ ReadBlank(SectorBlank(scanned), seen)
          /\ used' = IF seen THEN used ELSE scanned + 1
          /\ scanned' = scanned + 1
    BY <1>5 DEF ScanSector, BeginFails
  <2>2. pc = "scan" /\ status' # "ready" /\ flash' = flash /\ prog' = prog
    BY <1>0, <1>5 DEF ScanSector, BeginFails, chip
  <2>3. scanned \in Nat /\ used \in Nat
    BY LayoutAssumption DEF PlaceTypeOK
  <2>4. ASSUME NEW s \in Sector, s < scanned', s >= used', ~SectorBlank(s)'
        PROVE  misreads' >= 1
    <3>1. s \in Nat /\ ~SectorBlank(s)
      BY <2>2, <2>4 DEF SectorBlank, Sector
    <3>2. SectorBlank(scanned) \in BOOLEAN
      BY DEF SectorBlank
    <3>3. misreads \in Nat /\ misreads' \in Nat /\ misreads' >= misreads
          /\ (seen /\ ~SectorBlank(scanned) => misreads' = misreads + 1)
      BY <2>1, <3>2, WrongRead
    <3>4. CASE ~seen
      BY <2>1, <2>3, <2>4, <3>1, <3>4
    <3>5. CASE seen /\ s = scanned
      BY <3>1, <3>3, <3>5
    <3>6. CASE seen /\ s # scanned
      <4>1. used' = used /\ s < scanned
        BY <2>1, <2>3, <2>4, <3>1, <3>6
      <4>2. misreads >= 1
        BY <2>2, <2>4, <3>1, <4>1 DEF ScanInv
      <4> QED BY <3>3, <4>2
    <3> QED BY <3>4, <3>5, <3>6
  <2>5. ScanInv'
    BY <2>2, <2>4 DEF ScanInv, Busy
  <2> QED
    BY <1>1, <1>5, <2>2, <2>5 DEF LaterSectors, NextSector, LaterPages, CheckedPage, ChipIdle
<1>6. CASE ScanDone /\ status' = "ready"
  <2>1. /\ pc = "scan" /\ scanned = Sectors /\ pc' = "idle" /\ next' = used
        /\ open' = open /\ misreads' = misreads
    BY <1>6 DEF ScanDone, BeginFails, Fail, history
  <2>2. ~Busy' /\ flash' = flash /\ ~open'
    BY <1>0, <2>1 DEF ScanInv, Busy, chip
  <2>3. ASSUME NEW s \in Sector, s >= used, ~SectorBlank(s) PROVE misreads >= 1
    BY <2>1, <2>3, LayoutAssumption DEF ScanInv, Sector
  <2>4. \A s \in Sector : SectorBlank(s)' <=> SectorBlank(s)
    BY <2>2 DEF SectorBlank
  <2>5. LaterSectors' /\ NextSector'
    <3>1. used \in Nat
      BY DEF PlaceTypeOK
    <3> QED BY <2>1, <2>3, <2>4, <3>1 DEF LaterSectors, NextSector, Sector, SectorBlank
  <2> QED
    BY <1>1, <2>1, <2>2, <2>5 DEF ScanInv, LaterPages, CheckedPage, ChipIdle, Appending
<1> QED
  BY <1>2, <1>3, <1>4, <1>5, <1>6 DEF Identify, ScanSector, ScanDone

\* storage_append up to the page program: the sector check and the page check.
LEMMA CheckBlank ==
  ASSUME TypeInv, BlankInv, Append \/ OpenSector \/ CheckPage
  PROVE  BlankInv'
<1> USE DEF TypeInv, TypeOK, ControlInv, BlankInv
<1>0. UNCHANGED chip
  BY DEF Append, OpenSector, CheckPage
<1>1. ProgramsBlank' /\ flash' = flash /\ (Busy' <=> Busy) /\ prog' = prog
  BY <1>0 DEF ProgramsBlank, chip, Busy
<1>2. ASSUME NEW e, AppendFails(e) PROVE BlankInv'
  BY <1>1, <1>2, OutsideSession DEF AppendFails, Fail
<1>3. CASE Append
  <2>1. UNCHANGED <<kind, scan, place, history>> /\ pc = "idle"
    BY <1>3 DEF Append, identity
  <2>2. CASE status' # "ready"
    BY <1>1, <1>3, <2>2, OutsideSession DEF Append
  <2>3. CASE status' = "ready"
    <3>1. status = "ready" /\ pc' = IF open THEN "check" ELSE "open"
      BY <1>3, <2>3 DEF Append, Fail
    <3>2. Target' = Target /\ open' = open /\ next' = next /\ misreads' = misreads
      BY <2>1 DEF Target, place, history, PageOf
    <3>3. LaterSectors' /\ NextSector' /\ ScanInv'
      BY <1>1, <2>1, <3>1, <3>2 DEF LaterSectors, NextSector, ScanInv, SectorBlank
    <3>4. LaterPages'
      BY <1>1, <2>1, <3>1, <3>2 DEF LaterPages, Ahead, Appending
    <3> QED BY <1>1, <2>1, <3>1, <3>3, <3>4 DEF CheckedPage, ChipIdle
  <2> QED BY <2>2, <2>3
<1>4. CASE OpenSector /\ pc' = "check"
  <2>1. /\ pc = "open" /\ ~open /\ status = "ready" /\ status' = status
        /\ UNCHANGED <<place, kind>>
    BY <1>4 DEF OpenSector, AppendFails, Goto, identity, Appending
  <2>2. PICK seen \in BOOLEAN : ReadBlank(SectorBlank(next), seen) /\ seen
    BY <1>4 DEF OpenSector, AppendFails
  <2>3. SectorBlank(next) \in BOOLEAN /\ next \in Sector
    BY <2>1, LayoutAssumption DEF SectorBlank, Sector, PlaceTypeOK, Appending
  <2>4. misreads \in Nat /\ misreads' \in Nat /\ misreads' >= misreads
        /\ (~SectorBlank(next) => misreads' = misreads + 1)
    BY <2>2, <2>3, WrongRead
  <2>5. next' = next /\ open' = open
    BY <2>1 DEF place
  <2>6. ASSUME NEW p \in Page, flash[next][p] # Blank PROVE misreads' >= 2
    <3>1. ~SectorBlank(next)
      BY <2>6 DEF SectorBlank
    <3> QED BY <2>1, <2>3, <2>4, <3>1 DEF NextSector
  <2>7. LaterPages'
    BY <1>1, <2>5, <2>6 DEF LaterPages
  <2>8. LaterSectors'
    BY <1>1, <2>1, <2>4, <2>5 DEF LaterSectors, SectorBlank
  <2> QED
    BY <1>1, <1>4, <2>1, <2>5, <2>7, <2>8 DEF ScanInv, NextSector, CheckedPage, ChipIdle
<1>5. CASE CheckPage /\ pc' = "enable"
  <2>1. pc = "check" /\ status = "ready" /\ status' = status /\ UNCHANGED <<place, kind>>
    BY <1>5 DEF CheckPage, AppendFails, Goto, identity, Appending
  <2>2. PICK seen \in BOOLEAN : ReadBlank(flash[next][Target] = Blank, seen) /\ seen
    BY <1>5 DEF CheckPage, AppendFails
  <2>3. Target \in Page /\ Target \in Nat
    BY TargetType, LayoutAssumption DEF Page
  <2>4. misreads \in Nat /\ misreads' \in Nat /\ misreads' >= misreads /\ misreads' <= 2
        /\ (flash[next][Target] # Blank => misreads' = misreads + 1)
    BY <2>2, WrongRead
  <2>5. next' = next /\ open' = open /\ Target' = Target
    BY <2>1 DEF place, Target, PageOf
  <2>6. flash[next][Target] = Blank
    <3>1. SUFFICES ASSUME flash[next][Target] # Blank PROVE FALSE
      OBVIOUS
    <3>2. Ahead(Target)
      BY <2>1, <2>3 DEF Ahead
    <3>3. misreads >= 2
      BY <2>1, <2>3, <3>1, <3>2 DEF LaterPages, Appending
    <3> QED BY <2>4, <3>1, <3>3
  <2>7. LaterPages'
    BY <1>1, <1>5, <2>1, <2>4, <2>5 DEF LaterPages, Ahead, Appending
  <2>8. LaterSectors'
    BY <1>1, <2>1, <2>4, <2>5 DEF LaterSectors, SectorBlank
  <2> QED
    BY <1>1, <1>5, <2>1, <2>5, <2>6, <2>7, <2>8 DEF ScanInv, NextSector, CheckedPage, ChipIdle
<1>6. OpenSector => pc' = "check" \/ AppendFails("NOT_BLANK") \/ AppendFails("IO")
  BY DEF OpenSector, Goto
<1>7. CheckPage => pc' = "enable" \/ \E e \in Errors : AppendFails(e)
  BY DEF CheckPage, Goto, Errors
<1> QED BY <1>2, <1>3, <1>4, <1>5, <1>6, <1>7

\* The page program itself: it starts on a page that was found blank.
LEMMA ProgramBlank ==
  ASSUME TypeInv, BlankInv, WriteEnable \/ ProgramPage \/ PollStatus
  PROVE  BlankInv'
<1> USE DEF TypeInv, TypeOK, ControlInv, BlankInv
<1>0. UNCHANGED <<flash, history>>
  BY DEF WriteEnable, ProgramPage, PollStatus, chip
<1>1. ~ProgramPage => prog' = prog
  BY DEF WriteEnable, PollStatus, chip
<1>2. ProgramsBlank'
  <2>1. CASE ProgramPage
    <3>1. prog' = prog \/ (prog'.sector = next /\ prog'.page = Target)
      BY <2>1 DEF ProgramPage
    <3>2. flash[next][Target] = Blank
      BY <2>1 DEF ProgramPage, CheckedPage
    <3> QED BY <1>0, <3>1, <3>2 DEF ProgramsBlank, Busy
  <2> QED BY <1>0, <1>1, <2>1 DEF ProgramsBlank, Busy
<1>3. ASSUME NEW e, AppendFails(e) PROVE BlankInv'
  BY <1>2, <1>3, OutsideSession DEF AppendFails, Fail
<1>4. ASSUME Goto(pc'), UNCHANGED place, pc \in {"enable", "program", "wait"},
             pc' \in {"program", "wait", "verify"}, pc = "wait" => pc' = "verify"
      PROVE  /\ status = "ready" /\ status' = "ready"
             /\ Target' = Target /\ next' = next /\ open' = open /\ misreads' = misreads
             /\ LaterSectors' /\ NextSector' /\ ScanInv' /\ LaterPages'
  <2>1. status = "ready" /\ status' = "ready"
    BY <1>4 DEF Goto, Appending
  <2>2. next' = next /\ open' = open /\ misreads' = misreads /\ kind' = kind /\ Target' = Target
    BY <1>0, <1>4 DEF Goto, Target, PageOf, place, history, identity
  <2>3. Target \in Nat /\ \A p \in Page : p \in Nat
    BY TargetType, LayoutAssumption DEF Page
  <2>4. \A p \in Page : Ahead(p)' => Ahead(p)
    BY <1>4, <2>1, <2>2, <2>3 DEF Ahead
  <2>5. LaterPages'
    BY <1>0, <1>4, <2>1, <2>2, <2>4 DEF LaterPages, Appending
  <2> QED
    BY <1>0, <1>4, <2>1, <2>2, <2>5 DEF LaterSectors, NextSector, ScanInv, SectorBlank
<1>5. CASE WriteEnable /\ pc' = "program"
  <2>1. pc = "enable" /\ pc' = "program" /\ Goto(pc') /\ UNCHANGED place
    BY <1>5 DEF WriteEnable, AppendFails
  <2>2. prog' = prog
    BY <1>5 DEF WriteEnable
  <2>3. /\ status = "ready" /\ Target' = Target /\ next' = next
        /\ LaterSectors' /\ NextSector' /\ ScanInv' /\ LaterPages'
    BY <1>4, <2>1
  <2>4. CheckedPage'
    BY <1>0, <2>1, <2>3 DEF CheckedPage
  <2>5. ChipIdle'
    BY <2>1, <2>2, <2>3 DEF ChipIdle, Busy
  <2> QED BY <1>2, <2>3, <2>4, <2>5
<1>6. CASE ProgramPage /\ pc' = "wait"
  <2>1. pc = "program" /\ pc' = "wait" /\ Goto(pc') /\ UNCHANGED place
        /\ prog'.sector = next /\ prog'.page = Target
    BY <1>6 DEF ProgramPage, AppendFails
  <2>2. /\ Target' = Target /\ next' = next
        /\ LaterSectors' /\ NextSector' /\ ScanInv' /\ LaterPages'
    BY <1>4, <2>1
  <2> QED BY <1>2, <1>6, <2>1, <2>2 DEF CheckedPage, ChipIdle
<1>7. CASE PollStatus /\ pc' = "verify"
  <2>1. pc = "wait" /\ pc' = "verify" /\ Goto(pc') /\ UNCHANGED place /\ ~Busy
    BY <1>7 DEF PollStatus, AppendFails
  <2>2. prog' = prog
    BY <1>7 DEF PollStatus, chip
  <2> QED BY <1>2, <1>4, <2>1, <2>2 DEF CheckedPage, ChipIdle, Busy
<1>8. WriteEnable => pc' = "program" \/ \E e \in Errors : AppendFails(e)
  BY DEF WriteEnable, Goto, Errors
<1>9. ProgramPage => pc' = "wait" \/ \E e \in Errors : AppendFails(e)
  BY DEF ProgramPage, Goto, Errors
<1>10. PollStatus => pc' = "verify" \/ \E e \in Errors : AppendFails(e)
  BY DEF PollStatus, Goto, Errors
<1> QED BY <1>3, <1>5, <1>6, <1>7, <1>8, <1>9, <1>10

\* The page is verified: the writer moves on to the page right after it.
LEMMA VerifyBlank ==
  ASSUME TypeInv, BlankInv, VerifyPage
  PROVE  BlankInv'
<1> USE DEF TypeInv, TypeOK, ControlInv, BlankInv
<1>0. UNCHANGED chip
  BY DEF VerifyPage
<1>1. ProgramsBlank' /\ flash' = flash /\ prog' = prog
  BY <1>0 DEF ProgramsBlank, chip, Busy
<1>2. ASSUME NEW e, AppendFails(e) PROVE BlankInv'
  BY <1>1, <1>2, OutsideSession DEF AppendFails, Fail
<1>3. CASE HeaderDone \/ ChunkDone \/ RecordDone
  <2>1. pc = "verify" /\ status = "ready" /\ status' = "ready" /\ kind' = kind /\ ~Busy
    BY <1>3 DEF VerifyPage, HeaderDone, ChunkDone, RecordDone, Goto, identity, ChipIdle, Appending
  <2>2. kind \in Kinds /\ slot \in Nat /\ chunk \in Nat /\ next \in Nat /\ misreads' = misreads
    BY <1>3, LayoutAssumption DEF VerifyPage, HeaderDone, ChunkDone, RecordDone, PlaceTypeOK,
       ControlTypeOK, AppendFails
  <2>3. pc' \notin {"scan", "enable", "program", "wait", "verify"} /\ ~Busy'
    BY <1>1, <1>3, <2>1 DEF HeaderDone, ChunkDone, RecordDone, Goto, Busy
  <2>4. Target \in Nat /\ \A p \in Page : p \in Nat
    BY TargetType, LayoutAssumption DEF Page
  <2>5. \A p \in Page : (p > Target /\ flash[next][p] # Blank) => misreads >= 2
    BY <2>1 DEF LaterPages, Ahead, Appending
  <2>6. ASSUME open', next' = next, Target' = Target + 1 PROVE LaterPages' /\ LaterSectors' /\ NextSector'
    <3>1. \A p \in Page : Ahead(p)' => p > Target
      BY <2>3, <2>4, <2>6 DEF Ahead
    <3>2. LaterPages'
      BY <1>1, <2>2, <2>5, <2>6, <3>1 DEF LaterPages
    <3> QED BY <1>1, <2>1, <2>2, <2>6, <3>2 DEF LaterSectors, NextSector, SectorBlank
  <2>7. CASE HeaderDone
    <3>1. ~open /\ open' /\ slot' = 0 /\ chunk' = 0 /\ next' = next
      BY <2>7 DEF HeaderDone
    <3>2. Target = 0 /\ Target' = PageOf(kind, 0, 0)
      BY <2>1, <3>1 DEF Target, PageOf
    <3>3. PageOf(kind, 0, 0) = 1
      BY <2>2, LayoutAssumption DEF PageOf
    <3> QED BY <1>1, <2>3, <2>6, <3>1, <3>2, <3>3 DEF ScanInv, CheckedPage, ChipIdle
  <2>8. CASE ChunkDone
    <3>1. open /\ open' /\ slot' = slot /\ chunk' = chunk + 1 /\ next' = next
      BY <2>8 DEF ChunkDone
    <3>2. Target = PageOf(kind, slot, chunk) /\ Target' = PageOf(kind, slot, chunk + 1)
      BY <2>1, <3>1 DEF Target, PageOf
    <3> QED
      BY <1>1, <2>2, <2>3, <2>6, <3>1, <3>2, PageOfNext DEF ScanInv, CheckedPage, ChipIdle
  <2>9. CASE RecordDone /\ slot + 1 # Slots[kind]
    <3>1. open /\ open' /\ slot' = slot + 1 /\ chunk' = 0 /\ next' = next /\ chunk + 1 = Width[kind]
      BY <2>9 DEF RecordDone
    <3>2. Target = PageOf(kind, slot, chunk) /\ Target' = PageOf(kind, slot + 1, 0)
      BY <2>1, <3>1 DEF Target, PageOf
    <3> QED
      BY <1>1, <2>2, <2>3, <2>6, <3>1, <3>2, PageOfNext DEF ScanInv, CheckedPage, ChipIdle
  <2>10. CASE RecordDone /\ slot + 1 = Slots[kind]
    <3>1. pc' = "idle" /\ ~open' /\ next' = next + 1
      BY <2>10 DEF RecordDone
    <3>2. \A s \in Sector : s \in Nat
      BY LayoutAssumption DEF Sector
    <3>3. LaterSectors' /\ NextSector'
      BY <1>1, <2>1, <2>2, <3>1, <3>2 DEF LaterSectors, NextSector, SectorBlank
    <3> QED
      BY <1>1, <2>3, <3>1, <3>3 DEF ScanInv, LaterPages, CheckedPage, ChipIdle, Appending
  <2> QED BY <1>3, <2>7, <2>8, <2>9, <2>10
<1> QED BY <1>2, <1>3 DEF VerifyPage

\* The chip and the supply only ever write the page of the program in flight.
LEMMA ChipBlank ==
  ASSUME TypeInv, BlankInv, ChipFinishes \/ PowerLoss \/ ProcessorReset
  PROVE  BlankInv'
<1> USE DEF BlankInv
<1>1. ASSUME ForgetRam, ~Busy' \/ UNCHANGED chip PROVE BlankInv'
  <2>1. ProgramsBlank'
    BY <1>1 DEF ProgramsBlank, Busy, chip
  <2> QED BY <1>1, <2>1, OutsideSession DEF ForgetRam
<1>2. CASE PowerLoss
  BY <1>1, <1>2 DEF PowerLoss, Busy
<1>3. CASE ProcessorReset
  BY <1>1, <1>3 DEF ProcessorReset
<1>4. CASE ChipFinishes
  <2>1. Busy /\ ~Busy' /\ flash' = [flash EXCEPT ![prog.sector][prog.page] = prog.image]
        /\ UNCHANGED <<pc, kind, status, scan, place, misreads>>
    BY <1>4 DEF ChipFinishes, SetPage, Busy, identity, history
  <2>2. Target' = Target /\ next' = next /\ open' = open
    BY <2>1 DEF Target, PageOf, place
  <2>3. flash \in [Sector -> [Page -> Content]] /\ Target \in Page
    BY TargetType DEF TypeInv, TypeOK, ChipTypeOK
  <2>4. CASE status # "ready"
    <3>1. pc \notin {"scan", "enable", "program"}
      BY <2>1, <2>4 DEF ScanInv, TypeInv, ControlInv, Appending
    <3>2. ProgramsBlank'
      BY <2>1 DEF ProgramsBlank
    <3> QED BY <2>1, <2>4, <3>1, <3>2, OutsideSession
  <2>5. CASE status = "ready"
    <3>1. pc = "wait" /\ prog.sector = next /\ prog.page = Target
      BY <2>1, <2>5 DEF ChipIdle
    <3>2. \A s \in Sector : s # next => flash'[s] = flash[s]
      BY <2>1, <2>3, <3>1
    <3>3. \A p \in Page : p # Target => flash'[next][p] = flash[next][p]
      BY <2>1, <2>3, <3>1
    <3>4. \A s \in Sector : s > next => SectorBlank(s)' = SectorBlank(s)
      <4>1. \A s \in Sector : s > next => s # next
        BY LayoutAssumption DEF Sector, TypeInv, TypeOK, PlaceTypeOK
      <4> QED BY <3>2, <4>1 DEF SectorBlank
    <3>5. LaterSectors'
      BY <2>1, <2>2, <3>4 DEF LaterSectors
    <3>6. \A p \in Page : Ahead(p)' => Ahead(p) /\ p # Target
      <4>1. \A p \in Page : p > Target => p # Target
        BY <2>3, LayoutAssumption DEF Page
      <4> QED BY <2>1, <2>2, <3>1, <4>1 DEF Ahead
    <3>7. LaterPages'
      BY <2>1, <2>2, <3>1, <3>3, <3>6 DEF LaterPages, Appending
    <3> QED
      BY <2>1, <3>1, <3>5, <3>7 DEF ProgramsBlank, ScanInv, NextSector, CheckedPage, ChipIdle
  <2> QED BY <2>4, <2>5
<1> QED BY <1>2, <1>3, <1>4

LEMMA NextBlank == TypeInv /\ BlankInv /\ [Next]_vars => BlankInv'
<1> SUFFICES ASSUME TypeInv, BlankInv, [Next]_vars PROVE BlankInv'
  OBVIOUS
<1>1. CASE UNCHANGED vars
  BY <1>1 DEF vars, chip, scan, place, identity, history, BlankInv, ProgramsBlank, ScanInv,
     LaterSectors, NextSector, LaterPages, CheckedPage, ChipIdle, Busy, SectorBlank, Ahead,
     Target, PageOf
<1> QED BY <1>1, BootBlank, CheckBlank, ProgramBlank, VerifyBlank, ChipBlank DEF Next

\* "Never erase data" (storage.c:3): whatever is lost, reset or read wrong (twice at most),
\* a page of the array changes only while it is blank.
THEOREM OnlyBlankPagesProgrammed == Spec => OnlyBlankProgrammed
<1>1. Init => TypeInv /\ BlankInv
  BY InitType, InitBlank
<1>2. TypeInv /\ BlankInv /\ [Next]_vars => (TypeInv /\ BlankInv)'
  BY NextType, NextBlank
<1>3. TypeInv /\ BlankInv /\ [Next]_vars =>
        [\A s \in Sector, p \in Page : flash'[s][p] # flash[s][p] => flash[s][p] = Blank]_vars
  <2> SUFFICES ASSUME TypeInv, BlankInv, Next,
                      NEW s \in Sector, NEW p \in Page, flash'[s][p] # flash[s][p]
               PROVE  flash[s][p] = Blank
    OBVIOUS
  <2>1. flash \in [Sector -> [Page -> Content]]
    BY DEF TypeInv, TypeOK, ChipTypeOK
  <2>2. PICK c : Busy /\ SetPage(prog.sector, prog.page, c)
    BY DEF Next, chip, Begin, Identify, BeginFails, ScanSector, ScanDone, Append, OpenSector,
       CheckPage, WriteEnable, ProgramPage, PollStatus, VerifyPage, ChipFinishes, PowerLoss,
       ProcessorReset
  <2>3. s = prog.sector /\ p = prog.page
    BY <2>1, <2>2 DEF SetPage
  <2> QED BY <2>2, <2>3 DEF BlankInv, ProgramsBlank
<1> QED BY <1>1, <1>2, <1>3, PTL DEF Spec, OnlyBlankProgrammed

-----------------------------------------------------------------------------
(***************************************************************************)
(* Page contents and the layout of a sector                                *)
(***************************************************************************)
\* The fields of a page.
LEMMA PageTypes == Blank.type = "blank" /\ Torn.type = "torn" /\ Blank \in Content /\ Torn \in Content
BY DEF Blank, Torn, Content

LEMMA HeaderFields ==
  ASSUME NEW u, NEW k
  PROVE  /\ Header(u, k).type = "header" /\ Header(u, k).session = u /\ Header(u, k).kind = k
         /\ u \in Nat /\ k \in Kinds => Header(u, k) \in Content
BY DEF Header, Content

LEMMA DataFields ==
  ASSUME NEW k, NEW u, NEW c, NEW i, NEW b
  PROVE  /\ Data(k, u, c, i, b).type = "data" /\ Data(k, u, c, i, b).kind = k
         /\ Data(k, u, c, i, b).session = u /\ Data(k, u, c, i, b).counter = c
         /\ Data(k, u, c, i, b).chunk = i /\ Data(k, u, c, i, b).boot = b
BY DEF Data

LEMMA DataContent ==
  ASSUME NEW d \in Content, d.type = "data"
  PROVE  /\ d.kind \in Kinds /\ d.session \in Nat /\ d.counter \in Nat /\ d.chunk \in Nat
         /\ d.boot \in Nat /\ d = Data(d.kind, d.session, d.counter, d.chunk, d.boot)
<1>1. d \in [type : {"data"}, kind : Kinds, session : Nat, counter : Nat, chunk : Nat, boot : Nat]
  BY DEF Content, Blank, Torn
<1> QED BY <1>1 DEF Data

LEMMA HeaderContent ==
  ASSUME NEW d \in Content, d.type = "header"
  PROVE  d.kind \in Kinds /\ d.session \in Nat /\ d = Header(d.session, d.kind)
<1>1. d \in [type : {"header"}, session : Nat, kind : Kinds]
  BY DEF Content, Blank, Torn
<1> QED BY <1>1 DEF Header

\* The pages of the records of a layout do not overlap, and follow one another.
LEMMA PageOrder ==
  ASSUME NEW k \in Kinds, NEW sl \in Nat, NEW i \in 0 .. Width[k] - 1,
         NEW sm \in Nat, NEW j \in 0 .. Width[k] - 1
  PROVE  /\ PageOf(k, sl, i) \in Nat /\ PageOf(k, sl, i) > 0
         /\ j < i => PageOf(k, sl, j) < PageOf(k, sl, i)
         /\ sm < sl => PageOf(k, sm, j) < PageOf(k, sl, i)
<1> DEFINE W == Width[k]
<1>1. W \in Nat \ {0}
  BY LayoutAssumption
<1>2. i \in Nat /\ j \in Nat /\ i < W /\ j < W
  BY <1>1
<1> HIDE DEF W
<1>3. W * sl \in Nat /\ W * sm \in Nat
  BY <1>1
<1>4. sm < sl => W * sm + W <= W * sl
  <2> SUFFICES ASSUME sm < sl PROVE W * sm + W <= W * sl
    OBVIOUS
  <2>1. PICK n \in Nat : sl = sm + 1 + n
    <3>1. sl - (sm + 1) \in Nat /\ sl = sm + 1 + (sl - (sm + 1))
      OBVIOUS
    <3> QED BY <3>1
  <2>2. W * sl = W * sm + W + W * n /\ W * n \in Nat
    BY <1>1, <2>1
  <2> QED BY <1>1, <1>3, <2>2
<1>5. sm < sl => 1 + W * sm + j < 1 + W * sl + i
  BY <1>1, <1>2, <1>3, <1>4
<1> QED BY <1>1, <1>2, <1>3, <1>5 DEF PageOf, W

LEMMA SamePage ==
  ASSUME NEW k \in Kinds, NEW sl \in Nat, NEW i \in 0 .. Width[k] - 1,
         NEW sm \in Nat, NEW j \in 0 .. Width[k] - 1, PageOf(k, sl, i) = PageOf(k, sm, j)
  PROVE  sl = sm /\ i = j
<1>1. i \in Nat /\ j \in Nat
  BY LayoutAssumption
<1>2. PageOf(k, sl, i) \in Nat /\ PageOf(k, sm, j) \in Nat
  BY PageOrder
<1>3. ~(sl < sm) /\ ~(sm < sl)
  BY <1>2, PageOrder
<1>4. sl = sm
  BY <1>3
<1>5. ~(i < j) /\ ~(j < i)
  BY <1>2, <1>4, PageOrder
<1> QED BY <1>1, <1>4, <1>5

\* Division by w gives the quotient and the remainder that were put together.
LEMMA QuotientRemainder ==
  ASSUME NEW w \in Nat \ {0}, NEW n \in Nat, NEW i \in 0 .. w - 1
  PROVE  (w * n + i) % w = i
<1> DEFINE a == w * n + i
           q == a \div w
           r == a % w
<1>1. a \in Nat
  OBVIOUS
<1>2. a = w * q + r /\ r \in 0 .. w - 1 /\ q \in Int
  BY <1>1
<1> HIDE DEF a, q, r
<1>3. w * n + i = w * q + r /\ w * n \in Nat
  BY <1>2 DEF a
<1>4. n = q
  <2>1. CASE n < q
    <3>1. q - n - 1 \in Nat /\ w * q = w * n + w + w * (q - n - 1)
      BY <1>2, <2>1
    <3>2. w * (q - n - 1) \in Nat
      BY <3>1
    <3> QED BY <1>2, <1>3, <3>1, <3>2
  <2>2. CASE q < n
    <3>1. n - q - 1 \in Nat /\ w * n = w * q + w + w * (n - q - 1)
      BY <1>2, <2>2
    <3>2. w * (n - q - 1) \in Nat
      BY <3>1
    <3>3. w * q \in Int
      BY <1>2
    <3> QED BY <1>2, <1>3, <3>1, <3>2, <3>3
  <2> QED BY <1>2, <2>1, <2>2
<1>5. r = i
  BY <1>2, <1>3, <1>4
<1> QED BY <1>5 DEF a, r

LEMMA ChunkOfPage ==
  ASSUME NEW k \in Kinds, NEW sl \in Nat, NEW i \in 0 .. Width[k] - 1
  PROVE  (PageOf(k, sl, i) - 1) % Width[k] = i
<1> DEFINE W == Width[k]
<1>1. W \in Nat \ {0} /\ i \in 0 .. W - 1
  BY LayoutAssumption
<1> HIDE DEF W
<1>2. (W * sl + i) % W = i /\ W * sl \in Nat
  BY <1>1, QuotientRemainder
<1>3. (1 + W * sl + i) - 1 = W * sl + i
  BY <1>1, <1>2
<1> QED BY <1>2, <1>3 DEF PageOf, W

-----------------------------------------------------------------------------
(***************************************************************************)
(* An array in order                                                       *)
(*                                                                         *)
(* The order the writer keeps in the flash, whoever reads it later. A used *)
(* sector has a header whose session is the index of the sector that was   *)
(* first in use by it (HeaderPages). A data page stands behind the chunks  *)
(* of its record that precede it, in a sector with the header of its       *)
(* session, and after data pages only (DataPagesPlaced). A session and a   *)
(* sector belong to one boot, and the counters of the complete records of  *)
(* a session rise (SessionPerBoot, CountersRise). FlashInv is a statement  *)
(* of the array alone; FlightInv says that the program under way, which a  *)
(* power loss or a reset leaves behind, fits it; NewBoot that a boot       *)
(* starts behind all of it; ReadyInv what a ready writer knows of the      *)
(* pages of its own session.                                               *)
(***************************************************************************)
\* The last page of a record: with it the record is complete.
LastChunk(d) == d.type = "data" /\ d.chunk + 1 = Width[d.kind]

\* The complete records of a boot are those of the counters 1 .. n.
Done(b, n) ==
  /\ \A s \in Sector, p \in Page :
       LastChunk(flash[s][p]) /\ flash[s][p].boot = b => flash[s][p].counter <= n
  /\ \A c \in 1 .. n : \E s \in Sector, p \in Page :
       LastChunk(flash[s][p]) /\ flash[s][p].boot = b /\ flash[s][p].counter = c

\* What stands before a data page d at page p of sector s, if d is there or may be put there.
WellPlaced(s, p, d) ==
  /\ flash[s][0] = Header(d.session, d.kind)
  /\ d.counter > 0 /\ d.boot \in 1 .. boots /\ d.chunk \in 0 .. Width[d.kind] - 1
  /\ \E sl \in 0 .. Slots[d.kind] - 1 :
       /\ p = PageOf(d.kind, sl, d.chunk)
       /\ \A j \in 0 .. d.chunk - 1 :
            flash[s][PageOf(d.kind, sl, j)] = Data(d.kind, d.session, d.counter, j, d.boot)
  /\ \A q \in 1 .. p - 1 : flash[s][q].type = "data"

Before(s, p, t, q) == s < t \/ (s = t /\ p < q)

HeaderPages ==
  \A s \in Sector :
    /\ flash[s][0].type # "data"
    /\ flash[s][0].type = "header" =>
         flash[s][0].session \in 0 .. s /\ flash[flash[s][0].session][0] = flash[s][0]

DataPagesPlaced ==
  \A s \in Sector, p \in Page : flash[s][p].type = "data" => WellPlaced(s, p, flash[s][p])

CountersRise ==
  \A s, t \in Sector, p, q \in Page :
    (/\ LastChunk(flash[s][p]) /\ LastChunk(flash[t][q])
     /\ flash[s][p].session = flash[t][q].session /\ Before(s, p, t, q))
    => flash[s][p].counter < flash[t][q].counter

FlashInv == HeaderPages /\ DataPagesPlaced /\ SessionPerBoot /\ CountersRise

\* A data page c at page p of sector s would be the newest.
Newest(s, p, c) ==
  /\ \A t \in Sector, q \in Page : flash[t][q].type = "data" =>
       /\ flash[t][q].boot <= c.boot
       /\ (t = s \/ flash[t][q].session = c.session) => flash[t][q].boot = c.boot
       /\ (flash[t][q].session = c.session) => Before(t, q, s, p)
  /\ LastChunk(c) => Done(c.boot, c.counter - 1)

Fits(s, p, c) ==
  \/ c = Torn
  \/ \E u \in 0 .. s, k \in Kinds :
       c = Header(u, k) /\ p = 0 /\ (u # s => flash[u][0] = Header(u, k))
  \/ c.type = "data" /\ WellPlaced(s, p, c) /\ Newest(s, p, c)

FlightInv == Busy => Fits(prog.sector, prog.page, prog.image)

NewBoot ==
  /\ pc # "off" => boots >= 1
  /\ \A a \in acked : a.boot <= boots
  /\ pc \in {"off", "identify", "scan"} => last = 0 /\ counter = 0
  /\ pc \in {"identify", "scan"} =>
     /\ \A s \in Sector, p \in Page : flash[s][p].type = "data" => flash[s][p].boot < boots
     /\ (Busy /\ prog.image.type = "data") => prog.image.boot < boots
     /\ \A a \in acked : a.boot < boots

Begun == open \/ next > used
Programming == pc \in {"enable", "program", "wait", "verify"}
InProgram == pc \in {"wait", "verify"}

OwnPages ==
  /\ used <= next
  /\ Begun => flash[used][0] = Header(used, kind)
  /\ open => flash[next][0] = Header(used, kind)
  /\ \A s \in Sector, p \in Page : flash[s][p].type = "data" =>
       /\ flash[s][p].boot = boots <=> (Begun /\ flash[s][p].session = used)
       /\ flash[s][p].boot = boots =>
            s < next \/ (s = next /\ open /\ (p < Target \/ (p = Target /\ InProgram)))
       /\ s = next /\ open => flash[s][p].boot = boots
       /\ Programming /\ ~open => s # next
       /\ Programming /\ ~Begun => flash[s][p].session # used

OwnRecord ==
  /\ \A j \in 0 .. chunk - 1 :
       flash[next][PageOf(kind, slot, j)] = Data(kind, used, counter, j, boots)
  /\ open => \A q \in 1 .. Target - 1 : flash[next][q].type = "data"
  /\ counter = IF pc \in Appending THEN last + 1 ELSE last
  /\ pc = "idle" => chunk = 0
  /\ (InProgram /\ Busy) => prog.image \in {Image, Torn}
  /\ \A a \in acked : a.boot = boots => a.counter <= last

RecordIn == InProgram /\ open /\ chunk + 1 = Width[kind] /\ flash[next][Target] = Image
OwnCounters == Done(boots, IF RecordIn THEN counter ELSE last)

ReadyInv == status = "ready" => OwnPages /\ OwnRecord /\ OwnCounters

RecordInv == FlashInv /\ FlightInv /\ NewBoot /\ ReadyInv

-----------------------------------------------------------------------------
(***************************************************************************)
(* Programming a page that fits keeps the array in order                   *)
(***************************************************************************)
\* A page program changes one page that was blank; what was written stays.
LEMMA PutPage ==
  ASSUME ChipTypeOK, NEW s \in Sector, NEW p \in Page, NEW c \in Content,
         flash[s][p] = Blank, SetPage(s, p, c)
  PROVE  /\ flash'[s][p] = c
         /\ \A t \in Sector, q \in Page : ~(t = s /\ q = p) => flash'[t][q] = flash[t][q]
         /\ \A t \in Sector, q \in Page : flash[t][q].type # "blank" => flash'[t][q] = flash[t][q]
<1>1. flash \in [Sector -> [Page -> Content]]
  BY DEF ChipTypeOK
<1>2. flash' = [flash EXCEPT ![s][p] = c]
  BY DEF SetPage
<1>3. flash'[s][p] = c
  BY <1>1, <1>2
<1>4. \A t \in Sector, q \in Page : ~(t = s /\ q = p) => flash'[t][q] = flash[t][q]
  BY <1>1, <1>2
<1> QED BY <1>3, <1>4, PageTypes

\* A page that stood in its place keeps it as long as nothing written is changed.
LEMMA PlaceKept ==
  ASSUME \A x \in Sector, y \in Page : flash[x][y].type # "blank" => flash'[x][y] = flash[x][y],
         boots \in Nat, boots' \in Nat, boots' >= boots,
         NEW t \in Sector, NEW q \in Page, NEW d \in Content, d.type = "data", WellPlaced(t, q, d)
  PROVE  WellPlaced(t, q, d)'
<1>1. d.kind \in Kinds /\ 0 \in Page
  BY DataContent, LayoutAssumption DEF Page
<1>2. flash'[t][0] = Header(d.session, d.kind)
  BY <1>1, HeaderFields DEF WellPlaced
<1>3. d.boot \in 1 .. boots'
  BY DEF WellPlaced
<1>4. PICK sl \in 0 .. Slots[d.kind] - 1 :
         /\ q = PageOf(d.kind, sl, d.chunk)
         /\ \A j \in 0 .. d.chunk - 1 :
              flash[t][PageOf(d.kind, sl, j)] = Data(d.kind, d.session, d.counter, j, d.boot)
  BY DEF WellPlaced
<1>5. ASSUME NEW j \in 0 .. d.chunk - 1
      PROVE  flash'[t][PageOf(d.kind, sl, j)] = Data(d.kind, d.session, d.counter, j, d.boot)
  <2>1. j \in 0 .. Width[d.kind] - 1
    BY <1>1, LayoutAssumption, DataContent DEF WellPlaced
  <2>2. PageOf(d.kind, sl, j) \in Page
    BY <1>1, <2>1, PageOfInSector
  <2> QED BY <1>4, <2>2, DataFields
<1>6. ASSUME NEW r \in 1 .. q - 1 PROVE flash'[t][r].type = "data"
  <2>1. r \in Page
    BY LayoutAssumption DEF Page
  <2> QED BY <2>1 DEF WellPlaced
<1> QED BY <1>2, <1>3, <1>4, <1>5, <1>6 DEF WellPlaced

\* A page that fits keeps the array in order.
LEMMA FitsInOrder ==
  ASSUME ChipTypeOK, FlashInv, boots \in Nat, boots' = boots,
         NEW s \in Sector, NEW p \in Page, NEW c \in Content,
         flash[s][p] = Blank, SetPage(s, p, c), Fits(s, p, c)
  PROVE  FlashInv'
<1>0. flash \in [Sector -> [Page -> Content]] /\ 0 \in Page
      /\ \A t \in Sector, q \in Page : flash[t][q] \in Content
  BY LayoutAssumption DEF ChipTypeOK, Page
<1>1. /\ flash'[s][p] = c
      /\ \A t \in Sector, q \in Page : ~(t = s /\ q = p) => flash'[t][q] = flash[t][q]
      /\ \A t \in Sector, q \in Page : flash[t][q].type # "blank" => flash'[t][q] = flash[t][q]
  BY PutPage
<1>2. c.type = "data" => WellPlaced(s, p, c) /\ Newest(s, p, c) /\ p # 0
  <2> SUFFICES ASSUME c.type = "data" PROVE WellPlaced(s, p, c) /\ Newest(s, p, c) /\ p # 0
    OBVIOUS
  <2>1. WellPlaced(s, p, c) /\ Newest(s, p, c)
    BY PageTypes, HeaderFields DEF Fits
  <2>2. p # 0
    BY <2>1, DataContent, PageOfInSector DEF WellPlaced
  <2> QED BY <2>1, <2>2
<1>3. HeaderPages'
  <2> SUFFICES ASSUME NEW t \in Sector
               PROVE  /\ flash'[t][0].type # "data"
                      /\ flash'[t][0].type = "header" =>
                           /\ flash'[t][0].session \in 0 .. t
                           /\ flash'[flash'[t][0].session][0] = flash'[t][0]
    BY DEF HeaderPages
  <2>1. CASE ~(t = s /\ p = 0)
    <3>1. flash'[t][0] = flash[t][0]
      BY <1>0, <1>1, <2>1
    <3>2. flash[t][0].type # "data"
      BY DEF FlashInv, HeaderPages
    <3>3. ASSUME flash[t][0].type = "header"
          PROVE  /\ flash[t][0].session \in 0 .. t
                 /\ flash'[flash[t][0].session][0] = flash[t][0]
      <4>1. flash[t][0].session \in 0 .. t /\ flash[flash[t][0].session][0] = flash[t][0]
        BY <3>3 DEF FlashInv, HeaderPages
      <4>2. flash[t][0].session \in Sector
        BY <4>1, LayoutAssumption DEF Sector
      <4> QED BY <1>0, <1>1, <3>3, <4>1, <4>2
    <3> QED BY <3>1, <3>2, <3>3
  <2>2. CASE t = s /\ p = 0
    <3>1. flash'[t][0] = c
      BY <1>1, <2>2
    <3>2. CASE c = Torn
      BY <3>1, <3>2, PageTypes
    <3>3. ASSUME NEW u \in 0 .. s, NEW k \in Kinds, c = Header(u, k),
                 u # s => flash[u][0] = Header(u, k)
          PROVE  c.type # "data" /\ c.session \in 0 .. t /\ flash'[c.session][0] = c
      <4>1. c.type = "header" /\ c.session = u
        BY <3>3, HeaderFields
      <4>2. CASE u = s
        BY <1>1, <2>2, <3>3, <4>1, <4>2
      <4>3. CASE u # s
        <5>1. u \in Sector /\ flash[u][0].type = "header"
          BY <3>3, <4>3, HeaderFields, LayoutAssumption DEF Sector
        <5> QED BY <1>0, <1>1, <2>2, <3>3, <4>1, <4>3, <5>1
      <4> QED BY <4>2, <4>3
    <3> QED BY <1>2, <2>2, <3>1, <3>2, <3>3 DEF Fits
  <2> QED BY <2>1, <2>2
<1>4. ASSUME NEW t \in Sector, NEW q \in Page, flash'[t][q].type = "data"
      PROVE  \/ t = s /\ q = p /\ flash'[t][q] = c /\ c.type = "data"
             \/ ~(t = s /\ q = p) /\ flash'[t][q] = flash[t][q] /\ flash[t][q].type = "data"
  BY <1>1, <1>4
<1>5. DataPagesPlaced'
  <2> SUFFICES ASSUME NEW t \in Sector, NEW q \in Page, flash'[t][q].type = "data",
                      NEW d \in Content, d = flash'[t][q]
               PROVE  WellPlaced(t, q, d)'
    <3>1. \A t \in Sector, q \in Page : flash'[t][q] \in Content
      BY <1>0, <1>1
    <3> QED BY <3>1 DEF DataPagesPlaced
  <2>1. d.type = "data" /\ WellPlaced(t, q, d)
    BY <1>2, <1>4 DEF FlashInv, DataPagesPlaced
  <2> QED BY <1>1, <2>1, PlaceKept
<1>6. SessionPerBoot'
  BY <1>2, <1>4 DEF FlashInv, SessionPerBoot, Newest
<1>7. CountersRise'
  <2> SUFFICES ASSUME NEW x \in Sector, NEW y \in Page, NEW t \in Sector, NEW q \in Page,
                      LastChunk(flash'[x][y]), LastChunk(flash'[t][q]),
                      flash'[x][y].session = flash'[t][q].session, Before(x, y, t, q)
               PROVE  flash'[x][y].counter < flash'[t][q].counter
    BY DEF CountersRise, Before, LastChunk
  <2>1. x \in Nat /\ t \in Nat /\ y \in Nat /\ q \in Nat /\ s \in Nat /\ p \in Nat
    BY LayoutAssumption DEF Sector, Page
  <2>2. flash'[x][y].type = "data" /\ flash'[t][q].type = "data"
    BY DEF LastChunk
  <2>3. CASE ~(x = s /\ y = p) /\ ~(t = s /\ q = p)
    BY <1>1, <2>3 DEF FlashInv, CountersRise
  <2>4. CASE x = s /\ y = p
    <3>1. ~(t = s /\ q = p)
      BY <2>1, <2>4 DEF Before
    <3>2. flash[t][q].type = "data" /\ flash[t][q].session = c.session /\ c.type = "data"
      BY <1>1, <2>2, <2>4, <3>1
    <3>3. Before(t, q, s, p)
      BY <1>2, <3>2 DEF Newest
    <3> QED BY <2>1, <2>4, <3>3 DEF Before
  <2>5. CASE t = s /\ q = p /\ ~(x = s /\ y = p)
    <3>1. LastChunk(flash[x][y]) /\ flash[x][y].session = c.session /\ LastChunk(c)
          /\ flash'[t][q] = c /\ flash'[x][y] = flash[x][y]
      BY <1>1, <2>5
    <3>2. flash[x][y].type = "data" /\ c.type = "data"
      BY <3>1 DEF LastChunk
    <3>3. flash[x][y].boot = c.boot /\ Done(c.boot, c.counter - 1)
      BY <1>2, <3>1, <3>2 DEF Newest
    <3>4. flash[x][y].counter <= c.counter - 1
      BY <3>1, <3>3 DEF Done
    <3>5. flash[x][y].counter \in Nat /\ c.counter \in Nat
      BY <1>0, <3>2, DataContent
    <3> QED BY <3>1, <3>4, <3>5
  <2> QED BY <2>3, <2>4, <2>5
<1> QED BY <1>3, <1>5, <1>6, <1>7 DEF FlashInv

-----------------------------------------------------------------------------
(***************************************************************************)
(* What the host finds in an array in order                                *)
(*                                                                         *)
(* Every complete record is a candidate, every candidate is a complete     *)
(* record of one sample, and the check of the counters refuses none.       *)
(***************************************************************************)
\* What the host finds in an array in order.
LEMMA DataIsValid ==
  ASSUME ChipTypeOK, FlashInv, NEW s \in Sector, NEW p \in Page, flash[s][p].type = "data"
  PROVE  /\ ValidData(s, p) /\ p # 0 /\ ValidHeader(s)
         /\ flash[s][0] = Header(flash[s][p].session, flash[s][p].kind)
<1> DEFINE d == flash[s][p]
<1>1. d \in Content /\ WellPlaced(s, p, d)
  BY DEF ChipTypeOK, FlashInv, DataPagesPlaced
<1>2. d.kind \in Kinds /\ d.counter \in Nat
  BY <1>1, DataContent
<1>3. PICK sl \in 0 .. Slots[d.kind] - 1 : p = PageOf(d.kind, sl, d.chunk)
  BY <1>1 DEF WellPlaced
<1>4. d.chunk \in 0 .. Width[d.kind] - 1 /\ sl \in Nat
  BY <1>1, <1>2, LayoutAssumption DEF WellPlaced
<1>5. p # 0
  BY <1>2, <1>3, <1>4, PageOfInSector
<1>6. d.chunk = (p - 1) % Width[d.kind]
  BY <1>2, <1>3, <1>4, ChunkOfPage
<1>7. flash[s][0] = Header(d.session, d.kind)
  BY <1>1 DEF WellPlaced
<1>8. flash[s][0].type = "header" /\ flash[s][0].session = d.session
  BY <1>7, HeaderFields
<1>9. d.session \in 0 .. s
  BY <1>8 DEF FlashInv, HeaderPages
<1>10. d.session <= s /\ d.counter # 0
  BY <1>1, <1>2, <1>9, LayoutAssumption DEF WellPlaced, Sector
<1> QED BY <1>5, <1>6, <1>7, <1>8, <1>10 DEF ValidData, ValidHeader

LEMMA HeaderIsAccepted ==
  ASSUME ChipTypeOK, FlashInv, NEW s \in Sector, ValidHeader(s)
  PROVE  SectorAccepted(s)
<1> DEFINE u == flash[s][0].session
<1>1. flash[s][0].type = "header" /\ u \in 0 .. s /\ flash[u][0] = flash[s][0]
  BY DEF FlashInv, HeaderPages, ValidHeader
<1>2. u \in Nat /\ u \in Sector /\ s \in Nat
  BY <1>1, LayoutAssumption DEF Sector
<1>3. ValidHeader(u)
  BY <1>1, <1>2 DEF ValidHeader
<1>4. ASSUME NEW e \in 0 .. u - 1, ValidHeader(e) PROVE flash[e][0].session # u
  <2>1. flash[e][0].session <= e /\ e < u /\ e \in Sector
    BY <1>2, <1>4, LayoutAssumption DEF ValidHeader, Sector
  <2>2. flash[e][0].session \in 0 .. e
    BY <1>4, <2>1 DEF FlashInv, HeaderPages, ValidHeader
  <2> QED BY <1>2, <2>1, <2>2
<1> QED BY <1>1, <1>3, <1>4 DEF SectorAccepted

\* The last page of a record stands behind all its other pages.
LEMMA WholeRecord ==
  ASSUME ChipTypeOK, FlashInv, NEW s \in Sector, NEW p \in Page, LastChunk(flash[s][p])
  PROVE  \E sl \in 0 .. Slots[flash[s][p].kind] - 1 :
           LET d == flash[s][p] IN
             /\ p = PageOf(d.kind, sl, Width[d.kind] - 1)
             /\ \A i \in 0 .. Width[d.kind] - 1 :
                  flash[s][PageOf(d.kind, sl, i)] = Data(d.kind, d.session, d.counter, i, d.boot)
<1> DEFINE d == flash[s][p]
           W == Width[d.kind]
<1>1. d \in Content /\ d.type = "data" /\ WellPlaced(s, p, d) /\ d.chunk + 1 = W
  BY DEF ChipTypeOK, FlashInv, DataPagesPlaced, LastChunk
<1>2. d.kind \in Kinds /\ d.chunk \in Nat /\ d = Data(d.kind, d.session, d.counter, d.chunk, d.boot)
  BY <1>1, DataContent
<1>3. PICK sl \in 0 .. Slots[d.kind] - 1 :
        /\ p = PageOf(d.kind, sl, d.chunk)
        /\ \A j \in 0 .. d.chunk - 1 :
             flash[s][PageOf(d.kind, sl, j)] = Data(d.kind, d.session, d.counter, j, d.boot)
  BY <1>1 DEF WellPlaced
<1>4. W \in Nat \ {0} /\ d.chunk = W - 1
  BY <1>1, <1>2, LayoutAssumption
<1>5. p = PageOf(d.kind, sl, W - 1)
  BY <1>3, <1>4
<1>6. ASSUME NEW i \in 0 .. W - 1
      PROVE  flash[s][PageOf(d.kind, sl, i)] = Data(d.kind, d.session, d.counter, i, d.boot)
  <2>1. i \in 0 .. d.chunk - 1 \/ i = d.chunk
    BY <1>2, <1>4
  <2> QED BY <1>2, <1>3, <2>1
<1> QED BY <1>3, <1>5, <1>6

LEMMA RecordIsCandidate ==
  ASSUME ChipTypeOK, FlashInv, NEW s \in Sector, NEW p \in Page, LastChunk(flash[s][p])
  PROVE  \E r \in Candidates : r.boots = {flash[s][p].boot} /\ r.counter = flash[s][p].counter
<1> DEFINE d == flash[s][p]
           k == d.kind
           W == Width[k]
<1>1. PICK sl \in 0 .. Slots[k] - 1 :
        /\ p = PageOf(k, sl, W - 1)
        /\ \A i \in 0 .. W - 1 : flash[s][PageOf(k, sl, i)] = Data(k, d.session, d.counter, i, d.boot)
  BY WholeRecord
<1>2. d.type = "data" /\ d \in Content /\ k \in Kinds
  BY DataContent DEF LastChunk, ChipTypeOK
<1>3. W \in Nat \ {0} /\ Slots[k] \in Nat \ {0} /\ W * Slots[k] = DataPages
  BY <1>2, LayoutAssumption
<1> HIDE DEF d
<1>4. ASSUME NEW i \in 0 .. W - 1
      PROVE  LET page == flash[s][PageOf(k, sl, i)] IN
               /\ PageOf(k, sl, i) \in Page /\ page.type = "data" /\ page.boot = d.boot
               /\ page.kind = k /\ page.session = d.session /\ page.chunk = i
               /\ page.counter = d.counter
  BY <1>1, <1>2, PageOfInSector, DataFields
<1>5. SectorAccepted(s) /\ flash[s][0] = Header(d.session, k)
  BY <1>2, DataIsValid, HeaderIsAccepted DEF d
<1>6. flash[s][0].session = d.session
  BY <1>5, HeaderFields
<1>7. SectorLayout(s, k)
  <2>1. 1 \in Page /\ 1 <= p /\ p \in Nat
    <3>1. p \in Nat /\ p > 0
      BY <1>1, <1>2, <1>3, PageOfInSector, LayoutAssumption DEF Page
    <3> QED BY <3>1, LayoutAssumption DEF Page
  <2>2. flash[s][1].type = "data"
    <3>1. \A q \in 1 .. p - 1 : flash[s][q].type = "data"
      BY <1>2 DEF FlashInv, DataPagesPlaced, WellPlaced, d
    <3> QED BY <1>2, <2>1, <3>1 DEF d
  <2>3. ValidData(s, 1) /\ flash[s][0] = Header(flash[s][1].session, flash[s][1].kind)
    BY <2>1, <2>2, DataIsValid
  <2>4. flash[s][1].kind = k
    <3>1. flash[s][0].kind = k
      BY <1>5, HeaderFields
    <3>2. flash[s][0].kind = flash[s][1].kind
      BY <2>3, HeaderFields
    <3> QED BY <3>1, <3>2
  <2> QED BY <2>1, <2>3, <2>4 DEF SectorLayout
<1>8. 0 \in 0 .. W - 1
  BY <1>3
<1>9. Complete(s, k, sl)
  <2>1. ASSUME NEW i \in 0 .. W - 1 PROVE ValidData(s, PageOf(k, sl, i))
    BY <1>4, DataIsValid
  <2> QED BY <1>4, <1>6, <1>8, <2>1 DEF Complete
<1>10. sl \in 0 .. DataPages - 1 /\ sl < Slots[k]
  <2>1. PICK n \in Nat : W = 1 + n
    <3>1. W - 1 \in Nat /\ W = 1 + (W - 1)
      BY <1>3
    <3> QED BY <3>1
  <2>2. W * Slots[k] = Slots[k] + n * Slots[k] /\ n * Slots[k] \in Nat
    BY <1>3, <2>1
  <2> QED BY <1>1, <1>3, <2>2
<1>11. RecordAt(s, k, sl) \in Candidates
  <2> DEFINE y == <<s, k, sl>>
  <2>1. y \in Sector \X Kinds \X (0 .. DataPages - 1) /\ y[1] = s /\ y[2] = k /\ y[3] = sl
    BY <1>2, <1>10
  <2> QED BY <1>5, <1>7, <1>9, <1>10, <2>1 DEF Candidates
<1>12. RecordAt(s, k, sl).counter = d.counter
  BY <1>4, <1>8 DEF RecordAt
<1>13. RecordAt(s, k, sl).boots = {d.boot}
  <2>1. \A i \in 0 .. W - 1 : Origin(flash[s][PageOf(k, sl, i)]) = {d.boot}
    BY <1>4 DEF Origin
  <2>2. UNION {Origin(flash[s][PageOf(k, sl, i)]) : i \in 0 .. W - 1} = {d.boot}
    BY <1>8, <2>1
  <2> QED BY <2>2 DEF RecordAt
<1> QED BY <1>11, <1>12, <1>13 DEF d

LEMMA CandidateIsRecord ==
  ASSUME ChipTypeOK, FlashInv, NEW r \in Candidates
  PROVE  \E s \in Sector, p \in Page, sl \in Nat :
           LET d == flash[s][p] IN
             /\ LastChunk(d) /\ p = PageOf(d.kind, sl, Width[d.kind] - 1)
             /\ r.sector = s /\ r.slot = sl /\ r.session = d.session
             /\ r.counter = d.counter /\ r.boots = {d.boot}
<1>1. PICK s \in Sector, k \in Kinds, sl \in 0 .. DataPages - 1 :
        /\ r = RecordAt(s, k, sl) /\ sl < Slots[k] /\ Complete(s, k, sl)
  BY DEF Candidates
<1> DEFINE W == Width[k]
           p == PageOf(k, sl, W - 1)
           d == flash[s][p]
<1>2. W \in Nat \ {0} /\ Slots[k] \in Nat \ {0} /\ sl \in Nat /\ sl \in 0 .. Slots[k] - 1
      /\ W - 1 \in 0 .. W - 1 /\ 0 \in 0 .. W - 1
  BY <1>1, LayoutAssumption
<1>3. p \in Page
  BY <1>2, PageOfInSector
<1>4. ValidData(s, p) /\ d.kind = k /\ d.session = flash[s][0].session /\ d.chunk = W - 1
      /\ d.counter = flash[s][PageOf(k, sl, 0)].counter
  BY <1>1, <1>2 DEF Complete
<1>5. d.type = "data" /\ LastChunk(d)
  BY <1>2, <1>4 DEF ValidData, LastChunk
<1>6. PICK sm \in 0 .. Slots[k] - 1 :
        /\ p = PageOf(k, sm, W - 1)
        /\ \A i \in 0 .. W - 1 : flash[s][PageOf(k, sm, i)] = Data(k, d.session, d.counter, i, d.boot)
  BY <1>3, <1>4, <1>5, WholeRecord
<1>7. sm = sl
  BY <1>2, <1>6, SamePage
<1>8. \A i \in 0 .. W - 1 : Origin(flash[s][PageOf(k, sl, i)]) = {d.boot}
  BY <1>6, <1>7, DataFields DEF Origin
<1>9. UNION {Origin(flash[s][PageOf(k, sl, i)]) : i \in 0 .. W - 1} = {d.boot}
  BY <1>2, <1>8
<1>10. /\ r.sector = s /\ r.slot = sl /\ r.session = d.session
       /\ r.counter = d.counter /\ r.boots = {d.boot}
  BY <1>1, <1>4, <1>9 DEF RecordAt
<1> QED BY <1>2, <1>3, <1>4, <1>5, <1>10

\* No complete record is refused: the counters of a session rise along the array.
LEMMA AllRecovered ==
  ASSUME ChipTypeOK, FlashInv
  PROVE  Recovered = Candidates
<1> SUFFICES ASSUME NEW r \in Candidates, NEW q \in Candidates, Earlier(q, r), q.session = r.session
             PROVE  q.counter < r.counter
  BY DEF Recovered
<1>1. PICK s \in Sector, p \in Page, sl \in Nat :
        /\ LastChunk(flash[s][p]) /\ p = PageOf(flash[s][p].kind, sl, Width[flash[s][p].kind] - 1)
        /\ r.sector = s /\ r.slot = sl /\ r.session = flash[s][p].session
        /\ r.counter = flash[s][p].counter
  BY CandidateIsRecord
<1>2. PICK t \in Sector, o \in Page, sm \in Nat :
        /\ LastChunk(flash[t][o]) /\ o = PageOf(flash[t][o].kind, sm, Width[flash[t][o].kind] - 1)
        /\ q.sector = t /\ q.slot = sm /\ q.session = flash[t][o].session
        /\ q.counter = flash[t][o].counter
  BY CandidateIsRecord
<1>3. Before(t, o, s, p)
  <2>1. CASE t < s
    BY <2>1 DEF Before
  <2>2. CASE t = s /\ sm < sl
    <3>1. flash[s][p].type = "data" /\ flash[s][o].type = "data" /\ flash[s][p] \in Content
      BY <1>1, <1>2, <2>2 DEF LastChunk, ChipTypeOK
    <3>2. flash[s][p].kind = flash[s][o].kind /\ flash[s][p].kind \in Kinds
      BY <3>1, DataIsValid, HeaderFields, DataContent
    <3>3. Width[flash[s][p].kind] - 1 \in 0 .. Width[flash[s][p].kind] - 1
      BY <3>2, LayoutAssumption
    <3>4. o < p
      BY <1>1, <1>2, <2>2, <3>2, <3>3, PageOrder
    <3> QED BY <2>2, <3>4 DEF Before
  <2> QED BY <1>1, <1>2, <2>1, <2>2 DEF Earlier
<1> QED BY <1>1, <1>2, <1>3 DEF FlashInv, CountersRise

\* The complete records of the array, as the abstract log names them.
StoredLog == {[boot |-> flash[x[1]][x[2]].boot, counter |-> flash[x[1]][x[2]].counter] :
                x \in {y \in Sector \X Page : LastChunk(flash[y[1]][y[2]])}}
LogExact == RecoveredLog = StoredLog

LEMMA LogIsExact ==
  ASSUME ChipTypeOK, FlashInv
  PROVE  LogExact
<1>1. \A b : (CHOOSE x \in {b} : TRUE) = b
  OBVIOUS
<1>2. ASSUME NEW e \in RecoveredLog PROVE e \in StoredLog
  <2>1. PICK r \in Candidates : e = [boot |-> CHOOSE b \in r.boots : TRUE, counter |-> r.counter]
    BY <1>2, AllRecovered DEF RecoveredLog
  <2>2. PICK s \in Sector, p \in Page :
          LastChunk(flash[s][p]) /\ r.counter = flash[s][p].counter /\ r.boots = {flash[s][p].boot}
    BY CandidateIsRecord
  <2>3. e = [boot |-> flash[s][p].boot, counter |-> flash[s][p].counter]
    BY <1>1, <2>1, <2>2
  <2> DEFINE x == <<s, p>>
  <2>4. x \in Sector \X Page /\ x[1] = s /\ x[2] = p
    OBVIOUS
  <2> QED BY <2>2, <2>3, <2>4 DEF StoredLog
<1>3. ASSUME NEW e \in StoredLog PROVE e \in RecoveredLog
  <2>1. PICK s \in Sector, p \in Page :
          /\ LastChunk(flash[s][p])
          /\ e = [boot |-> flash[s][p].boot, counter |-> flash[s][p].counter]
    BY <1>3 DEF StoredLog
  <2>2. PICK r \in Candidates : r.boots = {flash[s][p].boot} /\ r.counter = flash[s][p].counter
    BY <2>1, RecordIsCandidate
  <2> QED BY <1>1, <2>1, <2>2, AllRecovered DEF RecoveredLog
<1> QED BY <1>2, <1>3 DEF LogExact

LEMMA IntactFromOrder ==
  ASSUME ChipTypeOK, FlashInv
  PROVE  RecoveredIntact
<1> SUFFICES ASSUME NEW r \in Recovered PROVE \E b \in 1 .. boots : r.boots = {b}
  BY DEF RecoveredIntact
<1>1. PICK s \in Sector, p \in Page : LastChunk(flash[s][p]) /\ r.boots = {flash[s][p].boot}
  BY AllRecovered, CandidateIsRecord
<1>2. flash[s][p].boot \in 1 .. boots
  BY <1>1 DEF LastChunk, FlashInv, DataPagesPlaced, WellPlaced
<1> QED BY <1>1, <1>2

\* What the log is made of, before a step and after it.
LEMMA LogMembers ==
  /\ \A e : e \in StoredLog <=> \E s \in Sector, p \in Page :
       LastChunk(flash[s][p]) /\ e = [boot |-> flash[s][p].boot, counter |-> flash[s][p].counter]
  /\ \A e : e \in StoredLog' <=> \E s \in Sector, p \in Page :
       LastChunk(flash'[s][p]) /\ e = [boot |-> flash'[s][p].boot, counter |-> flash'[s][p].counter]
<1>1. ASSUME NEW f, NEW e
      PROVE  e \in {[boot |-> f[x[1]][x[2]].boot, counter |-> f[x[1]][x[2]].counter] :
                      x \in {y \in Sector \X Page : LastChunk(f[y[1]][y[2]])}}
             <=> \E s \in Sector, p \in Page :
                   LastChunk(f[s][p]) /\ e = [boot |-> f[s][p].boot, counter |-> f[s][p].counter]
  <2>1. ASSUME NEW s \in Sector, NEW p \in Page, LastChunk(f[s][p]),
               e = [boot |-> f[s][p].boot, counter |-> f[s][p].counter]
        PROVE  \E x \in {y \in Sector \X Page : LastChunk(f[y[1]][y[2]])} :
                 e = [boot |-> f[x[1]][x[2]].boot, counter |-> f[x[1]][x[2]].counter]
    <3> DEFINE x == <<s, p>>
    <3>1. x \in Sector \X Page /\ x[1] = s /\ x[2] = p
      OBVIOUS
    <3> HIDE DEF x
    <3> QED BY <2>1, <3>1
  <2>2. ASSUME NEW x \in {y \in Sector \X Page : LastChunk(f[y[1]][y[2]])},
               e = [boot |-> f[x[1]][x[2]].boot, counter |-> f[x[1]][x[2]].counter]
        PROVE  \E s \in Sector, p \in Page :
                 LastChunk(f[s][p]) /\ e = [boot |-> f[s][p].boot, counter |-> f[s][p].counter]
    <3>1. x[1] \in Sector /\ x[2] \in Page /\ LastChunk(f[x[1]][x[2]])
      OBVIOUS
    <3> QED BY <2>2, <3>1
  <2> QED BY <2>1, <2>2
<1>2. \A e : e \in StoredLog <=> \E s \in Sector, p \in Page :
        LastChunk(flash[s][p]) /\ e = [boot |-> flash[s][p].boot, counter |-> flash[s][p].counter]
  BY <1>1 DEF StoredLog
<1>3. \A e : e \in StoredLog' <=> \E s \in Sector, p \in Page :
        LastChunk(flash'[s][p]) /\ e = [boot |-> flash'[s][p].boot, counter |-> flash'[s][p].counter]
  BY <1>1 DEF StoredLog, LastChunk
<1> QED BY <1>2, <1>3

\* Putting a page that fits adds nothing to the log, or the next record of the newest boot.
LEMMA PutStores ==
  ASSUME ChipTypeOK, FlashInv, LogExact, LogExact',
         NEW s \in Sector, NEW p \in Page, NEW c \in Content,
         flash[s][p] = Blank, SetPage(s, p, c), Fits(s, p, c), UNCHANGED acked
  PROVE  [J!JNext]_(J!jvars)
<1>1. /\ flash'[s][p] = c
      /\ \A t \in Sector, q \in Page : ~(t = s /\ q = p) => flash'[t][q] = flash[t][q]
      /\ ~LastChunk(flash[s][p])
      /\ \A t \in Sector, q \in Page : flash[t][q] \in Content
  BY PutPage, PageTypes DEF ChipTypeOK, LastChunk
<1>2. CASE ~LastChunk(c)
  <2>1. StoredLog' = StoredLog
    <3>1. \A e : e \in StoredLog <=> e \in StoredLog'
      BY <1>1, <1>2, LogMembers
    <3> QED BY <3>1
  <2> QED BY <2>1 DEF LogExact, J!jvars
<1>3. CASE LastChunk(c)
  <2> DEFINE r == [boot |-> c.boot, counter |-> c.counter]
  <2>1. c.type = "data" /\ WellPlaced(s, p, c) /\ Newest(s, p, c)
    BY <1>3, PageTypes, HeaderFields DEF Fits, LastChunk
  <2>2. c.counter \in Nat /\ c.counter > 0 /\ c.boot \in Nat
    BY <2>1, DataContent DEF WellPlaced
  <2>3. Done(c.boot, c.counter - 1)
    BY <1>3, <2>1 DEF Newest
  <2>4. StoredLog' = StoredLog \cup {r}
    <3>1. ASSUME NEW e \in StoredLog' PROVE e \in StoredLog \cup {r}
      BY <1>1, <3>1, LogMembers
    <3>2. ASSUME NEW e \in StoredLog \cup {r} PROVE e \in StoredLog'
      <4>1. CASE e = r
        BY <1>1, <1>3, <4>1, LogMembers
      <4>2. CASE e \in StoredLog
        <5>1. PICK t \in Sector, q \in Page :
                LastChunk(flash[t][q]) /\ e = [boot |-> flash[t][q].boot, counter |-> flash[t][q].counter]
          BY <4>2, LogMembers
        <5>2. flash'[t][q] = flash[t][q]
          BY <1>1, <5>1
        <5> QED BY <5>1, <5>2, LogMembers
      <4> QED BY <4>1, <4>2
    <3> QED BY <3>1, <3>2
  <2>5. r.boot = c.boot /\ r.counter = c.counter
    OBVIOUS
  <2>6. \A q \in StoredLog : q.boot <= r.boot
    <3>1. SUFFICES ASSUME NEW q \in StoredLog PROVE q.boot <= c.boot
      BY <2>5
    <3>2. PICK t \in Sector, o \in Page :
            LastChunk(flash[t][o]) /\ q = [boot |-> flash[t][o].boot, counter |-> flash[t][o].counter]
      BY LogMembers
    <3> QED BY <2>1, <3>2 DEF Newest, LastChunk
  <2>7. {q.counter : q \in {x \in StoredLog : x.boot = r.boot}} = 1 .. r.counter - 1
    <3>1. ASSUME NEW q \in StoredLog, q.boot = c.boot PROVE q.counter \in 1 .. c.counter - 1
      <4>1. PICK t \in Sector, o \in Page :
              LastChunk(flash[t][o]) /\ q = [boot |-> flash[t][o].boot, counter |-> flash[t][o].counter]
        BY LogMembers
      <4>2. flash[t][o].counter <= c.counter - 1
        BY <2>3, <3>1, <4>1 DEF Done
      <4>3. flash[t][o].counter \in Nat /\ flash[t][o].counter > 0
        BY <1>1, <4>1, DataContent DEF LastChunk, FlashInv, DataPagesPlaced, WellPlaced
      <4> QED BY <2>2, <4>1, <4>2, <4>3
    <3>2. ASSUME NEW n \in 1 .. c.counter - 1
          PROVE  \E q \in StoredLog : q.boot = c.boot /\ q.counter = n
      <4>1. PICK t \in Sector, o \in Page :
              LastChunk(flash[t][o]) /\ flash[t][o].boot = c.boot /\ flash[t][o].counter = n
        BY <2>3 DEF Done
      <4> DEFINE q == [boot |-> flash[t][o].boot, counter |-> flash[t][o].counter]
      <4>2. q \in StoredLog
        BY <4>1, LogMembers
      <4> QED BY <4>1, <4>2
    <3> QED BY <2>5, <3>1, <3>2
  <2>8. r \notin StoredLog
    BY <2>2, <2>5, <2>7
  <2> HIDE DEF r
  <2>9. RecoveredLog = StoredLog /\ RecoveredLog' = StoredLog'
    BY DEF LogExact
  <2>10. J!Store(r)
    BY <2>2, <2>4, <2>5, <2>6, <2>7, <2>9 DEF J!Store
  <2>11. r \in RecoveredLog' \ RecoveredLog
    BY <2>4, <2>8, <2>9
  <2> QED BY <2>10, <2>11 DEF J!JNext
<1> QED BY <1>2, <1>3

-----------------------------------------------------------------------------
(***************************************************************************)
(* Every step keeps the order                                              *)
(***************************************************************************)
\* A page that fits goes on fitting while the array stands, also into the next boot.
LEMMA FitsKept ==
  ASSUME UNCHANGED flash, boots \in Nat, boots' \in Nat, boots' >= boots,
         NEW s \in Sector, NEW p \in Page, NEW c \in Content, Fits(s, p, c)
  PROVE  Fits(s, p, c)'
<1>1. CASE c = Torn
  BY <1>1 DEF Fits, Torn
<1>2. ASSUME NEW u \in 0 .. s, NEW k \in Kinds, c = Header(u, k), p = 0,
             u # s => flash[u][0] = Header(u, k)
      PROVE  Fits(s, p, c)'
  BY <1>2 DEF Fits, Header
<1>3. CASE c.type = "data" /\ WellPlaced(s, p, c) /\ Newest(s, p, c)
  <2>1. WellPlaced(s, p, c)'
    BY <1>3, PlaceKept
  <2>2. Newest(s, p, c)'
    BY <1>3 DEF Newest, Done, LastChunk, Before
  <2> QED BY <1>3, <2>1, <2>2 DEF Fits
<1> QED BY <1>1, <1>2, <1>3 DEF Fits

LEMMA OrderKept ==
  ASSUME ChipTypeOK, FlashInv, UNCHANGED flash, boots \in Nat, boots' \in Nat, boots' >= boots
  PROVE  FlashInv'
<1>1. HeaderPages'
  BY DEF FlashInv, HeaderPages
<1>2. DataPagesPlaced'
  <2> SUFFICES ASSUME NEW t \in Sector, NEW q \in Page, flash'[t][q].type = "data",
                      NEW d \in Content, d = flash'[t][q]
               PROVE  WellPlaced(t, q, d)'
    BY DEF DataPagesPlaced, ChipTypeOK
  <2>1. d.type = "data" /\ WellPlaced(t, q, d)
    BY DEF FlashInv, DataPagesPlaced
  <2> QED BY <2>1, PlaceKept
<1>3. SessionPerBoot' /\ CountersRise'
  BY DEF FlashInv, SessionPerBoot, CountersRise, LastChunk, Before
<1> QED BY <1>1, <1>2, <1>3 DEF FlashInv

LEMMA FlightKept ==
  ASSUME ChipTypeOK', Busy' => Fits(prog'.sector, prog'.page, prog'.image),
         UNCHANGED flash, boots \in Nat, boots' \in Nat, boots' >= boots
  PROVE  FlightInv'
<1> SUFFICES ASSUME Busy', NEW s \in Sector, NEW p \in Page, NEW c \in Content,
                    s = prog'.sector, p = prog'.page, c = prog'.image
             PROVE  Fits(s, p, c)'
  BY DEF FlightInv, ChipTypeOK, Busy, Programs
<1>1. Fits(s, p, c)
  OBVIOUS
<1> QED BY <1>1, FitsKept

\* What the writer sends next fits the array.
LEMMA ImageFits ==
  ASSUME TypeInv, BlankInv, RecordInv, pc = "program", NEW c \in {Image, Torn}
  PROVE  Fits(next, Target, c)
<1> USE DEF TypeInv, TypeOK, ControlInv, RecordInv
<1>1. status = "ready" /\ next < Sectors /\ next \in Nat /\ boots \in Nat /\ boots >= 1
      /\ kind \in Kinds /\ next \in Sector /\ used \in Nat
  BY LayoutAssumption, BoundAssumption
     DEF Appending, PlaceTypeOK, CountTypeOK, ControlTypeOK, NewBoot, Sector
<1>2. OwnPages /\ OwnRecord /\ OwnCounters /\ FlashInv
  BY <1>1 DEF ReadyInv
<1>3. CASE c = Torn
  BY <1>3 DEF Fits
<1>4. CASE c = Image /\ ~open
  <2>1. c = Header(used, kind) /\ Target = 0 /\ used <= next
    BY <1>2, <1>4 DEF Image, Target, Session, OwnPages
  <2>2. used # next => flash[used][0] = Header(used, kind)
    BY <1>1, <1>2, <2>1 DEF OwnPages, Begun
  <2> QED BY <1>1, <2>1, <2>2 DEF Fits
<1>5. CASE c = Image /\ open
  <2>1. c = Data(kind, used, counter, chunk, boots) /\ Target = PageOf(kind, slot, chunk)
    BY <1>5 DEF Image, Target, Session
  <2>2. /\ c.type = "data" /\ c.kind = kind /\ c.session = used /\ c.counter = counter
        /\ c.chunk = chunk /\ c.boot = boots
    BY <2>1, DataFields
  <2>3. counter = last + 1 /\ last \in Nat
    BY <1>2, BoundAssumption DEF OwnRecord, Appending, CountTypeOK
  <2>4. Begun /\ flash[next][0] = Header(used, kind)
    BY <1>2, <1>5 DEF OwnPages, Begun
  <2>5. WellPlaced(next, Target, c)
    <3>1. \A j \in 0 .. chunk - 1 :
            flash[next][PageOf(kind, slot, j)] = Data(kind, used, counter, j, boots)
      BY <1>2 DEF OwnRecord
    <3>2. \A q \in 1 .. Target - 1 : flash[next][q].type = "data"
      BY <1>2, <1>5 DEF OwnRecord
    <3>3. slot \in 0 .. Slots[kind] - 1 /\ chunk \in 0 .. Width[kind] - 1
      BY DEF PlaceTypeOK
    <3> QED BY <1>1, <2>1, <2>2, <2>3, <2>4, <3>1, <3>2, <3>3 DEF WellPlaced
  <2>6. Newest(next, Target, c)
    <3>1. ASSUME NEW t \in Sector, NEW q \in Page, flash[t][q].type = "data"
          PROVE  /\ flash[t][q].boot <= boots
                 /\ (t = next \/ flash[t][q].session = used) => flash[t][q].boot = boots
                 /\ (flash[t][q].session = used) => Before(t, q, next, Target)
      <4>1. flash[t][q].boot \in 1 .. boots
        BY <1>2, <3>1 DEF FlashInv, DataPagesPlaced, WellPlaced
      <4>2. (t = next \/ flash[t][q].session = used) => flash[t][q].boot = boots
        BY <1>2, <1>5, <2>4, <3>1 DEF OwnPages
      <4>3. flash[t][q].boot = boots => Before(t, q, next, Target)
        BY <1>2, <3>1 DEF OwnPages, Before, InProgram
      <4> QED BY <1>1, <4>1, <4>2, <4>3
    <3>2. Done(boots, counter - 1)
      BY <1>2, <2>3 DEF OwnCounters, RecordIn, InProgram
    <3> QED BY <2>2, <3>1, <3>2 DEF Newest
  <2> QED BY <2>2, <2>5, <2>6 DEF Fits
<1> QED BY <1>3, <1>4, <1>5

\* What the writer knows of its own pages survives a step that leaves its place alone.
LEMMA OwnKept ==
  ASSUME TypeInv, FlashInv, ReadyInv, status = "ready",
         UNCHANGED <<flash, place, kind, used, boots, acked, last>>,
         InProgram => InProgram', InProgram' => counter' = counter,
         Programming' => Programming \/ flash[next][Target] = Blank,
         InProgram' => InProgram \/ flash[next][Target] = Blank,
         (InProgram /\ Busy)' => prog'.image \in {Image, Torn},
         counter' = IF pc' \in Appending THEN last + 1 ELSE last,
         counter' = counter \/ chunk = 0, pc' = "idle" => pc = "idle"
  PROVE  ReadyInv'
<1>1. OwnPages /\ OwnRecord /\ OwnCounters
  BY DEF ReadyInv
<1>2. Target' = Target /\ Begun' = Begun /\ open' = open /\ next' = next /\ chunk' = chunk /\ slot' = slot
  BY DEF Target, Begun, place, PageOf
<1>3. OwnPages'
  <2>1. ASSUME Programming', flash[next][Target] = Blank, ~open,
               NEW s \in Sector, NEW p \in Page, flash[s][p].type = "data"
        PROVE  s # next /\ (~Begun => flash[s][p].session # used)
    <3>1. flash[s][0] = Header(flash[s][p].session, flash[s][p].kind)
      BY <2>1, DataIsValid DEF TypeInv, TypeOK
    <3>2. flash[s][0].type = "header" /\ flash[s][0].session = flash[s][p].session
      BY <3>1, HeaderFields
    <3>3. flash[flash[s][p].session][0] = flash[s][0]
      BY <3>2 DEF FlashInv, HeaderPages
    <3>4. flash[next][0].type = "blank"
      BY <2>1, PageTypes DEF Target
    <3>5. ~Begun => next = used
      BY <1>1, LayoutAssumption DEF OwnPages, Begun, TypeInv, TypeOK, PlaceTypeOK
    <3> QED BY <3>2, <3>3, <3>4, <3>5
  <2>2. ~Begun => ~open
    BY DEF Begun
  <2> QED BY <1>1, <1>2, <2>1, <2>2 DEF OwnPages
<1>4. OwnRecord'
  BY <1>1, <1>2 DEF OwnRecord, Image, Header, Data, Session, Torn
<1>5. OwnCounters'
  <2>1. RecordIn' <=> RecordIn
    <3>1. RecordIn /\ InProgram' => RecordIn'
      BY <1>2 DEF RecordIn, Image, Header, Data, Session
    <3>2. RecordIn' => RecordIn
      <4> SUFFICES ASSUME RecordIn' PROVE RecordIn
        OBVIOUS
      <4>1. Image' = Image /\ flash[next][Target] = Image
        BY <1>2 DEF RecordIn, Image, Header, Data, Session
      <4>2. Image.type # "blank"
        BY HeaderFields, DataFields DEF Image
      <4>3. InProgram
        BY <4>1, <4>2, PageTypes DEF RecordIn
      <4> QED BY <1>2, <4>1, <4>3 DEF RecordIn
    <3> QED BY <3>1, <3>2 DEF RecordIn
  <2>2. RecordIn => counter' = counter
    BY <2>1 DEF RecordIn
  <2> QED BY <1>1, <2>1, <2>2 DEF OwnCounters, Done, LastChunk
<1> QED BY <1>3, <1>4, <1>5 DEF ReadyInv

LEMMA ProgramAim ==
  ASSUME TypeInv, BlankInv, Busy
  PROVE  /\ prog.sector \in Sector /\ prog.page \in Page /\ prog.image \in Content
         /\ flash[prog.sector][prog.page] = Blank
BY DEF TypeInv, TypeOK, ChipTypeOK, Programs, Busy, BlankInv, ProgramsBlank

\* The array stays in order, whatever ends the program under way.
LEMMA PutOrder ==
  ASSUME TypeInv, BlankInv, RecordInv, boots' = boots, Busy,
         NEW c \in {Torn, prog.image}, SetPage(prog.sector, prog.page, c)
  PROVE  FlashInv'
<1>1. boots \in Nat /\ ChipTypeOK /\ FlashInv
  BY BoundAssumption DEF TypeInv, TypeOK, CountTypeOK, RecordInv
<1>2. c \in Content /\ Fits(prog.sector, prog.page, c)
  BY ProgramAim, PageTypes DEF RecordInv, FlightInv, Fits
<1>3. \A s \in Sector, p \in Page :
        flash[s][p] = Blank /\ SetPage(s, p, c) /\ Fits(s, p, c) => FlashInv'
  BY <1>1, <1>2, FitsInOrder
<1> QED BY <1>2, <1>3, ProgramAim

LEMMA NextOrder ==
  ASSUME TypeInv, BlankInv, RecordInv, [Next]_vars
  PROVE  FlashInv' /\ FlightInv'
<1>0. /\ ChipTypeOK /\ ChipTypeOK' /\ FlashInv /\ FlightInv /\ boots \in Nat
  BY NextType, BoundAssumption DEF TypeInv, TypeOK, CountTypeOK, RecordInv
<1>1. boots' \in Nat /\ boots' >= boots
  <2>1. boots' = boots \/ boots' = boots + 1
    BY DEF Next, Begin, Identify, ScanSector, ScanDone, Append, OpenSector, CheckPage,
       WriteEnable, ProgramPage, PollStatus, VerifyPage, HeaderDone, ChunkDone, RecordDone,
       ChipFinishes, PowerLoss, ProcessorReset, ForgetRam, ReadBlank, history, vars
  <2> QED BY <1>0, <2>1
<1>2. ASSUME UNCHANGED flash, prog' = prog \/ ~Busy' PROVE FlashInv' /\ FlightInv'
  BY <1>0, <1>1, <1>2, OrderKept, FlightKept DEF FlightInv, Busy
<1>3. CASE ProgramPage
  <2>1. pc = "program" /\ flash' = flash
    BY <1>3 DEF ProgramPage
  <2>2. prog' = prog \/ \E c \in {Image, Torn} : prog' = [sector |-> next, page |-> Target, image |-> c]
    BY <1>3 DEF ProgramPage
  <2>3. ASSUME NEW c \in {Image, Torn}, prog' = [sector |-> next, page |-> Target, image |-> c]
        PROVE  Fits(prog'.sector, prog'.page, prog'.image)
    <3>1. Fits(next, Target, c)
      BY <2>1, ImageFits
    <3>2. prog'.sector = next /\ prog'.page = Target /\ prog'.image = c
      BY <2>3
    <3> QED BY <3>1, <3>2
  <2>4. Busy' => (prog' = prog /\ Busy) \/ Fits(prog'.sector, prog'.page, prog'.image)
    BY <2>2, <2>3 DEF Busy
  <2> QED BY <1>0, <1>1, <2>1, <2>4, OrderKept, FlightKept DEF FlightInv
<1>4. CASE ChipFinishes
  <2>1. Busy /\ SetPage(prog.sector, prog.page, prog.image) /\ boots' = boots /\ ~Busy'
    BY <1>4 DEF ChipFinishes, history, Busy
  <2> QED BY <2>1, PutOrder DEF FlightInv
<1>5. CASE PowerLoss
  <2>1. boots' = boots /\ ~Busy'
    BY <1>5 DEF PowerLoss, ForgetRam, history, Busy
  <2>2. CASE UNCHANGED flash
    BY <1>2, <2>1, <2>2
  <2>3. CASE Busy /\ \E c \in {Torn, prog.image} : SetPage(prog.sector, prog.page, c)
    BY <2>1, <2>3, PutOrder DEF FlightInv
  <2> QED BY <1>5, <2>2, <2>3 DEF PowerLoss
<1>6. CASE ~(ProgramPage \/ ChipFinishes \/ PowerLoss)
  <2>1. UNCHANGED <<flash, prog>>
    BY <1>6 DEF Next, Begin, Identify, BeginFails, ScanSector, ScanDone, Append, OpenSector,
       CheckPage, WriteEnable, PollStatus, VerifyPage, ProcessorReset, chip, vars
  <2> QED BY <1>2, <2>1
<1> QED BY <1>3, <1>4, <1>5, <1>6

\* A boot starts behind everything that stands or is under way.
LEMMA NextNewBoot ==
  ASSUME TypeInv, BlankInv, RecordInv, [Next]_vars
  PROVE  NewBoot'
<1> USE DEF NewBoot
<1>0. /\ boots \in Nat /\ NewBoot /\ acked \subseteq [boot : Nat, counter : Nat]
      /\ \A s \in Sector, p \in Page : flash[s][p].type = "data" => flash[s][p].boot \in 1 .. boots
      /\ (Busy /\ prog.image.type = "data") => prog.image.boot \in 1 .. boots
  <2>1. (Busy /\ prog.image.type = "data") => WellPlaced(prog.sector, prog.page, prog.image)
    BY PageTypes, HeaderFields DEF RecordInv, FlightInv, Fits
  <2> QED
    BY <2>1, BoundAssumption DEF RecordInv, TypeInv, TypeOK, CountTypeOK, FlashInv, DataPagesPlaced,
       WellPlaced
<1>1. ASSUME NEW m \in Modes, NEW k \in Kinds, Begin(m, k) PROVE NewBoot'
  <2>1. boots' = boots + 1 /\ UNCHANGED <<flash, prog, acked, last, counter>> /\ pc = "off"
        /\ pc' = "identify"
    BY <1>1 DEF Begin, chip, totals
  <2>2. \A a \in acked : a.boot < boots'
    BY <1>0, <2>1
  <2>3. \A s \in Sector, p \in Page : flash'[s][p].type = "data" => flash'[s][p].boot < boots'
    BY <1>0, <2>1
  <2>4. (Busy' /\ prog'.image.type = "data") => prog'.image.boot < boots'
    BY <1>0, <2>1 DEF Busy
  <2> QED BY <1>0, <2>1, <2>2, <2>3, <2>4
<1>2. CASE Identify \/ ScanSector \/ ScanDone
  <2>1. UNCHANGED <<flash, prog, acked, last, counter, boots>> /\ pc \in {"identify", "scan"}
        /\ pc' # "off"
    BY <1>2 DEF Identify, ScanSector, ScanDone, BeginFails, ReadBlank, chip, totals, history
  <2> QED BY <1>0, <2>1 DEF Busy
<1>3. CASE Append \/ OpenSector \/ CheckPage \/ WriteEnable \/ ProgramPage \/ PollStatus
  <2>1. UNCHANGED <<acked, boots>> /\ pc # "off" /\ pc' \notin {"off", "identify", "scan"}
    BY <1>3 DEF Append, OpenSector, CheckPage, WriteEnable, ProgramPage, PollStatus, AppendFails,
       Goto, ReadBlank, history
  <2> QED BY <1>0, <2>1
<1>4. CASE VerifyPage
  <2>1. boots' = boots /\ pc = "verify" /\ pc' \notin {"off", "identify", "scan"}
    BY <1>4 DEF VerifyPage, AppendFails, HeaderDone, ChunkDone, RecordDone, Goto, history
  <2>2. acked' = acked \/ acked' = acked \cup {[boot |-> boots, counter |-> counter]}
    BY <1>4 DEF VerifyPage, AppendFails, HeaderDone, ChunkDone, RecordDone, history
  <2>3. \A a \in acked' : a.boot <= boots
    BY <1>0, <2>2
  <2> QED BY <1>0, <2>1, <2>3
<1>5. CASE ChipFinishes
  <2>1. UNCHANGED <<acked, boots, pc, last, counter>> /\ Busy /\ ~Busy'
        /\ SetPage(prog.sector, prog.page, prog.image)
    BY <1>5 DEF ChipFinishes, history, totals, Busy
  <2>2. ASSUME NEW s \in Sector, NEW p \in Page, flash'[s][p].type = "data"
        PROVE  \/ flash'[s][p] = flash[s][p]
               \/ flash'[s][p] = prog.image /\ prog.image.type = "data"
    <3>1. flash \in [Sector -> [Page -> Content]]
      BY DEF TypeInv, TypeOK, ChipTypeOK
    <3> QED BY <2>1, <2>2, <3>1, ProgramAim DEF SetPage
  <2>3. pc \in {"identify", "scan"} =>
          \A s \in Sector, p \in Page : flash'[s][p].type = "data" => flash'[s][p].boot < boots
    BY <1>0, <2>1, <2>2
  <2> QED BY <1>0, <2>1, <2>3
<1>6. CASE PowerLoss \/ ProcessorReset
  BY <1>0, <1>6 DEF PowerLoss, ProcessorReset, ForgetRam, history
<1>7. CASE UNCHANGED vars
  BY <1>0, <1>7 DEF vars, chip, totals, history, Busy
<1> QED BY <1>1, <1>2, <1>3, <1>4, <1>5, <1>6, <1>7 DEF Next

-----------------------------------------------------------------------------
(***************************************************************************)
(* Every step keeps what the writer knows of its own pages                 *)
(***************************************************************************)
\* A counter that does not wrap moves by one.
LEMMA CounterStep ==
  ASSUME counter \in 0 .. CounterModulus - 1
  PROVE  (counter + 1) % CounterModulus > counter => (counter + 1) % CounterModulus = counter + 1
<1>1. ASSUME NEW m \in Nat \ {0}, NEW n \in 0 .. m - 1 PROVE (n + 1) % m > n => (n + 1) % m = n + 1
  BY <1>1
<1> QED BY <1>1, BoundAssumption

\* The session becomes ready: nothing of this boot stands anywhere yet.
LEMMA ScanReady ==
  ASSUME TypeInv, RecordInv, ScanDone, status' = "ready"
  PROVE  ReadyInv'
<1> USE DEF TypeInv, TypeOK, ControlInv
<1>1. /\ pc = "scan" /\ status # "ready" /\ ~open /\ slot = 0 /\ chunk = 0
  BY DEF ScanDone
<1>2. /\ pc' = "idle" /\ next' = used
      /\ UNCHANGED <<flash, prog, kind, open, slot, chunk, counter, last, used, boots, acked>>
  BY <1>1 DEF ScanDone, BeginFails, Fail, chip, identity, totals, scan, history
<1>3. /\ last = 0 /\ counter = 0 /\ boots \in Nat /\ used \in Nat
      /\ \A s \in Sector, p \in Page : flash[s][p].type = "data" => flash[s][p].boot < boots
      /\ \A a \in acked : a.boot < boots
  BY <1>1, LayoutAssumption, BoundAssumption DEF RecordInv, NewBoot, CountTypeOK, PlaceTypeOK
<1>4. ~open' /\ ~Begun' /\ ~Programming' /\ ~InProgram' /\ ~RecordIn' /\ chunk' = 0
  BY <1>1, <1>2, <1>3 DEF Begun, Programming, InProgram, RecordIn
<1>5. ASSUME NEW s \in Sector, NEW p \in Page, flash[s][p].type = "data"
      PROVE  flash[s][p].boot # boots
  <2>1. flash[s][p].boot < boots /\ flash[s][p].boot \in Nat
    BY <1>3, <1>5, DataContent DEF ChipTypeOK
  <2> QED BY <1>3, <2>1
<1>6. OwnPages'
  BY <1>2, <1>3, <1>4, <1>5 DEF OwnPages
<1>7. OwnRecord'
  <2>1. \A a \in acked : a.boot # boots
    BY <1>3 DEF CountTypeOK
  <2> QED BY <1>2, <1>3, <1>4, <2>1 DEF OwnRecord, Appending
<1>8. OwnCounters'
  <2>1. Done(boots, 0)'
    BY <1>2, <1>5 DEF Done, LastChunk
  <2> QED BY <1>2, <1>3, <1>4, <2>1 DEF OwnCounters
<1> QED BY <1>6, <1>7, <1>8 DEF ReadyInv

\* A step of storage_append that leaves the writer at the same page.
LEMMA StepReady ==
  ASSUME TypeInv, BlankInv, RecordInv, BlankInv', status' = "ready",
         Append \/ OpenSector \/ CheckPage \/ WriteEnable \/ ProgramPage \/ PollStatus \/ UNCHANGED vars
  PROVE  ReadyInv'
<1> USE DEF TypeInv, TypeOK, ControlInv
<1>1. ASSUME NEW e, AppendFails(e) PROVE FALSE
  BY <1>1 DEF AppendFails, Fail
<1>2. status = "ready" /\ UNCHANGED <<flash, place, kind, used, boots, acked, last>>
  BY <1>1 DEF Append, OpenSector, CheckPage, WriteEnable, ProgramPage, PollStatus, Goto, Fail, vars,
     ReadBlank, chip, identity, scan, totals, history
<1>3. Target' = Target /\ next' = next
  BY <1>2 DEF Target, PageOf, place
<1>4. ReadyInv /\ FlashInv /\ OwnRecord
  BY <1>2 DEF RecordInv, ReadyInv
<1>5. CASE Append
  <2>1. /\ pc = "idle" /\ pc' \in {"check", "open"} /\ counter' = (counter + 1) % CounterModulus
        /\ counter' > last
    BY <1>5, <1>2 DEF Append, Fail
  <2>2. counter = last /\ chunk = 0
    BY <1>4, <2>1 DEF OwnRecord, Appending
  <2>3. counter' = last + 1
    BY <2>1, <2>2, CounterStep DEF CountTypeOK
  <2> QED BY <1>2, <1>4, <2>1, <2>2, <2>3, OwnKept DEF InProgram, Programming, Appending
<1>6. CASE OpenSector
  <2>1. pc = "open" /\ pc' = "check" /\ counter' = counter
    BY <1>1, <1>6 DEF OpenSector, Goto, totals
  <2>2. counter = last + 1
    BY <1>4, <2>1 DEF OwnRecord, Appending
  <2> QED BY <1>2, <1>4, <2>1, <2>2, OwnKept DEF InProgram, Programming, Appending
<1>7. CASE CheckPage
  <2>1. pc = "check" /\ pc' = "enable" /\ counter' = counter
    BY <1>1, <1>7 DEF CheckPage, Goto, totals
  <2>2. counter = last + 1
    BY <1>4, <2>1 DEF OwnRecord, Appending
  <2>3. flash[next][Target] = Blank
    BY <1>2, <1>3, <2>1 DEF BlankInv, CheckedPage
  <2> QED BY <1>2, <1>4, <2>1, <2>2, <2>3, OwnKept DEF InProgram, Programming, Appending
<1>8. CASE WriteEnable
  <2>1. pc = "enable" /\ pc' = "program" /\ counter' = counter
    BY <1>1, <1>8 DEF WriteEnable, Goto, totals
  <2>2. counter = last + 1
    BY <1>4, <2>1 DEF OwnRecord, Appending
  <2> QED BY <1>2, <1>4, <2>1, <2>2, OwnKept DEF InProgram, Programming, Appending
<1>9. CASE ProgramPage
  <2>1. pc = "program" /\ pc' = "wait" /\ counter' = counter
    BY <1>1, <1>9 DEF ProgramPage, Goto, totals
  <2>2. counter = last + 1
    BY <1>4, <2>1 DEF OwnRecord, Appending
  <2>3. flash[next][Target] = Blank
    BY <2>1 DEF BlankInv, CheckedPage
  <2>4. prog'.image \in {Image, Torn}
    BY <1>1, <1>9 DEF ProgramPage
  <2> QED BY <1>2, <1>4, <2>1, <2>2, <2>3, <2>4, OwnKept DEF InProgram, Programming, Appending
<1>10. CASE PollStatus
  <2>1. pc = "wait" /\ pc' = "verify" /\ counter' = counter /\ ~Busy /\ prog' = prog
    BY <1>1, <1>10 DEF PollStatus, Goto, totals, chip
  <2>2. counter = last + 1 /\ ~Busy'
    BY <1>4, <2>1 DEF OwnRecord, Appending, Busy
  <2> QED BY <1>2, <1>4, <2>1, <2>2, OwnKept DEF InProgram, Programming, Appending
<1>11. CASE UNCHANGED vars
  <2>1. pc' = pc /\ counter' = counter /\ prog' = prog
    BY <1>11 DEF vars, totals, chip
  <2>2. counter = IF pc \in Appending THEN last + 1 ELSE last
    BY <1>4 DEF OwnRecord
  <2>3. (InProgram /\ Busy) => prog.image \in {Image, Torn}
    BY <1>4 DEF OwnRecord
  <2> QED BY <1>2, <1>4, <2>1, <2>2, <2>3, OwnKept DEF InProgram, Programming, Busy
<1> QED BY <1>5, <1>6, <1>7, <1>8, <1>9, <1>10, <1>11

\* The page of the program in flight takes its content, or is torn.
LEMMA FinishReady ==
  ASSUME TypeInv, BlankInv, RecordInv, ChipFinishes
  PROVE  ReadyInv'
<1> USE DEF TypeInv, TypeOK, ControlInv
<1> SUFFICES ASSUME status' = "ready" PROVE ReadyInv'
  BY DEF ReadyInv
<1>1. /\ Busy /\ SetPage(prog.sector, prog.page, prog.image) /\ ~Busy' /\ status = "ready"
      /\ UNCHANGED <<pc, kind, used, next, open, slot, chunk, counter, last, boots, acked>>
  BY DEF ChipFinishes, Busy, identity, scan, place, totals, history
<1>2. pc = "wait" /\ prog.sector = next /\ prog.page = Target
  BY <1>1 DEF BlankInv, ChipIdle
<1>3. OwnPages /\ OwnRecord /\ OwnCounters /\ InProgram /\ Programming
  BY <1>1, <1>2 DEF RecordInv, ReadyInv, InProgram, Programming
<1> DEFINE c == prog.image
<1>4. c \in Content /\ flash[next][Target] = Blank /\ next \in Sector /\ Target \in Page
  BY <1>1, <1>2, ProgramAim
<1>5. c \in {Image, Torn}
  BY <1>1, <1>3 DEF OwnRecord
<1> HIDE DEF c
<1>6. SetPage(next, Target, c)
  BY <1>1, <1>2 DEF c
<1>7. /\ flash'[next][Target] = c
      /\ \A t \in Sector, q \in Page : ~(t = next /\ q = Target) => flash'[t][q] = flash[t][q]
      /\ \A t \in Sector, q \in Page : flash[t][q].type # "blank" => flash'[t][q] = flash[t][q]
  BY <1>4, <1>6, PutPage
<1>8. Target' = Target /\ Image' = Image /\ Begun' = Begun /\ InProgram' /\ Programming'
  BY <1>1, <1>3 DEF Target, Image, PageOf, Header, Data, Session, Begun, InProgram, Programming
<1>9. c.type = "data" =>
        open /\ Begun /\ c = Image /\ c = Data(kind, used, counter, chunk, boots)
        /\ c.boot = boots /\ c.session = used /\ c.kind = kind /\ c.chunk = chunk /\ c.counter = counter
  BY <1>5, PageTypes, HeaderFields, DataFields DEF Image, Session, Begun
<1>10. 0 \in Page /\ used \in Nat /\ next \in Nat /\ used <= next /\ (Begun => used \in Sector)
  BY <1>3, <1>4, LayoutAssumption DEF Page, Sector, PlaceTypeOK, OwnPages
<1>11. OwnPages'
  <2>1. Begun => flash'[used][0] = Header(used, kind)
    BY <1>3, <1>7, <1>10, HeaderFields DEF OwnPages
  <2>2. open => flash'[next][0] = Header(used, kind)
    BY <1>3, <1>4, <1>7, <1>10, HeaderFields DEF OwnPages
  <2>3. ASSUME NEW s \in Sector, NEW p \in Page, flash'[s][p].type = "data"
        PROVE  /\ flash'[s][p].boot = boots <=> (Begun /\ flash'[s][p].session = used)
               /\ flash'[s][p].boot = boots => s < next \/ (s = next /\ open /\ p <= Target)
               /\ s = next /\ open => flash'[s][p].boot = boots
               /\ ~open => s # next
               /\ ~Begun => flash'[s][p].session # used
    <3>1. CASE s = next /\ p = Target
      <4>1. flash'[s][p] = c
        BY <1>7, <3>1
      <4>2. p <= Target
        BY <3>1, <1>4 DEF Page
      <4> QED BY <1>9, <2>3, <3>1, <4>1, <4>2
    <3>2. CASE ~(s = next /\ p = Target)
      <4>1. flash'[s][p] = flash[s][p]
        BY <1>7, <3>2
      <4>2. (p < Target \/ (p = Target /\ InProgram)) => p <= Target
        BY <1>4 DEF Page
      <4> QED BY <1>3, <2>3, <4>1, <4>2 DEF OwnPages
    <3> QED BY <3>1, <3>2
  <2>4. \A p \in Page : p <= Target => p < Target \/ p = Target
    BY <1>4 DEF Page
  <2> QED BY <1>1, <1>3, <1>8, <1>10, <2>1, <2>2, <2>3, <2>4 DEF OwnPages
<1>12. OwnRecord'
  <2>0. kind \in Kinds /\ slot \in 0 .. Slots[kind] - 1 /\ chunk \in 0 .. Width[kind] - 1
    BY DEF ControlTypeOK, PlaceTypeOK
  <2>1. ASSUME NEW j \in 0 .. chunk - 1
        PROVE  flash'[next][PageOf(kind, slot, j)] = Data(kind, used, counter, j, boots)
    <3>1. j \in 0 .. Width[kind] - 1
      BY <2>0, LayoutAssumption
    <3>2. PageOf(kind, slot, j) \in Page
      BY <2>0, <3>1, PageOfInSector
    <3>3. flash[next][PageOf(kind, slot, j)] = Data(kind, used, counter, j, boots)
      BY <1>3 DEF OwnRecord
    <3> QED BY <1>4, <1>7, <3>2, <3>3, DataFields
  <2>2. ASSUME open, NEW q \in 1 .. Target - 1 PROVE flash'[next][q].type = "data"
    <3>1. q \in Page
      BY <1>4, LayoutAssumption DEF Page
    <3>2. flash[next][q].type = "data"
      BY <1>3, <2>2 DEF OwnRecord
    <3> QED BY <1>4, <1>7, <3>1, <3>2
  <2>3. /\ counter = IF pc \in Appending THEN last + 1 ELSE last
        /\ pc = "idle" => chunk = 0
        /\ \A a \in acked : a.boot = boots => a.counter <= last
    BY <1>3 DEF OwnRecord
  <2>4. /\ \A j \in 0 .. chunk' - 1 :
             flash'[next'][PageOf(kind', slot', j)] = Data(kind', used', counter', j, boots')
        /\ open' => \A q \in 1 .. Target' - 1 : flash'[next'][q].type = "data"
    BY <1>1, <1>8, <2>1, <2>2
  <2> QED BY <1>1, <2>3, <2>4 DEF OwnRecord, PageOf, Data
<1>13. OwnCounters'
  <2>1. ~RecordIn /\ Done(boots, last)
    <3>1. Image # Blank
      BY PageTypes, HeaderFields, DataFields DEF Image
    <3>2. ~RecordIn
      BY <1>4, <3>1 DEF RecordIn
    <3> QED BY <1>3, <3>2 DEF OwnCounters
  <2>2. CASE LastChunk(c)
    <3>1. /\ open /\ c = Image /\ c.boot = boots /\ c.counter = counter
          /\ chunk + 1 = Width[kind]
      BY <1>9, <2>2 DEF LastChunk
    <3>2. RecordIn'
      BY <1>1, <1>7, <1>8, <3>1 DEF RecordIn
    <3>3. counter = last + 1 /\ last \in Nat
      BY <1>2, <1>3, BoundAssumption DEF OwnRecord, Appending, CountTypeOK
    <3>4. Done(boots, counter)'
      <4>1. ASSUME NEW s \in Sector, NEW p \in Page, LastChunk(flash'[s][p]), flash'[s][p].boot = boots
            PROVE  flash'[s][p].counter <= counter
        <5>1. CASE s = next /\ p = Target
          BY <1>7, <3>1, <3>3, <5>1
        <5>2. CASE ~(s = next /\ p = Target)
          <6>1. flash'[s][p] = flash[s][p]
            BY <1>7, <5>2
          <6>2. flash[s][p].counter <= last
            BY <2>1, <4>1, <6>1 DEF Done
          <6>3. flash[s][p].counter \in Nat
            BY <4>1, <6>1, DataContent DEF ChipTypeOK, LastChunk
          <6> QED BY <3>3, <6>1, <6>2, <6>3
        <5> QED BY <5>1, <5>2
      <4>2. ASSUME NEW n \in 1 .. counter
            PROVE  \E s \in Sector, p \in Page :
                     LastChunk(flash'[s][p]) /\ flash'[s][p].boot = boots /\ flash'[s][p].counter = n
        <5>1. CASE n = counter
          BY <1>4, <1>7, <2>2, <3>1, <5>1
        <5>2. CASE n # counter
          <6>1. n \in 1 .. last
            BY <3>3, <5>2
          <6>2. PICK s \in Sector, p \in Page :
                  LastChunk(flash[s][p]) /\ flash[s][p].boot = boots /\ flash[s][p].counter = n
            BY <2>1, <6>1 DEF Done
          <6>3. flash'[s][p] = flash[s][p]
            BY <1>7, <6>2 DEF LastChunk
          <6> QED BY <6>2, <6>3
        <5> QED BY <5>1, <5>2
      <4> QED BY <1>1, <4>1, <4>2 DEF Done, LastChunk
    <3> QED BY <3>2, <3>4 DEF OwnCounters
  <2>3. CASE ~LastChunk(c)
    <3>1. ~RecordIn'
      <4> SUFFICES ASSUME RecordIn' PROVE FALSE
        OBVIOUS
      <4>1. open /\ chunk + 1 = Width[kind] /\ c = Image
        BY <1>1, <1>7, <1>8 DEF RecordIn
      <4> QED BY <2>3, <4>1, DataFields DEF Image, LastChunk
    <3>2. Done(boots, last)'
      <4>1. \A s \in Sector, p \in Page : LastChunk(flash'[s][p]) => flash'[s][p] = flash[s][p]
        BY <1>7, <2>3
      <4>2. \A s \in Sector, p \in Page : LastChunk(flash[s][p]) => flash'[s][p] = flash[s][p]
        BY <1>7 DEF LastChunk
      <4>3. \A s \in Sector, p \in Page :
              LastChunk(flash'[s][p]) /\ flash'[s][p].boot = boots => flash'[s][p].counter <= last
        BY <2>1, <4>1 DEF Done
      <4>4. \A n \in 1 .. last : \E s \in Sector, p \in Page :
              LastChunk(flash'[s][p]) /\ flash'[s][p].boot = boots /\ flash'[s][p].counter = n
        BY <2>1, <4>2 DEF Done
      <4> QED BY <1>1, <4>3, <4>4 DEF Done, LastChunk
    <3> QED BY <3>1, <3>2 DEF OwnCounters
  <2> QED BY <2>2, <2>3
<1> QED BY <1>11, <1>12, <1>13 DEF ReadyInv

\* What the writer knows when the page it programmed reads back.
LEMMA PageVerified ==
  ASSUME TypeInv, BlankInv, RecordInv, VerifyPage, HeaderDone \/ ChunkDone \/ RecordDone
  PROVE  /\ flash[next][Target] = Image /\ UNCHANGED chip /\ UNCHANGED <<kind, used, counter, boots>>
         /\ status = "ready" /\ pc = "verify" /\ ~Busy'
         /\ OwnPages /\ OwnRecord /\ OwnCounters /\ InProgram /\ Programming
         /\ pc' \in {"check", "idle"} /\ ~InProgram' /\ ~Programming'
         /\ counter = last + 1 /\ last \in Nat /\ next \in Sector
         /\ Target \in Nat /\ next \in Nat /\ used \in Nat /\ used <= next
         /\ kind \in Kinds /\ slot \in Nat /\ chunk \in Nat
         /\ slot \in 0 .. Slots[kind] - 1 /\ chunk \in 0 .. Width[kind] - 1
<1> USE DEF TypeInv, TypeOK, ControlInv
<1>1. /\ pc = "verify" /\ UNCHANGED chip /\ UNCHANGED <<kind, used, counter>> /\ status' = status
      /\ pc' \in {"check", "idle"}
  BY DEF VerifyPage, HeaderDone, ChunkDone, RecordDone, Goto, identity, scan, totals
<1>2. status = "ready" /\ next < Sectors
  BY <1>1 DEF Appending
<1>3. flash[next][Target] = Image /\ boots' = boots
  BY <1>1, <1>2 DEF VerifyPage, AppendFails, Fail, history
<1>4. OwnPages /\ OwnRecord /\ OwnCounters /\ InProgram /\ Programming
  BY <1>1, <1>2 DEF RecordInv, ReadyInv, InProgram, Programming
<1>5. ~Busy'
  BY <1>1, <1>2 DEF BlankInv, ChipIdle, Busy, chip
<1>6. next \in Nat /\ next \in Sector /\ used \in Nat /\ used <= next /\ last \in Nat
  BY <1>2, <1>4, LayoutAssumption, BoundAssumption DEF PlaceTypeOK, CountTypeOK, Sector, OwnPages
<1>7. Target \in Nat
  BY TargetType, LayoutAssumption DEF Page
<1>8. kind \in Kinds /\ slot \in 0 .. Slots[kind] - 1 /\ chunk \in 0 .. Width[kind] - 1
      /\ slot \in Nat /\ chunk \in Nat
  BY LayoutAssumption DEF ControlTypeOK, PlaceTypeOK
<1>9. counter = last + 1
  BY <1>1, <1>4 DEF OwnRecord, Appending
<1> QED BY <1>1, <1>2, <1>3, <1>4, <1>5, <1>6, <1>7, <1>8, <1>9 DEF InProgram, Programming

\* The header of the sector stands: its first record comes next.
LEMMA HeaderReady ==
  ASSUME TypeInv, BlankInv, RecordInv, VerifyPage, HeaderDone
  PROVE  ReadyInv'
<1>1. /\ ~open /\ open' /\ slot' = 0 /\ chunk' = 0 /\ pc' = "check"
      /\ next' = next /\ acked' = acked /\ last' = last
  BY DEF HeaderDone, Goto, totals
<1>2. /\ flash[next][0] = Header(used, kind) /\ flash' = flash
      /\ UNCHANGED <<kind, used, counter, boots>>
      /\ OwnPages /\ OwnRecord /\ OwnCounters /\ InProgram /\ Programming
      /\ ~InProgram' /\ ~Programming' /\ counter = last + 1
      /\ next \in Nat /\ used \in Nat /\ used <= next /\ kind \in Kinds
  BY <1>1, PageVerified DEF Target, Image, Session, chip
<1>3. Begun' /\ (~Begun => next = used) /\ ~RecordIn /\ ~RecordIn' /\ Target' = 1
  <2>1. Target' = 1
    BY <1>1, <1>2, LayoutAssumption DEF Target, PageOf
  <2> QED BY <1>1, <1>2, <2>1 DEF Begun, RecordIn
<1>4. OwnPages'
  <2>1. flash'[used][0] = Header(used, kind)
    BY <1>2, <1>3 DEF OwnPages
  <2>2. ASSUME NEW s \in Sector, NEW p \in Page, flash[s][p].type = "data"
        PROVE  /\ flash[s][p].boot = boots <=> flash[s][p].session = used
               /\ flash[s][p].boot = boots => s < next
               /\ s # next
    BY <1>1, <1>2, <2>2 DEF OwnPages
  <2> QED BY <1>1, <1>2, <1>3, <2>1, <2>2 DEF OwnPages
<1>5. OwnRecord'
  BY <1>1, <1>2, <1>3 DEF OwnRecord, Appending
<1>6. OwnCounters'
  BY <1>1, <1>2, <1>3 DEF OwnCounters, Done, LastChunk
<1> QED BY <1>4, <1>5, <1>6 DEF ReadyInv

\* One page more of the record stands.
LEMMA RecordGrows ==
  ASSUME OwnRecord, open, NEW n \in Nat, n = Target, chunk \in Nat,
         flash[next][Target] = Image
  PROVE  /\ \A j \in 0 .. chunk :
              flash[next][PageOf(kind, slot, j)] = Data(kind, used, counter, j, boots)
         /\ \A q \in 1 .. n : flash[next][q].type = "data"
<1>1. Target = PageOf(kind, slot, chunk) /\ Image = Data(kind, used, counter, chunk, boots)
  BY DEF Target, Image, Session
<1>2. ASSUME NEW j \in 0 .. chunk
      PROVE  flash[next][PageOf(kind, slot, j)] = Data(kind, used, counter, j, boots)
  <2>1. j = chunk \/ j \in 0 .. chunk - 1
    OBVIOUS
  <2> QED BY <1>1, <2>1 DEF OwnRecord
<1>3. ASSUME NEW q \in 1 .. n PROVE flash[next][q].type = "data"
  <2>1. q = n \/ q \in 1 .. n - 1
    OBVIOUS
  <2> QED BY <1>1, <2>1, DataFields DEF OwnRecord
<1> QED BY <1>2, <1>3

\* The next page of the record comes next.
LEMMA ChunkReady ==
  ASSUME TypeInv, BlankInv, RecordInv, VerifyPage, ChunkDone
  PROVE  ReadyInv'
<1>1. /\ open /\ open' /\ slot' = slot /\ chunk' = chunk + 1 /\ pc' = "check"
      /\ chunk + 1 < Width[kind] /\ next' = next /\ acked' = acked /\ last' = last
  BY DEF ChunkDone, Goto, totals
<1>2. /\ flash[next][Target] = Image /\ flash' = flash
      /\ UNCHANGED <<kind, used, counter, boots>>
      /\ OwnPages /\ OwnRecord /\ OwnCounters /\ InProgram /\ Programming
      /\ ~InProgram' /\ ~Programming' /\ counter = last + 1
      /\ Target \in Nat /\ kind \in Kinds /\ slot \in Nat /\ chunk \in Nat
  BY <1>1, PageVerified DEF chip
<1>3. Begun /\ Begun' /\ ~RecordIn /\ ~RecordIn' /\ Target' = Target + 1
  <2>1. Target' = Target + 1
    BY <1>1, <1>2, PageOfNext DEF Target, PageOf
  <2>2. Width[kind] \in Nat
    BY <1>2, LayoutAssumption
  <2> QED BY <1>1, <1>2, <2>1, <2>2 DEF Begun, RecordIn
<1>4. OwnPages'
  <2>1. ASSUME NEW p \in Page, p < Target \/ p = Target PROVE p < Target'
    BY <1>2, <1>3, <2>1, LayoutAssumption DEF Page
  <2> QED BY <1>1, <1>2, <1>3, <2>1 DEF OwnPages
<1>5. OwnRecord'
  <2>1. /\ \A j \in 0 .. chunk :
             flash[next][PageOf(kind, slot, j)] = Data(kind, used, counter, j, boots)
        /\ \A q \in 1 .. Target : flash[next][q].type = "data"
    BY <1>1, <1>2, RecordGrows
  <2>2. chunk' - 1 = chunk /\ Target' - 1 = Target
    BY <1>1, <1>2, <1>3
  <2> QED BY <1>1, <1>2, <2>1, <2>2 DEF OwnRecord, Appending, PageOf, Data
<1>6. OwnCounters'
  BY <1>1, <1>2, <1>3 DEF OwnCounters, Done, LastChunk
<1> QED BY <1>4, <1>5, <1>6 DEF ReadyInv

\* The record is complete: the next slot, or the next sector, comes next.
LEMMA RecordReady ==
  ASSUME TypeInv, BlankInv, RecordInv, VerifyPage, RecordDone
  PROVE  ReadyInv'
<1>1. /\ open /\ chunk + 1 = Width[kind] /\ last' = counter /\ chunk' = 0 /\ pc' = "idle"
      /\ acked' = acked \cup {[boot |-> boots, counter |-> counter]}
  BY DEF RecordDone
<1>2. /\ flash[next][Target] = Image /\ flash' = flash
      /\ UNCHANGED <<kind, used, counter, boots>>
      /\ OwnPages /\ OwnRecord /\ OwnCounters /\ InProgram /\ Programming
      /\ ~InProgram' /\ ~Programming' /\ counter = last + 1 /\ last \in Nat
      /\ Target \in Nat /\ kind \in Kinds /\ slot \in Nat /\ chunk \in Nat
      /\ next \in Nat /\ used \in Nat /\ used <= next
  BY <1>1, PageVerified DEF chip
<1>3. /\ \A j \in 0 .. chunk :
           flash[next][PageOf(kind, slot, j)] = Data(kind, used, counter, j, boots)
      /\ \A q \in 1 .. Target : flash[next][q].type = "data"
  BY <1>1, <1>2, RecordGrows
<1>4. OwnCounters'
  <2>1. RecordIn /\ ~RecordIn'
    BY <1>1, <1>2 DEF RecordIn
  <2> QED BY <1>1, <1>2, <2>1 DEF OwnCounters, Done, LastChunk
<1>5. \A a \in acked' : a.boot = boots => a.counter <= counter
  <2>1. \A a \in acked : a.boot = boots => a.counter <= counter
    <3>1. acked \subseteq [boot : Nat, counter : Nat]
      BY DEF TypeInv, TypeOK, CountTypeOK
    <3> QED BY <1>2, <3>1 DEF OwnRecord
  <2> QED BY <1>1, <1>2, <2>1
<1>6. CASE slot + 1 = Slots[kind]
  <2>1. next' = next + 1 /\ ~open'
    BY <1>6 DEF RecordDone
  <2>2. Begun /\ Begun' /\ used <= next'
    BY <1>1, <1>2, <2>1 DEF Begun
  <2>3. \A s \in Sector : s \in Nat
    BY LayoutAssumption DEF Sector
  <2>4. OwnPages'
    BY <1>1, <1>2, <2>1, <2>2, <2>3 DEF OwnPages
  <2>5. OwnRecord'
    BY <1>1, <1>2, <1>5, <2>1 DEF OwnRecord, Appending
  <2> QED BY <1>4, <2>4, <2>5 DEF ReadyInv
<1>7. CASE slot + 1 # Slots[kind]
  <2>1. next' = next /\ open' /\ slot' = slot + 1
    BY <1>1, <1>7 DEF RecordDone
  <2>2. Begun /\ Begun' /\ Target' = Target + 1
    <3>1. Target' = Target + 1
      BY <1>1, <1>2, <2>1, PageOfNext DEF Target, PageOf
    <3> QED BY <1>1, <2>1, <3>1 DEF Begun
  <2>3. OwnPages'
    <3>1. ASSUME NEW p \in Page, p < Target \/ p = Target PROVE p < Target'
      BY <1>2, <2>2, <3>1, LayoutAssumption DEF Page
    <3> QED BY <1>1, <1>2, <2>1, <2>2, <3>1 DEF OwnPages
  <2>4. OwnRecord'
    <3>1. Target' - 1 = Target
      BY <1>2, <2>2
    <3> QED BY <1>1, <1>2, <1>3, <1>5, <2>1, <3>1 DEF OwnRecord, Appending
  <2> QED BY <1>4, <2>3, <2>4 DEF ReadyInv
<1> QED BY <1>6, <1>7

LEMMA NextReady ==
  ASSUME TypeInv, BlankInv, RecordInv, [Next]_vars
  PROVE  ReadyInv'
<1> USE DEF TypeInv, TypeOK, ControlInv
<1> SUFFICES ASSUME status' = "ready" PROVE ReadyInv'
  BY DEF ReadyInv
<1>1. BlankInv'
  BY NextBlank
<1>2. CASE \E m \in Modes, k \in Kinds : Begin(m, k)
  BY <1>2 DEF Begin
<1>3. CASE Identify \/ ScanSector
  BY <1>3 DEF Identify, ScanSector, BeginFails, Fail
<1>4. CASE ScanDone
  BY <1>4, ScanReady
<1>5. CASE Append \/ OpenSector \/ CheckPage \/ WriteEnable \/ ProgramPage \/ PollStatus
           \/ UNCHANGED vars
  BY <1>1, <1>5, StepReady
<1>6. CASE VerifyPage
  <2>1. HeaderDone \/ ChunkDone \/ RecordDone
    BY <1>6 DEF VerifyPage, AppendFails, Fail
  <2> QED BY <1>6, <2>1, HeaderReady, ChunkReady, RecordReady
<1>7. CASE ChipFinishes
  BY <1>7, FinishReady
<1>8. CASE PowerLoss \/ ProcessorReset
  BY <1>8 DEF PowerLoss, ProcessorReset, ForgetRam
<1> QED BY <1>2, <1>3, <1>4, <1>5, <1>6, <1>7, <1>8 DEF Next

LEMMA NextRecord == TypeInv /\ BlankInv /\ RecordInv /\ [Next]_vars => RecordInv'
BY NextOrder, NextNewBoot, NextReady DEF RecordInv

LEMMA InitRecord == Init => RecordInv
<1> SUFFICES ASSUME Init PROVE RecordInv
  OBVIOUS
<1>1. \A s \in Sector, p \in Page : flash[s][p].type = "blank"
  BY PageTypes DEF Init
<1>2. 0 \in Page
  BY LayoutAssumption DEF Page
<1>3. FlashInv
  BY <1>1, <1>2 DEF FlashInv, HeaderPages, DataPagesPlaced, SessionPerBoot, CountersRise, LastChunk
<1>4. FlightInv /\ NewBoot /\ ReadyInv
  BY <1>1 DEF Init, RamInit, FlightInv, Busy, NewBoot, ReadyInv
<1> QED BY <1>3, <1>4 DEF RecordInv

-----------------------------------------------------------------------------
(***************************************************************************)
(* The flash image implements the promised log                             *)
(***************************************************************************)
\* The invariant that carries the theorems about the image.
JournalInv == TypeInv /\ BlankInv /\ RecordInv

LEMMA InitJournal == Init => JournalInv
BY InitType, InitBlank, InitRecord DEF JournalInv

LEMMA NextJournal == JournalInv /\ [Next]_vars => JournalInv'
BY NextType, NextBlank, NextRecord DEF JournalInv

LEMMA ExactLog == JournalInv => LogExact
BY LogIsExact DEF JournalInv, TypeInv, TypeOK, RecordInv

\* "Never reuse a sector after reboot" (storage.c:3): no sector and no session number of the
\* image holds pages of two boots, whatever was torn, misread or left running before.
THEOREM SessionsSeparate == Spec => []SessionPerBoot
<1>1. JournalInv => SessionPerBoot
  BY DEF JournalInv, RecordInv, FlashInv
<1> QED BY InitJournal, NextJournal, <1>1, PTL DEF Spec

\* A record the host recovers has all its chunks from one sample of one boot: page_decode
\* and recover never assemble one from what two boots or two layouts left.
THEOREM RecordsIntact == Spec => []RecoveredIntact
<1>1. JournalInv => RecoveredIntact
  BY IntactFromOrder DEF JournalInv, TypeInv, TypeOK, RecordInv
<1> QED BY InitJournal, NextJournal, <1>1, PTL DEF Spec

\* recover refuses a record whose counter does not pass the last one of its session: no
\* complete record the firmware wrote is ever refused by it.
THEOREM NothingRefused == Spec => [](Recovered = Candidates)
<1>1. JournalInv => Recovered = Candidates
  BY AllRecovered DEF JournalInv, TypeInv, TypeOK, RecordInv
<1> QED BY InitJournal, NextJournal, <1>1, PTL DEF Spec

LEMMA InitLog == Init => J!JInit
<1> SUFFICES ASSUME Init PROVE J!JInit
  OBVIOUS
<1>1. JournalInv /\ LogExact
  BY InitJournal, ExactLog
<1>2. \A s \in Sector, p \in Page : flash[s][p].type = "blank"
  BY PageTypes DEF Init
<1>3. StoredLog = {}
  BY <1>2 DEF StoredLog, LastChunk
<1> QED BY <1>1, <1>3 DEF LogExact, J!JInit, Init

\* storage_append counts a record as written when its last page is in the array: the log
\* has it already, and has not counted it before.
LEMMA RecordAcked ==
  ASSUME JournalInv, LogExact, LogExact', VerifyPage, RecordDone
  PROVE  J!JNext
<1> DEFINE r == [boot |-> boots, counter |-> counter]
<1>1. TypeInv /\ BlankInv /\ RecordInv /\ LogExact /\ LogExact'
  BY DEF JournalInv, TypeInv, TypeOK, RecordInv
<1>2. open /\ chunk + 1 = Width[kind] /\ acked' = acked \cup {r}
  BY DEF RecordDone
<1>3. /\ flash[next][Target] = Image /\ flash' = flash /\ counter = last + 1 /\ last \in Nat
      /\ next \in Sector /\ OwnRecord
  BY <1>1, PageVerified DEF chip
<1>4. Target \in Page
  BY <1>1, TargetType DEF TypeInv
<1>5. r \in StoredLog
  <2>1. LastChunk(Image) /\ Image.boot = boots /\ Image.counter = counter
    BY <1>2, DataFields DEF Image, LastChunk
  <2> QED BY <1>3, <1>4, <2>1, LogMembers
<1>6. r \notin acked
  <2>1. \A a \in acked : a.boot = boots => a.counter <= last
    BY <1>3 DEF OwnRecord
  <2> QED BY <1>3, <2>1
<1>7. StoredLog' = StoredLog
  BY <1>3 DEF StoredLog, LastChunk
<1> HIDE DEF r
<1>8. J!Ack(r)
  BY <1>1, <1>2, <1>5, <1>6, <1>7 DEF LogExact, J!Ack
<1>9. r \in acked' \ acked
  BY <1>2, <1>6
<1> QED BY <1>8, <1>9 DEF J!JNext

\* A page program that ends, in whatever way, stores a record or changes nothing in the log.
LEMMA LogStep ==
  ASSUME JournalInv, LogExact, LogExact', [Next]_vars
  PROVE  [J!JNext]_(J!jvars)
<1>1. TypeInv /\ BlankInv /\ RecordInv /\ ChipTypeOK /\ FlashInv /\ LogExact /\ LogExact'
  BY DEF JournalInv, TypeInv, TypeOK, RecordInv
<1>2. ASSUME UNCHANGED <<flash, acked>> PROVE [J!JNext]_(J!jvars)
  <2>1. StoredLog' = StoredLog
    BY <1>2 DEF StoredLog, LastChunk
  <2> QED BY <1>1, <1>2, <2>1 DEF LogExact, J!jvars
<1>3. ASSUME Busy, UNCHANGED acked, NEW c \in {Torn, prog.image}, SetPage(prog.sector, prog.page, c)
      PROVE  [J!JNext]_(J!jvars)
  <2>1. /\ prog.sector \in Sector /\ prog.page \in Page /\ c \in Content
        /\ flash[prog.sector][prog.page] = Blank
    BY <1>1, <1>3, ProgramAim, PageTypes
  <2>2. Fits(prog.sector, prog.page, c)
    BY <1>1, <1>3 DEF RecordInv, FlightInv, Fits
  <2> QED BY <1>1, <1>3, <2>1, <2>2, PutStores
<1>4. CASE VerifyPage /\ RecordDone
  BY <1>4, RecordAcked
<1>5. CASE ChipFinishes
  BY <1>3, <1>5 DEF ChipFinishes, history
<1>6. CASE PowerLoss
  <2>1. UNCHANGED acked
    BY <1>6 DEF PowerLoss, ForgetRam, history
  <2> QED BY <1>2, <1>3, <1>6, <2>1 DEF PowerLoss
<1>7. CASE ~(ChipFinishes \/ PowerLoss \/ (VerifyPage /\ RecordDone))
  <2>1. UNCHANGED flash
    BY <1>7 DEF Next, Begin, Identify, BeginFails, ScanSector, ScanDone, Append, OpenSector,
       CheckPage, WriteEnable, ProgramPage, PollStatus, VerifyPage, ProcessorReset, chip, vars
  <2>2. UNCHANGED acked
    BY <1>7 DEF Next, Begin, Identify, ScanSector, ScanDone, Append, OpenSector, CheckPage,
       WriteEnable, ProgramPage, PollStatus, VerifyPage, HeaderDone, ChunkDone, ProcessorReset,
       ForgetRam, ReadBlank, history, vars
  <2> QED BY <1>2, <2>1, <2>2
<1> QED BY <1>4, <1>5, <1>6, <1>7

\* The image implements the abstract journal: the log the host recovers only grows, record by
\* record, in order and without a gap inside a boot, and keeps what was counted as written.
THEOREM JournalImplemented == Spec => JournalSpec
<1>1. JournalInv /\ LogExact /\ LogExact' /\ [Next]_vars => [J!JNext]_(J!jvars)
  BY LogStep
<1> QED BY InitJournal, NextJournal, InitLog, ExactLog, <1>1, PTL DEF Spec, JournalSpec, J!JSpec

-----------------------------------------------------------------------------
(***************************************************************************)
(* Every call is counted                                                   *)
(***************************************************************************)
\* A counter that wraps at m counts the total modulo m.
LEMMA RemainderNext ==
  ASSUME NEW m \in Nat \ {0}, NEW n \in Nat
  PROVE  (n + 1) % m = ((n % m) + 1) % m
<1> DEFINE q == n \div m
           r == n % m
<1>1. n = m * q + r /\ r \in 0 .. m - 1 /\ q \in Nat
  OBVIOUS
<1> HIDE DEF q, r
<1>2. CASE r + 1 < m
  <2>1. n + 1 = m * q + (r + 1) /\ r + 1 = m * 0 + (r + 1) /\ r + 1 \in 0 .. m - 1
    BY <1>1, <1>2
  <2>2. (n + 1) % m = r + 1 /\ (r + 1) % m = r + 1
    BY <1>1, <2>1, QuotientRemainder
  <2> QED BY <2>2 DEF r
<1>3. CASE r + 1 = m
  <2>1. n + 1 = m * (q + 1) + 0 /\ m = m * 1 + 0 /\ q + 1 \in Nat /\ 0 \in 0 .. m - 1
    BY <1>1, <1>3
  <2>2. (n + 1) % m = 0
    BY <2>1, QuotientRemainder
  <2>3. m % m = 0
    BY <2>1, QuotientRemainder
  <2> QED BY <1>3, <2>2, <2>3 DEF r
<1> QED BY <1>1, <1>2, <1>3

\* The totals against the acquisition counter, also while a record is being written.
CountInv ==
  /\ pc \in {"off", "identify", "scan"} => counter = 0 /\ written = 0 /\ dropped = 0
  /\ pc = "idle" => (written + dropped) % CounterModulus = counter
  /\ pc \in Appending => (written + dropped + 1) % CounterModulus = counter

\* A call moves the counter and ends in one of the totals.
LEMMA NextCount ==
  ASSUME TypeInv, CountInv, [Next]_vars
  PROVE  CountInv'
<1> USE DEF TypeInv, TypeOK, ControlInv, CountInv
<1>1. /\ CounterModulus \in Nat \ {0} /\ written \in Nat /\ dropped \in Nat
      /\ 0 % CounterModulus = 0
      /\ (written + dropped + 1) % CounterModulus =
           (((written + dropped) % CounterModulus) + 1) % CounterModulus
  <2>1. CounterModulus \in Nat \ {0} /\ written \in Nat /\ dropped \in Nat
    BY BoundAssumption DEF CountTypeOK
  <2>2. written + dropped \in Nat
    BY <2>1
  <2>3. (written + dropped + 1) % CounterModulus =
           (((written + dropped) % CounterModulus) + 1) % CounterModulus
    BY <2>1, <2>2, RemainderNext
  <2>4. 0 % CounterModulus = 0
    BY <2>1
  <2> QED BY <2>1, <2>3, <2>4
<1>2. ASSUME NEW e, AppendFails(e), pc \in Appending PROVE CountInv'
  <2>1. pc' = "idle" /\ written' + dropped' = written + dropped + 1 /\ counter' = counter
    BY <1>1, <1>2 DEF AppendFails
  <2> QED BY <1>2, <2>1 DEF Appending
<1>3. ASSUME NEW step, Goto(step), pc \in Appending, step \in Appending PROVE CountInv'
  <2>1. pc' = step /\ UNCHANGED <<written, dropped, counter>>
    BY <1>3 DEF Goto, totals
  <2> QED BY <1>3, <2>1 DEF Appending
<1>4. CASE \E m \in Modes, k \in Kinds : Begin(m, k)
  BY <1>4 DEF Begin, totals, Appending
<1>5. CASE Identify \/ ScanSector \/ ScanDone
  <2>1. /\ pc \in {"identify", "scan"} /\ pc' \in {"scan", "idle"}
        /\ UNCHANGED <<written, dropped, counter>>
    BY <1>5 DEF Identify, ScanSector, ScanDone, BeginFails, totals
  <2> QED BY <1>1, <2>1 DEF Appending
<1>6. CASE Append
  <2>1. pc = "idle" /\ written' = written /\ counter' = (counter + 1) % CounterModulus
    BY <1>6 DEF Append
  <2>2. \/ pc' = "idle" /\ dropped' = dropped + 1
        \/ pc' \in Appending /\ dropped' = dropped
    BY <1>6 DEF Append, Appending
  <2>3. counter' = (written + dropped + 1) % CounterModulus
    BY <1>1, <2>1
  <2>4. written + (dropped + 1) = written + dropped + 1
    BY <1>1
  <2> QED BY <2>1, <2>2, <2>3, <2>4 DEF Appending
<1>7. CASE OpenSector \/ CheckPage \/ WriteEnable \/ ProgramPage \/ PollStatus
  <2>1. pc \in Appending
    BY <1>7 DEF OpenSector, CheckPage, WriteEnable, ProgramPage, PollStatus, Appending
  <2>2. (\E e : AppendFails(e)) \/ (\E step \in Appending : Goto(step))
    BY <1>7 DEF OpenSector, CheckPage, WriteEnable, ProgramPage, PollStatus, Appending
  <2> QED BY <1>2, <1>3, <2>1, <2>2
<1>8. CASE VerifyPage
  <2>1. pc \in Appending
    BY <1>8 DEF VerifyPage, Appending
  <2>2. (\E e : AppendFails(e)) \/ (\E step \in Appending : Goto(step)) \/ RecordDone
    BY <1>8 DEF VerifyPage, HeaderDone, ChunkDone, Appending
  <2>3. CASE RecordDone
    <3>1. pc' = "idle" /\ written' + dropped' = written + dropped + 1 /\ counter' = counter
      BY <1>1, <2>3 DEF RecordDone
    <3> QED BY <2>1, <3>1 DEF Appending
  <2> QED BY <1>2, <1>3, <2>1, <2>2, <2>3
<1>9. CASE ChipFinishes \/ UNCHANGED vars
  BY <1>9 DEF ChipFinishes, totals, vars, Appending
<1>10. CASE PowerLoss \/ ProcessorReset
  BY <1>10 DEF PowerLoss, ProcessorReset, ForgetRam, Appending
<1> QED BY <1>4, <1>5, <1>6, <1>7, <1>8, <1>9, <1>10 DEF Next

\* storage_append counts every acquisition of a boot exactly once, as written or as dropped.
THEOREM CallsCounted == Spec => []EveryCallCounted
<1>1. Init => CountInv
  BY DEF Init, RamInit, CountInv, Appending
<1>2. CountInv => EveryCallCounted
  BY DEF CountInv, EveryCallCounted
<1> QED BY InitType, NextType, NextCount, <1>1, <1>2, PTL DEF Spec

-----------------------------------------------------------------------------
(***************************************************************************)
(* A boot damages one page at most                                         *)
(*                                                                         *)
(* The page of the program under way counts as damaged: it is, or becomes, *)
(* torn, or it reads back and the boot has damaged nothing yet.            *)
(***************************************************************************)
Damaged == {x \in Sector \X Page : flash[x[1]][x[2]] = Torn
                \/ (Busy /\ x = <<prog.sector, prog.page>>)}
DamageInv ==
  /\ pc \in {"identify", "scan"} => status = "scanning"
  /\ IsFiniteSet(Damaged)
  /\ Cardinality(Damaged) <= boots
  /\ (pc # "off" /\ status # "stopped" /\ ~InProgram) => Cardinality(Damaged) < boots
  /\ InProgram => Cardinality(Damaged \ {<<next, Target>>}) < boots

LEMMA SmallerSet ==
  ASSUME NEW S, IsFiniteSet(S), NEW T, T \subseteq S
  PROVE  /\ IsFiniteSet(T) /\ Cardinality(T) \in Nat /\ Cardinality(S) \in Nat
         /\ Cardinality(T) <= Cardinality(S)
BY FS_Subset, FS_CardinalityType

\* Only ProgramPage adds a page to the damaged ones: the one it aims at.
LEMMA DamagedStep ==
  ASSUME TypeInv, BlankInv, [Next]_vars
  PROVE  \/ Damaged' \subseteq Damaged
         \/ ProgramPage /\ Damaged' \subseteq Damaged \cup {<<next, Target>>}
<1>1. CASE ProgramPage
  <2>1. pc = "program" /\ flash' = flash
    BY <1>1 DEF ProgramPage
  <2>2. ~Busy
    BY <2>1 DEF BlankInv, ChipIdle, TypeInv, ControlInv, Appending
  <2>3. prog' = prog \/ \E image : prog' = [sector |-> next, page |-> Target, image |-> image]
    BY <1>1 DEF ProgramPage
  <2>4. Busy' => prog'.sector = next /\ prog'.page = Target
    BY <2>2, <2>3 DEF Busy
  <2>5. Damaged' \subseteq Damaged \cup {<<next, Target>>}
    BY <2>1, <2>4 DEF Damaged
  <2> QED BY <1>1, <2>5
<1>2. ASSUME Busy, ~Busy', NEW c, SetPage(prog.sector, prog.page, c)
      PROVE  Damaged' \subseteq Damaged
  <2>1. flash \in [Sector -> [Page -> Content]] /\ prog.sector \in Sector /\ prog.page \in Page
    BY <1>2, ProgramAim DEF TypeInv, TypeOK, ChipTypeOK
  <2>2. ASSUME NEW x \in Sector \X Page, flash'[x[1]][x[2]] = Torn
        PROVE  x = <<prog.sector, prog.page>> \/ flash[x[1]][x[2]] = Torn
    <3>1. PICK s \in Sector, p \in Page : x = <<s, p>>
      OBVIOUS
    <3>2. flash'[s][p] = Torn
      BY <2>2, <3>1
    <3>3. (s = prog.sector /\ p = prog.page) \/ flash[s][p] = Torn
      BY <1>2, <2>1, <3>2 DEF SetPage
    <3> QED BY <3>1, <3>3
  <2> QED BY <1>2, <2>2 DEF Damaged
<1>3. ASSUME UNCHANGED flash, prog' = prog \/ ~Busy' PROVE Damaged' \subseteq Damaged
  BY <1>3 DEF Damaged, Busy
<1>4. CASE ChipFinishes
  BY <1>2, <1>4 DEF ChipFinishes, Busy
<1>5. CASE PowerLoss
  BY <1>2, <1>3, <1>5 DEF PowerLoss, Busy
<1>6. CASE ~(ProgramPage \/ ChipFinishes \/ PowerLoss)
  <2>1. UNCHANGED <<flash, prog>>
    BY <1>6 DEF Next, Begin, Identify, BeginFails, ScanSector, ScanDone, Append, OpenSector,
       CheckPage, WriteEnable, PollStatus, VerifyPage, ProcessorReset, chip, vars
  <2> QED BY <1>3, <2>1
<1> QED BY <1>1, <1>4, <1>5, <1>6

LEMMA NextDamage ==
  ASSUME TypeInv, BlankInv, DamageInv, [Next]_vars
  PROVE  DamageInv'
<1> USE DEF TypeInv, TypeOK, ControlInv
<1> DEFINE aim == <<next, Target>>
<1>1. /\ boots \in Nat /\ IsFiniteSet(Damaged) /\ Cardinality(Damaged) \in Nat
      /\ Cardinality(Damaged) <= boots
  BY BoundAssumption, SmallerSet DEF DamageInv, CountTypeOK
<1>2. CASE ProgramPage
  <2>1. pc = "program" /\ status = "ready" /\ boots' = boots
    BY <1>2 DEF ProgramPage, Appending, history
  <2>2. Damaged' \subseteq Damaged \cup {aim} /\ Cardinality(Damaged) < boots
    BY <1>2, <2>1, DamagedStep DEF DamageInv, InProgram
  <2>3. IsFiniteSet(Damaged \cup {aim}) /\ Cardinality(Damaged \cup {aim}) <= boots
    <3> HIDE DEF aim
    <3>1. /\ IsFiniteSet(Damaged \cup {aim})
          /\ Cardinality(Damaged \cup {aim}) =
               IF aim \in Damaged THEN Cardinality(Damaged) ELSE Cardinality(Damaged) + 1
      BY <1>1, FS_AddElement
    <3> QED BY <1>1, <2>2, <3>1
  <2>4. IsFiniteSet(Damaged') /\ Cardinality(Damaged') \in Nat /\ Cardinality(Damaged') <= boots
    BY <1>1, <2>2, <2>3, SmallerSet
  <2>5. \/ status' = "stopped" /\ pc' = "idle"
        \/ pc' = "wait" /\ UNCHANGED <<kind, place>>
    BY <1>2 DEF ProgramPage, AppendFails, Fail, Goto, identity
  <2>6. CASE status' = "stopped" /\ pc' = "idle"
    BY <2>1, <2>4, <2>6 DEF DamageInv, InProgram
  <2>7. CASE pc' = "wait" /\ UNCHANGED <<kind, place>>
    <3>1. <<next, Target>>' = aim
      BY <2>7 DEF Target, PageOf, place
    <3>2. Damaged' \ {aim} \subseteq Damaged
      BY <2>2
    <3>3. Cardinality(Damaged' \ {aim}) \in Nat /\ Cardinality(Damaged' \ {aim}) < boots
      BY <1>1, <2>2, <3>2, SmallerSet
    <3> HIDE DEF aim
    <3>4. Cardinality(Damaged' \ {<<next, Target>>'}) < boots
      BY <3>1, <3>3
    <3> QED BY <2>1, <2>4, <2>7, <3>4 DEF DamageInv, InProgram
  <2> QED BY <2>5, <2>6, <2>7
<1>3. CASE ~ProgramPage
  <2>1. Damaged' \subseteq Damaged
    BY <1>3, DamagedStep
  <2>2. /\ IsFiniteSet(Damaged') /\ Cardinality(Damaged') \in Nat
        /\ Cardinality(Damaged') <= Cardinality(Damaged)
    BY <1>1, <2>1, SmallerSet
  <2>3. CASE \E m \in Modes, k \in Kinds : Begin(m, k)
    BY <1>1, <2>2, <2>3 DEF Begin, DamageInv, InProgram
  <2>4. ASSUME boots' = boots, pc' = "off" \/ status' = "stopped",
               pc' \notin {"identify", "scan", "wait", "verify"}
        PROVE  DamageInv'
    BY <1>1, <2>2, <2>4 DEF DamageInv, InProgram
  <2>5. ASSUME boots' = boots, pc # "off", status # "stopped", ~InProgram, ~InProgram',
               pc' \in {"identify", "scan"} => status' = "scanning"
        PROVE  DamageInv'
    <3>1. Cardinality(Damaged) < boots
      BY <2>5 DEF DamageInv
    <3> QED BY <1>1, <2>2, <2>5, <3>1 DEF DamageInv
  <2>6. CASE Identify \/ ScanSector \/ ScanDone
    <3>1. /\ boots' = boots /\ pc \in {"identify", "scan"} /\ status = "scanning"
          /\ pc' \in {"scan", "idle"} /\ (pc' = "scan" => status' = status)
      BY <2>6 DEF Identify, ScanSector, ScanDone, BeginFails, Fail, ReadBlank, history, DamageInv
    <3> QED BY <2>5, <3>1 DEF InProgram
  <2>7. CASE Append \/ OpenSector \/ CheckPage \/ WriteEnable
    <3>1. /\ boots' = boots /\ pc \in {"idle", "open", "check", "enable"}
          /\ pc' \in {"idle", "open", "check", "enable", "program"}
          /\ status' = "stopped" \/ status # "stopped"
      BY <2>7 DEF Append, OpenSector, CheckPage, WriteEnable, AppendFails, Fail, Goto, ReadBlank,
         history, Appending
    <3>2. CASE status' = "stopped"
      BY <2>4, <3>1, <3>2
    <3>3. CASE status # "stopped"
      BY <2>5, <3>1, <3>3 DEF InProgram
    <3> QED BY <3>1, <3>2, <3>3
  <2>8. ASSUME InProgram, InProgram', boots' = boots, UNCHANGED <<kind, place>> PROVE DamageInv'
    <3>1. <<next, Target>>' = aim
      BY <2>8 DEF Target, PageOf, place
    <3>2. Cardinality(Damaged \ {aim}) < boots
      BY <2>8 DEF DamageInv
    <3>3. IsFiniteSet(Damaged \ {aim}) /\ Damaged' \ {aim} \subseteq Damaged \ {aim}
      BY <1>1, <2>1, FS_RemoveElement
    <3> HIDE DEF aim
    <3>4. Cardinality(Damaged' \ {aim}) < boots
      BY <1>1, <3>2, <3>3, SmallerSet
    <3>5. Cardinality(Damaged' \ {<<next, Target>>'}) < boots
      BY <3>1, <3>4
    <3> QED BY <1>1, <2>2, <2>8, <3>5 DEF DamageInv, InProgram
  <2>9. CASE PollStatus
    <3>1. /\ boots' = boots /\ pc = "wait"
          /\ \/ status' = "stopped" /\ pc' = "idle"
             \/ pc' = "verify" /\ UNCHANGED <<kind, place>>
      BY <2>9 DEF PollStatus, AppendFails, Fail, Goto, identity, history
    <3> QED BY <2>4, <2>8, <3>1 DEF InProgram
  <2>10. CASE VerifyPage
    <3>1. /\ boots' = boots /\ pc = "verify" /\ pc' \in {"idle", "check"}
          /\ status' = "stopped" \/ flash[next][Target] = Image
      BY <2>10 DEF VerifyPage, AppendFails, Fail, HeaderDone, ChunkDone, RecordDone, Goto, history
    <3>2. CASE status' = "stopped"
      BY <2>4, <3>1, <3>2
    <3>3. CASE flash[next][Target] = Image
      <4>1. Image # Torn
        BY PageTypes, HeaderFields, DataFields DEF Image
      <4>2. ~Busy
        BY <3>1 DEF BlankInv, ChipIdle, Appending
      <4>3. aim \notin Damaged
        BY <3>3, <4>1, <4>2 DEF Damaged
      <4>4. Damaged \ {aim} = Damaged
        BY <4>3
      <4>5. Cardinality(Damaged) < boots
        BY <3>1, <4>4 DEF DamageInv, InProgram
      <4> QED BY <1>1, <2>2, <3>1, <4>5 DEF DamageInv, InProgram
    <3> QED BY <3>1, <3>2, <3>3
  <2>11. CASE ChipFinishes \/ UNCHANGED vars
    <3>1. boots' = boots /\ pc' = pc /\ status' = status /\ UNCHANGED <<kind, place>>
      BY <2>11 DEF ChipFinishes, vars, identity, history
    <3>2. CASE InProgram
      BY <2>8, <3>1, <3>2 DEF InProgram
    <3>3. CASE ~InProgram /\ pc # "off" /\ status # "stopped"
      BY <2>5, <3>1, <3>3 DEF InProgram, DamageInv
    <3>4. CASE ~InProgram /\ (pc = "off" \/ status = "stopped")
      <4>1. pc \notin {"identify", "scan", "wait", "verify"}
        BY <3>4 DEF InProgram, DamageInv
      <4> QED BY <2>4, <3>1, <3>4, <4>1
    <3> QED BY <3>2, <3>3, <3>4
  <2>12. CASE PowerLoss \/ ProcessorReset
    BY <2>4, <2>12 DEF PowerLoss, ProcessorReset, ForgetRam, history
  <2> QED BY <1>3, <2>3, <2>6, <2>7, <2>9, <2>10, <2>11, <2>12 DEF Next
<1> QED BY <1>2, <1>3

\* A failure ends the session (storage.c:14), so there are never more torn pages than boots.
THEOREM DamageBounded == Spec => []OneTornPagePerBoot
<1>1. Init => DamageInv
  <2> SUFFICES ASSUME Init PROVE DamageInv
    OBVIOUS
  <2>1. \A x \in Sector \X Page : flash[x[1]][x[2]] = Blank
    BY DEF Init
  <2>2. Damaged = {}
    BY <2>1, PageTypes DEF Init, Damaged, Busy
  <2> QED BY <2>2, FS_EmptySet DEF Init, RamInit, DamageInv, InProgram
<1>2. TypeInv /\ DamageInv => OneTornPagePerBoot
  <2> SUFFICES ASSUME TypeInv, DamageInv PROVE OneTornPagePerBoot
    OBVIOUS
  <2>1. {x \in Sector \X Page : flash[x[1]][x[2]] = Torn} \subseteq Damaged
    BY DEF Damaged
  <2>2. boots \in Nat
    BY BoundAssumption DEF TypeInv, TypeOK, CountTypeOK
  <2> QED BY <2>1, <2>2, SmallerSet DEF DamageInv, OneTornPagePerBoot
<1> QED BY InitType, NextType, InitBlank, NextBlank, NextDamage, <1>1, <1>2, PTL DEF Spec
==============================================================================
