-------------------------- MODULE FlashSlotProofs --------------------------
(***************************************************************************)
(* Proofs about the application slots, for any number of fonts, images and *)
(* blocks and with power going at any step.                                *)
(***************************************************************************)
EXTENDS FlashSlot, TLAPS

(* Only while the program is up does anything live in RAM.                 *)
Quiet ==
  phase # "up" =>
    /\ job.at = "idle" /\ reader.at = "idle" /\ font = NoFont
    /\ ~slotBeingUpdated /\ ~slotBeingWritten

(* The running image is whole: nothing writes the slot it runs from.       *)
RunningIsWhole == Whole(running) /\ phase # "dead"

NoHeader == \A f \in Fonts : slot[Inactive][Head] # Header(f)
PayloadIsWanted == \A b \in 1..Payload : slot[Inactive][b] = FontBlock(wanted)

(* Between the erase of the header and its rewrite there is none, and it   *)
(* is written over a payload that was verified.                            *)
HeaderLast ==
  /\ HeaderVouches
  /\ job.at \in {"eraseBlock", "writeBlock", "verify", "writeHeader", "write"} => NoHeader
  /\ job.at = "erase" /\ job.block # Head => NoHeader
  /\ job.at = "writeHeader" => PayloadIsWanted

(* Each writer holds its flag while it writes.                             *)
CopySteps ==
  {"drainReads", "eraseHead", "eraseBlock", "writeBlock", "verify", "writeHeader"}
UpdateSteps ==
  {"drainUpdate", "erase", "write", "check", "switchErase", "switchWrite"}
FlagsHeld ==
  /\ job.at \in CopySteps <=> slotBeingWritten
  /\ job.at \in CopySteps => ~slotBeingUpdated /\ ~font.flash
  /\ job.at \in UpdateSteps => slotBeingUpdated

(* A font that reads the copy was loaded from a valid one, and it is still *)
(* there unless an update has raised its flag; a read under way is of it.  *)
ReadsOwnCopy ==
  /\ phase = "up" => font.of = wanted
  /\ font.flash => slotBeingUpdated \/ slot[Inactive][Head] = Header(wanted)
  /\ reader.at # "idle" => font.flash
  /\ reader.at = "inFlash" =>
       job.at \notin Touching /\ slot[Inactive][Head] = Header(wanted)
  /\ reader.at = "got" => reader.bytes = FontBlock(wanted)

(* What an update from the card writes was validated, and grows block by   *)
(* block; the entries are touched once the slot holds all of an image.     *)
ImageGrows ==
  /\ job.at \in {"invalidate"} \cup UpdateSteps /\ job.from = "card" => job.image \in Images
  /\ job.at \in {"erase", "write"} /\ job.from = "card" =>
       \A b \in Blocks : b < job.block => slot[Inactive][b] \in {FirmwareBlock(job.image), Bad}
  /\ job.at \in {"switchErase", "switchWrite"} => MadeOfImage(Inactive)

(* Until it waits for the restart into a new image, the program runs from  *)
(* the slot the entries select, or was started because that one was        *)
(* refused: what it writes is never the selected slot.                     *)
SelectedKept ==
  /\ SelectedIsAnImage
  /\ phase # "off" /\ job.at # "restart" => rejected \/ Selected(otadata) = running

Inv ==
  /\ TypeOK /\ Quiet /\ RunningIsWhole /\ HeaderLast /\ FlagsHeld /\ ReadsOwnCopy
  /\ ImageGrows /\ SelectedKept

USE DEF flashVars, bootVars, flagVars, readVars, setVars, countVars, Slots, Blocks, Head

-----------------------------------------------------------------------------
(* The entries' type, and what is read from them.                          *)
EntryTypes == [{0, 1} -> [seq : Nat, state : States]]

(* Of two entries with sequence numbers one is the highest.                *)
LEMMA SomeActive ==
  ASSUME NEW e \in EntryTypes, Usable(e) # {}
  PROVE  \E i \in {0, 1} : IsActive(e, i)
<1>1. CASE 0 \in Usable(e) /\ (1 \in Usable(e) => e[1].seq <= e[0].seq)
  BY <1>1 DEF IsActive, EntryTypes, Usable
<1>2. CASE 1 \in Usable(e) /\ (0 \in Usable(e) => e[0].seq <= e[1].seq)
  BY <1>2 DEF IsActive, EntryTypes, Usable
<1>. QED
  BY <1>1, <1>2 DEF EntryTypes, Usable

LEMMA ActiveEntry ==
  ASSUME NEW e \in EntryTypes
  PROVE  activeIdx(e) \in {-1, 0, 1} /\ activeSeq(e) \in Nat /\ Selected(e) \in Slots
<1>1. ASSUME Usable(e) # {} PROVE \E i \in {0, 1} : IsActive(e, i)
  BY <1>1, SomeActive
<1>2. activeIdx(e) \in {-1, 0, 1}
  BY <1>1 DEF activeIdx
<1>3. activeSeq(e) \in Nat
  BY <1>2 DEF activeSeq, EntryTypes
<1>4. Selected(e) \in Slots
  BY <1>2 DEF Selected, SlotOf, EntryTypes
<1>. QED
  BY <1>2, <1>3, <1>4

(* The entries the bootloader leaves are entries.                          *)
LEMMA BootEntries == ASSUME TypeOK PROVE GivenUp \in EntryTypes
  BY DEF TypeOK, GivenUp, EntryTypes, Entry, States

(* The slot that is not running is the other one.                          *)
LEMMA OtherSlot == ASSUME TypeOK PROVE Inactive \in Slots /\ Inactive # running
  BY DEF TypeOK, Inactive

(* Every action keeps the types.                                           *)
LEMMA TypeStep == ASSUME TypeOK, [Next]_vars PROVE TypeOK'
<1>. USE FlashSlotAssumption DEF FlashSlotAssumption
<1>1. CASE Boot
  <2>1. otadata' \in [{0, 1} -> [seq : Nat, state : States]]
    BY <1>1 DEF TypeOK, Boot, States, Entry, Blank, OnTrial, GivenUp
  <2>. QED
    <3>1. Selected(GivenUp) \in Slots
      BY BootEntries, ActiveEntry
    <3>2. running' \in Slots /\ phase' \in {"off", "early", "up", "dead"}
      BY <1>1, <3>1 DEF TypeOK, Boot
    <3>. QED
      BY <1>1, <2>1, <3>2 DEF TypeOK, Boot
<1>2. CASE Start
  <2>1. otadata' \in [{0, 1} -> [seq : Nat, state : States]]
    BY <1>2 DEF TypeOK, Start, States, Entry, Blank
  <2>2. font' \in [of : Fonts \cup {"none"}, flash : BOOLEAN]
    BY <1>2 DEF TypeOK, Start, NoFont, Loaded, isValidFor
  <2>3. job' \in JobTypes
    BY <1>2 DEF TypeOK, Start, JobTypes, Idle, Files
  <2>. QED
    BY <1>2, <2>1, <2>2, <2>3 DEF TypeOK, Start
<1>3. CASE BeginRead
  <2>1. reader' \in ReaderTypes /\ readsInFlight' = (IF reader'.at = "idle" THEN 0 ELSE 1)
    BY <1>3 DEF TypeOK, BeginRead, OthersSameForReader, ReaderTypes, LockFree,
       IdleReader
  <2>. QED
    BY <1>3, <2>1 DEF TypeOK, BeginRead, OthersSameForReader
<1>4. CASE CheckFlags
  <2>1. reader' \in ReaderTypes /\ readsInFlight' = (IF reader'.at = "idle" THEN 0 ELSE 1)
    BY <1>4 DEF TypeOK, CheckFlags, OthersSameForReader, ReaderTypes,
       LockFree, IdleReader
  <2>. QED
    BY <1>4, <2>1 DEF TypeOK, CheckFlags, OthersSameForReader
<1>5. CASE FetchBlock
  <2>1. reader' \in ReaderTypes /\ readsInFlight' = (IF reader'.at = "idle" THEN 0 ELSE 1)
    <3>1. reader.block \in 1..Payload
      BY <1>5 DEF TypeOK, FetchBlock, ReaderTypes
    <3>2. slot[Inactive][reader.block] \in Contents
      BY <3>1, OtherSlot DEF TypeOK
    <3>. QED
      BY <1>5, <3>1, <3>2 DEF TypeOK, FetchBlock, ReaderTypes
  <2>. QED
    BY <1>5, <2>1 DEF TypeOK, FetchBlock, OthersSameForReader
<1>6. CASE LeaveRead
  <2>1. reader' \in ReaderTypes /\ readsInFlight' = (IF reader'.at = "idle" THEN 0 ELSE 1)
    BY <1>6 DEF TypeOK, LeaveRead, OthersSameForReader, ReaderTypes, LockFree,
       IdleReader
  <2>2. font' \in [of : Fonts \cup {"none"}, flash : BOOLEAN]
    BY <1>6 DEF TypeOK, LeaveRead, OthersSameForReader, NoFont
  <2>. QED
    BY <1>6, <2>1, <2>2 DEF TypeOK, LeaveRead, OthersSameForReader
<1>7. CASE Apply
  <2>1. job' \in JobTypes
    BY <1>7 DEF TypeOK, Apply, JobTypes, Idle, Files
  <2>. QED
    BY <1>7, <2>1 DEF TypeOK, Apply
<1>8. CASE Reload
  <2>1. font' \in [of : Fonts \cup {"none"}, flash : BOOLEAN]
    BY <1>8 DEF TypeOK, Reload, NoFont, Loaded, isValidFor
  <2>2. job' \in JobTypes
    BY <1>8 DEF TypeOK, Reload, JobTypes, Idle, Files
  <2>. QED
    BY <1>8, <2>1, <2>2 DEF TypeOK, Reload
<1>9. CASE Preload
  <2>1. job' \in JobTypes
    BY <1>9 DEF TypeOK, Preload, CopyEnds, JobTypes, Idle, Files
  <2>. QED
    BY <1>9, <2>1 DEF TypeOK, Preload, CopyEnds
<1>10. CASE DrainReads
  <2>1. job' \in JobTypes
    BY <1>10 DEF TypeOK, DrainReads, StillCopying, JobTypes, Idle, Files
  <2>. QED
    BY <1>10, <2>1 DEF TypeOK, DrainReads, StillCopying
<1>11. CASE EraseHead
  <2>1. slot' \in [Slots -> [Blocks -> Contents]]
    BY <1>11 DEF TypeOK, EraseHead, StillCopying, Contents
  <2>2. job' \in JobTypes
    BY <1>11 DEF TypeOK, EraseHead, StillCopying, JobTypes, Idle, Files
  <2>. QED
    BY <1>11, <2>1, <2>2 DEF TypeOK, EraseHead, StillCopying
<1>12. CASE EraseBlock
  <2>1. slot' \in [Slots -> [Blocks -> Contents]]
    BY <1>12 DEF TypeOK, EraseBlock, StillCopying, Contents
  <2>2. job' \in JobTypes
    BY <1>12 DEF TypeOK, EraseBlock, StillCopying, JobTypes, Idle, Files
  <2>. QED
    BY <1>12, <2>1, <2>2 DEF TypeOK, EraseBlock, StillCopying
<1>13. CASE WriteBlock
  <2>1. slot' \in [Slots -> [Blocks -> Contents]]
    <3>1. PICK w \in Written(FontBlock(wanted)) :
                slot' = [slot EXCEPT ![Inactive][job.block] = w]
      BY <1>13 DEF WriteBlock
    <3>2. w \in Contents
      BY <1>13, <3>1 DEF TypeOK, WriteBlock, Written, Contents
    <3>. QED
      BY <3>1, <3>2 DEF TypeOK
  <2>2. job' \in JobTypes
    BY <1>13 DEF TypeOK, WriteBlock, StillCopying, JobTypes, Idle, Files
  <2>. QED
    BY <1>13, <2>1, <2>2 DEF TypeOK, WriteBlock, StillCopying
<1>14. CASE Verify
  <2>1. job' \in JobTypes
    BY <1>14 DEF TypeOK, Verify, CopyEnds, StillCopying, JobTypes, Idle, Files
  <2>. QED
    BY <1>14, <2>1 DEF TypeOK, Verify, CopyEnds, StillCopying
<1>15. CASE WriteHeader
  <2>1. slot' \in [Slots -> [Blocks -> Contents]]
    <3>1. PICK w \in Written(Header(wanted)) : slot' = [slot EXCEPT ![Inactive][Head] = w]
      BY <1>15 DEF WriteHeader
    <3>2. w \in Contents
      BY <1>15, <3>1 DEF TypeOK, WriteHeader, Written, Contents
    <3>. QED
      BY <3>1, <3>2 DEF TypeOK
  <2>2. job' \in JobTypes
    BY <1>15 DEF TypeOK, WriteHeader, CopyEnds, JobTypes, Idle, Files
  <2>. QED
    BY <1>15, <2>1, <2>2 DEF TypeOK, WriteHeader, CopyEnds
<1>16. CASE CopyFails
  <2>1. job' \in JobTypes
    BY <1>16 DEF TypeOK, CopyFails, CopyEnds, JobTypes, Idle, Files
  <2>. QED
    BY <1>16, <2>1 DEF TypeOK, CopyFails, CopyEnds
<1>17. CASE RaiseUpdateFlag
  <2>1. job' \in JobTypes
    BY <1>17 DEF TypeOK, RaiseUpdateFlag, UpdateGoesOn, JobTypes, Idle, Files
  <2>. QED
    BY <1>17, <2>1 DEF TypeOK, RaiseUpdateFlag, UpdateGoesOn
<1>18. CASE DrainUpdate
  <2>1. job' \in JobTypes
    BY <1>18 DEF TypeOK, DrainUpdate, UpdateGoesOn, JobTypes, Idle, Files
  <2>. QED
    BY <1>18, <2>1 DEF TypeOK, DrainUpdate, UpdateGoesOn
<1>19. CASE EraseForImage
  <2>1. slot' \in [Slots -> [Blocks -> Contents]]
    BY <1>19 DEF TypeOK, EraseForImage, UpdateGoesOn, Contents
  <2>2. job' \in JobTypes
    BY <1>19 DEF TypeOK, EraseForImage, UpdateGoesOn, JobTypes, Idle, Files
  <2>. QED
    BY <1>19, <2>1, <2>2 DEF TypeOK, EraseForImage, UpdateGoesOn
<1>20. CASE WriteImage
  <2>1. slot' \in [Slots -> [Blocks -> Contents]]
    <3>1. PICK w \in Written(FirmwareBlock(job.image)) :
                slot' = [slot EXCEPT ![Inactive][job.block] = w]
      BY <1>20 DEF WriteImage
    <3>2. w \in Contents
      BY <1>20, <3>1 DEF TypeOK, WriteImage, JobTypes, Files, Written, Contents
    <3>. QED
      BY <3>1, <3>2 DEF TypeOK
  <2>2. job' \in JobTypes
    BY <1>20 DEF TypeOK, WriteImage, UpdateGoesOn, JobTypes, Idle, Files
  <2>. QED
    BY <1>20, <2>1, <2>2 DEF TypeOK, WriteImage, UpdateGoesOn
<1>21. CASE CheckImage
  <2>1. job' \in JobTypes
    BY <1>21 DEF TypeOK, CheckImage, UpdateGoesOn, JobTypes, Idle, Files
  <2>. QED
    BY <1>21, <2>1 DEF TypeOK, CheckImage, UpdateGoesOn
<1>22. CASE SwitchErase
  <2>1. otadata' \in [{0, 1} -> [seq : Nat, state : States]]
    BY <1>22 DEF TypeOK, SwitchErase, UpdateGoesOn, States, Entry, Blank
  <2>2. job' \in JobTypes
    BY <1>22 DEF TypeOK, SwitchErase, UpdateGoesOn, JobTypes, Idle, Files
  <2>. QED
    BY <1>22, <2>1, <2>2 DEF TypeOK, SwitchErase, UpdateGoesOn
<1>23. CASE SwitchWrite
  <2>1. otadata' \in [{0, 1} -> [seq : Nat, state : States]]
    <3>1. newSeq \in Nat
      BY ActiveEntry DEF TypeOK, newSeq, EntryTypes
    <3>2. PICK e \in {Entry(newSeq, "new"), Blank} :
                otadata' = [otadata EXCEPT ![otherEntry] = e]
      BY <1>23 DEF SwitchWrite
    <3>3. e \in [seq : Nat, state : States]
      BY <3>1 DEF Entry, Blank, States
    <3>. QED
      BY <3>2, <3>3 DEF TypeOK
  <2>2. job' \in JobTypes
    BY <1>23 DEF TypeOK, SwitchWrite, JobTypes, Idle, Files
  <2>. QED
    BY <1>23, <2>1, <2>2 DEF TypeOK, SwitchWrite
<1>24. CASE UpdateFails
  <2>1. job' \in JobTypes
    BY <1>24 DEF TypeOK, UpdateFails, JobTypes, Idle, Files
  <2>. QED
    BY <1>24, <2>1 DEF TypeOK, UpdateFails
<1>25. CASE Restart
  <2>1. reader' \in ReaderTypes /\ readsInFlight' = (IF reader'.at = "idle" THEN 0 ELSE 1)
    BY <1>25 DEF TypeOK, Restart, Down, ReaderTypes, LockFree, IdleReader
  <2>2. font' \in [of : Fonts \cup {"none"}, flash : BOOLEAN]
    BY <1>25 DEF TypeOK, Restart, Down, NoFont
  <2>3. job' \in JobTypes
    BY <1>25 DEF TypeOK, Restart, Down, JobTypes, Idle, Files
  <2>. QED
    BY <1>25, <2>1, <2>2, <2>3 DEF TypeOK, Restart, Down
<1>26. ASSUME NEW f \in Fonts, SelectFont(f) PROVE TypeOK'
  <2>1. font' \in [of : Fonts \cup {"none"}, flash : BOOLEAN]
    BY <1>26 DEF TypeOK, SelectFont, NoFont, Loaded, isValidFor
  <2>2. job' \in JobTypes
    BY <1>26 DEF TypeOK, SelectFont, JobTypes, Idle, Files
  <2>. QED
    BY <1>26, <2>1, <2>2 DEF TypeOK, SelectFont
<1>27. CASE SwitchCopy
  <2>1. job' \in JobTypes
    BY <1>27 DEF TypeOK, SwitchCopy, JobTypes, Idle, Files
  <2>. QED
    BY <1>27, <2>1 DEF TypeOK, SwitchCopy
<1>28. CASE PickFirmware
  <2>1. job' \in JobTypes
    BY <1>28 DEF TypeOK, PickFirmware, JobTypes, Idle, Files
  <2>. QED
    BY <1>28, <2>1 DEF TypeOK, PickFirmware
<1>29. CASE ConfirmUpdate
  <2>1. job' \in JobTypes
    BY <1>29 DEF TypeOK, ConfirmUpdate, JobTypes, Idle, Files
  <2>. QED
    BY <1>29, <2>1 DEF TypeOK, ConfirmUpdate
<1>30. CASE InstallUpdate
  <2>1. job' \in JobTypes
    BY <1>30 DEF TypeOK, InstallUpdate, JobTypes, Idle, Files
  <2>. QED
    BY <1>30, <2>1 DEF TypeOK, InstallUpdate
<1>31. CASE PowerCut
  <2>1. reader' \in ReaderTypes /\ readsInFlight' = (IF reader'.at = "idle" THEN 0 ELSE 1)
    BY <1>31 DEF TypeOK, PowerCut, Down, ReaderTypes, LockFree, IdleReader
  <2>2. font' \in [of : Fonts \cup {"none"}, flash : BOOLEAN]
    BY <1>31 DEF TypeOK, PowerCut, Down, NoFont
  <2>3. job' \in JobTypes
    BY <1>31 DEF TypeOK, PowerCut, Down, JobTypes, Idle, Files
  <2>. QED
    BY <1>31, <2>1, <2>2, <2>3 DEF TypeOK, PowerCut, Down
<1>32. CASE UNCHANGED vars
  BY <1>32 DEF vars, TypeOK
<1>. QED
  BY <1>1, <1>2, <1>3, <1>4, <1>5, <1>6, <1>7, <1>8, <1>9, <1>10, <1>11,
     <1>12, <1>13, <1>14, <1>15, <1>16, <1>17, <1>18, <1>19, <1>20, <1>21,
     <1>22, <1>23, <1>24, <1>25, <1>26, <1>27, <1>28, <1>29, <1>30, <1>31,
     <1>32 DEF Next, ReaderNext, MainNext, CopyNext, UpdateNext, UserNext

(* The initial state is typed.                                             *)
LEMMA InitTyped == Init => TypeOK
<1>. SUFFICES ASSUME Init PROVE TypeOK
  OBVIOUS
<1>. USE FlashSlotAssumption DEF FlashSlotAssumption
<1>1. slot \in [Slots -> [Blocks -> Contents]]
  BY DEF Init, Contents
<1>2. otadata \in [{0, 1} -> [seq : Nat, state : States]]
  BY DEF Init, Entry, Blank, States
<1>3. /\ reader \in ReaderTypes /\ readsInFlight = (IF reader.at = "idle" THEN 0 ELSE 1)
      /\ job \in JobTypes /\ font \in [of : Fonts \cup {"none"}, flash : BOOLEAN]
  BY DEF Init, ReaderTypes, IdleReader, JobTypes, Idle, NoFont
<1>. QED
  BY <1>1, <1>2, <1>3 DEF Init, TypeOK

(* Every way up starts idle, every way down ends idle.                     *)
LEMMA QuietStep ==
  ASSUME TypeOK, Quiet, [Next]_vars
  PROVE  Quiet'
<1>. USE FlashSlotAssumption DEF FlashSlotAssumption, Quiet
<1>1. CASE Boot
  BY <1>1 DEF Boot, TypeOK
<1>2. CASE Start
  BY <1>2 DEF Start, TypeOK
<1>3. CASE BeginRead
  BY <1>3 DEF BeginRead, OthersSameForReader, TypeOK
<1>4. CASE CheckFlags
  BY <1>4 DEF CheckFlags, OthersSameForReader, TypeOK
<1>5. CASE FetchBlock
  BY <1>5 DEF FetchBlock, OthersSameForReader, TypeOK
<1>6. CASE LeaveRead
  BY <1>6 DEF LeaveRead, OthersSameForReader, TypeOK
<1>7. CASE Apply
  BY <1>7 DEF Apply, TypeOK
<1>8. CASE Reload
  BY <1>8 DEF Reload, TypeOK
<1>9. CASE Preload
  BY <1>9 DEF Preload, CopyEnds, TypeOK
<1>10. CASE DrainReads
  BY <1>10 DEF DrainReads, StillCopying, TypeOK
<1>11. CASE EraseHead
  BY <1>11 DEF EraseHead, StillCopying, TypeOK
<1>12. CASE EraseBlock
  BY <1>12 DEF EraseBlock, StillCopying, TypeOK
<1>13. CASE WriteBlock
  BY <1>13 DEF WriteBlock, StillCopying, TypeOK
<1>14. CASE Verify
  BY <1>14 DEF Verify, CopyEnds, StillCopying, TypeOK
<1>15. CASE WriteHeader
  BY <1>15 DEF WriteHeader, CopyEnds, TypeOK
<1>16. CASE CopyFails
  BY <1>16 DEF CopyFails, CopyEnds, TypeOK
<1>17. CASE RaiseUpdateFlag
  BY <1>17 DEF RaiseUpdateFlag, UpdateGoesOn, TypeOK
<1>18. CASE DrainUpdate
  BY <1>18 DEF DrainUpdate, UpdateGoesOn, TypeOK
<1>19. CASE EraseForImage
  BY <1>19 DEF EraseForImage, UpdateGoesOn, TypeOK
<1>20. CASE WriteImage
  BY <1>20 DEF WriteImage, UpdateGoesOn, TypeOK
<1>21. CASE CheckImage
  BY <1>21 DEF CheckImage, UpdateGoesOn, TypeOK
<1>22. CASE SwitchErase
  BY <1>22 DEF SwitchErase, UpdateGoesOn, TypeOK
<1>23. CASE SwitchWrite
  BY <1>23 DEF SwitchWrite, TypeOK
<1>24. CASE UpdateFails
  BY <1>24 DEF UpdateFails, TypeOK
<1>25. CASE Restart
  BY <1>25 DEF Restart, Down, TypeOK, Idle, IdleReader
<1>26. ASSUME NEW f \in Fonts, SelectFont(f) PROVE Quiet'
  BY <1>26 DEF SelectFont, TypeOK
<1>27. CASE SwitchCopy
  BY <1>27 DEF SwitchCopy, TypeOK
<1>28. CASE PickFirmware
  BY <1>28 DEF PickFirmware, TypeOK
<1>29. CASE ConfirmUpdate
  BY <1>29 DEF ConfirmUpdate, TypeOK
<1>30. CASE InstallUpdate
  BY <1>30 DEF InstallUpdate, TypeOK
<1>31. CASE PowerCut
  BY <1>31 DEF PowerCut, Down, TypeOK, Idle, IdleReader
<1>32. CASE UNCHANGED vars
  BY <1>32 DEF vars, TypeOK
<1>. QED
  BY <1>1, <1>2, <1>3, <1>4, <1>5, <1>6, <1>7, <1>8, <1>9, <1>10, <1>11,
     <1>12, <1>13, <1>14, <1>15, <1>16, <1>17, <1>18, <1>19, <1>20, <1>21,
     <1>22, <1>23, <1>24, <1>25, <1>26, <1>27, <1>28, <1>29, <1>30, <1>31,
     <1>32 DEF Next, ReaderNext, MainNext, CopyNext, UpdateNext, UserNext

(* Nothing writes the slot that runs.                                      *)
LEMMA WholeStep ==
  ASSUME TypeOK, Quiet, RunningIsWhole, [Next]_vars
  PROVE  RunningIsWhole'
<1>. USE FlashSlotAssumption DEF FlashSlotAssumption, RunningIsWhole
<1>1. CASE Boot
  <2>. DEFINE first == Selected(GivenUp)
  <2>1. first \in {0, 1} /\ running \in {0, 1}
    BY BootEntries, ActiveEntry DEF TypeOK
  <2>2. Whole(first) \/ Whole(1 - first)
    BY <2>1
  <2>. HIDE DEF first
  <2>3. CASE Whole(first)
    BY <1>1, <2>3 DEF Boot, Whole, first
  <2>4. CASE ~Whole(first)
    <3>1. phase' = "early" /\ running' = 1 - first /\ slot' = slot
      BY <1>1, <2>2, <2>4 DEF Boot, first
    <3>. QED
      BY <2>2, <2>4, <3>1 DEF Whole
  <2>. QED
    BY <2>3, <2>4
<1>2. CASE Start
  BY <1>2, OtherSlot DEF Start, TypeOK, Whole
<1>3. CASE BeginRead
  BY <1>3, OtherSlot DEF BeginRead, OthersSameForReader, TypeOK, Whole
<1>4. CASE CheckFlags
  BY <1>4, OtherSlot DEF CheckFlags, OthersSameForReader, TypeOK, Whole
<1>5. CASE FetchBlock
  BY <1>5, OtherSlot DEF FetchBlock, OthersSameForReader, TypeOK, Whole
<1>6. CASE LeaveRead
  BY <1>6, OtherSlot DEF LeaveRead, OthersSameForReader, TypeOK, Whole
<1>7. CASE Apply
  BY <1>7, OtherSlot DEF Apply, TypeOK, Whole
<1>8. CASE Reload
  BY <1>8, OtherSlot DEF Reload, TypeOK, Whole
<1>9. CASE Preload
  BY <1>9, OtherSlot DEF Preload, CopyEnds, TypeOK, Whole
<1>10. CASE DrainReads
  BY <1>10, OtherSlot DEF DrainReads, StillCopying, TypeOK, Whole
<1>11. CASE EraseHead
  BY <1>11, OtherSlot DEF EraseHead, StillCopying, TypeOK, Whole
<1>12. CASE EraseBlock
  BY <1>12, OtherSlot DEF EraseBlock, StillCopying, TypeOK, Whole
<1>13. CASE WriteBlock
  <2>1. PICK w : slot' = [slot EXCEPT ![Inactive][job.block] = w]
    BY <1>13 DEF WriteBlock
  <2>. QED
    BY <1>13, <2>1, OtherSlot DEF WriteBlock, StillCopying, TypeOK, Whole
<1>14. CASE Verify
  BY <1>14, OtherSlot DEF Verify, CopyEnds, StillCopying, TypeOK, Whole
<1>15. CASE WriteHeader
  BY <1>15, OtherSlot DEF WriteHeader, CopyEnds, TypeOK, Whole
<1>16. CASE CopyFails
  BY <1>16, OtherSlot DEF CopyFails, CopyEnds, TypeOK, Whole
<1>17. CASE RaiseUpdateFlag
  BY <1>17, OtherSlot DEF RaiseUpdateFlag, UpdateGoesOn, TypeOK, Whole
<1>18. CASE DrainUpdate
  BY <1>18, OtherSlot DEF DrainUpdate, UpdateGoesOn, TypeOK, Whole
<1>19. CASE EraseForImage
  BY <1>19, OtherSlot DEF EraseForImage, UpdateGoesOn, TypeOK, Whole
<1>20. CASE WriteImage
  <2>1. PICK w : slot' = [slot EXCEPT ![Inactive][job.block] = w]
    BY <1>20 DEF WriteImage
  <2>. QED
    BY <1>20, <2>1, OtherSlot DEF WriteImage, UpdateGoesOn, TypeOK, Whole
<1>21. CASE CheckImage
  BY <1>21, OtherSlot DEF CheckImage, UpdateGoesOn, TypeOK, Whole
<1>22. CASE SwitchErase
  BY <1>22, OtherSlot DEF SwitchErase, UpdateGoesOn, TypeOK, Whole
<1>23. CASE SwitchWrite
  BY <1>23, OtherSlot DEF SwitchWrite, TypeOK, Whole
<1>24. CASE UpdateFails
  BY <1>24, OtherSlot DEF UpdateFails, TypeOK, Whole
<1>25. CASE Restart
  BY <1>25, OtherSlot DEF Restart, Down, TypeOK, Whole
<1>26. ASSUME NEW f \in Fonts, SelectFont(f) PROVE RunningIsWhole'
  BY <1>26, OtherSlot DEF SelectFont, TypeOK, Whole
<1>27. CASE SwitchCopy
  BY <1>27, OtherSlot DEF SwitchCopy, TypeOK, Whole
<1>28. CASE PickFirmware
  BY <1>28, OtherSlot DEF PickFirmware, TypeOK, Whole
<1>29. CASE ConfirmUpdate
  BY <1>29, OtherSlot DEF ConfirmUpdate, TypeOK, Whole
<1>30. CASE InstallUpdate
  BY <1>30, OtherSlot DEF InstallUpdate, TypeOK, Whole
<1>31. CASE PowerCut
  BY <1>31, OtherSlot DEF PowerCut, Down, TypeOK, Whole
<1>32. CASE UNCHANGED vars
  BY <1>32, OtherSlot DEF vars, TypeOK, Whole
<1>. QED
  BY <1>1, <1>2, <1>3, <1>4, <1>5, <1>6, <1>7, <1>8, <1>9, <1>10, <1>11,
     <1>12, <1>13, <1>14, <1>15, <1>16, <1>17, <1>18, <1>19, <1>20, <1>21,
     <1>22, <1>23, <1>24, <1>25, <1>26, <1>27, <1>28, <1>29, <1>30, <1>31,
     <1>32 DEF Next, ReaderNext, MainNext, CopyNext, UpdateNext, UserNext

(* The header and the payload stay what they are while the flash does.     *)
LEMMA SameFlash ==
  ASSUME UNCHANGED slot
  PROVE  /\ HeaderVouches => HeaderVouches'
         /\ UNCHANGED running /\ NoHeader => NoHeader'
         /\ UNCHANGED <<running, wanted>> /\ PayloadIsWanted => PayloadIsWanted'
  BY DEF HeaderVouches, NoHeader, PayloadIsWanted, Inactive

(* A block written where there is no header, or in place of one, leaves    *)
(* the headers that remain true.                                           *)
LEMMA WriteElsewhere ==
  ASSUME TypeOK, HeaderVouches, UNCHANGED running,
         NEW k \in Blocks, NEW v, slot' = [slot EXCEPT ![Inactive][k] = v],
         k = Head => \A f \in Fonts : v # Header(f),
         k # Head => NoHeader
  PROVE  HeaderVouches' /\ NoHeader'
<1>. USE FlashSlotAssumption DEF FlashSlotAssumption
<1>1. slot'[Inactive][Head] = (IF k = Head THEN v ELSE slot[Inactive][Head])
  BY OtherSlot DEF TypeOK
<1>2. NoHeader'
  BY <1>1 DEF NoHeader, Inactive
<1>3. ASSUME NEW s \in Slots, NEW f \in Fonts, slot'[s][Head] = Header(f)
      PROVE  \A b \in 1..Payload : slot'[s][b] = FontBlock(f)
  <2>1. s # Inactive
    BY <1>2, <1>3 DEF NoHeader, Inactive
  <2>2. slot'[s] = slot[s]
    BY <2>1, OtherSlot DEF TypeOK
  <2>. QED
    BY <1>3, <2>2 DEF HeaderVouches
<1>. QED
  BY <1>2, <1>3 DEF HeaderVouches

(* The header of the font whose payload is there may be written.           *)
LEMMA WriteTrueHeader ==
  ASSUME TypeOK, HeaderVouches, PayloadIsWanted,
         slot' = [slot EXCEPT ![Inactive][Head] = Header(wanted)]
  PROVE  HeaderVouches'
<1>. USE FlashSlotAssumption DEF FlashSlotAssumption
<1>. SUFFICES ASSUME NEW s \in Slots, NEW f \in Fonts, slot'[s][Head] = Header(f),
                     NEW b \in 1..Payload
              PROVE  slot'[s][b] = FontBlock(f)
  BY DEF HeaderVouches
<1>1. b \in Blocks /\ b # Head
  OBVIOUS
<1>2. CASE s = Inactive
  <2>1. slot'[s][Head] = Header(wanted) /\ slot'[s][b] = slot[s][b]
    BY <1>1, <1>2, OtherSlot DEF TypeOK
  <2>. QED
    BY <1>2, <2>1 DEF PayloadIsWanted, Header, FontBlock
<1>3. CASE s # Inactive
  <2>1. slot'[s] = slot[s]
    BY <1>3, OtherSlot DEF TypeOK
  <2>. QED
    BY <2>1 DEF HeaderVouches
<1>. QED
  BY <1>2, <1>3

(* The header is erased first and written last.                            *)
LEMMA HeaderStep ==
  ASSUME TypeOK, Quiet, HeaderLast, [Next]_vars
  PROVE  HeaderLast'
<1>. USE FlashSlotAssumption DEF FlashSlotAssumption, HeaderLast
<1>1. CASE Boot
  BY <1>1, SameFlash DEF Boot, Quiet
<1>2. CASE Start
  BY <1>2, SameFlash DEF Start, Quiet
<1>3. CASE BeginRead
  BY <1>3, SameFlash DEF BeginRead, OthersSameForReader
<1>4. CASE CheckFlags
  BY <1>4, SameFlash DEF CheckFlags, OthersSameForReader
<1>5. CASE FetchBlock
  BY <1>5, SameFlash DEF FetchBlock, OthersSameForReader
<1>6. CASE LeaveRead
  BY <1>6, SameFlash DEF LeaveRead, OthersSameForReader
<1>7. CASE Apply
  BY <1>7, SameFlash DEF Apply, Idle
<1>8. CASE Reload
  BY <1>8, SameFlash DEF Reload, Idle
<1>9. CASE Preload
  <2>1. UNCHANGED slot /\ UNCHANGED <<running, wanted>>
    BY <1>9 DEF Preload, CopyEnds
  <2>2. job'.at \in {"idle", "reload", "drainReads"}
    BY <1>9 DEF Preload, CopyEnds, Idle, TypeOK, JobTypes
  <2>. QED
    BY <2>1, <2>2, SameFlash
<1>10. CASE DrainReads
  BY <1>10, SameFlash DEF DrainReads, StillCopying
<1>11. CASE EraseHead
  <2>1. slot' = [slot EXCEPT ![Inactive][Head] = Erased]
    BY <1>11 DEF EraseHead
  <2>2. Head \in Blocks
    BY <1>11 DEF EraseHead, TypeOK, JobTypes
  <2>3. \A f \in Fonts : Erased # Header(f)
    BY DEF Erased, Header
  <2>4. Head # Head => NoHeader
    BY <1>11 DEF EraseHead
  <2>5. HeaderVouches' /\ NoHeader'
    BY <1>11, <2>1, <2>2, <2>3, <2>4, WriteElsewhere DEF EraseHead, StillCopying
  <2>. QED
    BY <1>11, <2>5 DEF EraseHead, StillCopying
<1>12. CASE EraseBlock
  <2>1. slot' = [slot EXCEPT ![Inactive][job.block] = Erased]
    BY <1>12 DEF EraseBlock
  <2>2. job.block \in Blocks
    BY <1>12 DEF EraseBlock, TypeOK, JobTypes
  <2>3. \A f \in Fonts : Erased # Header(f)
    BY DEF Erased, Header
  <2>4. job.block # Head => NoHeader
    BY <1>12 DEF EraseBlock
  <2>5. HeaderVouches' /\ NoHeader'
    BY <1>12, <2>1, <2>2, <2>3, <2>4, WriteElsewhere DEF EraseBlock, StillCopying
  <2>. QED
    BY <1>12, <2>5 DEF EraseBlock, StillCopying
<1>13. CASE WriteBlock
  <2>1. PICK w \in Written(FontBlock(wanted)) :
                slot' = [slot EXCEPT ![Inactive][job.block] = w]
    BY <1>13 DEF WriteBlock
  <2>2. job.block \in Blocks
    BY <1>13 DEF WriteBlock, TypeOK, JobTypes
  <2>3. \A f \in Fonts : w # Header(f)
    BY <2>1 DEF Written, FontBlock, Bad, Header
  <2>4. job.block # Head => NoHeader
    BY <1>13 DEF WriteBlock
  <2>5. HeaderVouches' /\ NoHeader'
    BY <1>13, <2>1, <2>2, <2>3, <2>4, WriteElsewhere DEF WriteBlock, StillCopying
  <2>. QED
    BY <1>13, <2>5 DEF WriteBlock, StillCopying
<1>14. CASE Verify
  <2>1. CASE \A b \in 1..Payload : slot[Inactive][b] = FontBlock(wanted)
    <3>1. PayloadIsWanted /\ job'.at = "writeHeader"
           /\ UNCHANGED <<slot, running, wanted>>
      <4>1. StillCopying("writeHeader", Head) /\ UNCHANGED slot
        BY <1>14, <2>1 DEF Verify
      <4>. QED
        BY <2>1, <4>1 DEF StillCopying, PayloadIsWanted
    <3>. QED
      BY <1>14, <3>1, SameFlash DEF Verify
  <2>2. CASE ~\A b \in 1..Payload : slot[Inactive][b] = FontBlock(wanted)
    BY <1>14, <2>2, SameFlash DEF Verify, CopyEnds, Idle
  <2>. QED
    BY <2>1, <2>2
<1>15. CASE WriteHeader
  <2>1. PICK w \in Written(Header(wanted)) : slot' = [slot EXCEPT ![Inactive][Head] = w]
    BY <1>15 DEF WriteHeader
  <2>2. HeaderVouches'
    <3>1. CASE w = Header(wanted)
      BY <1>15, <2>1, <3>1, WriteTrueHeader DEF WriteHeader
    <3>2. CASE w = Bad
      <4>1. Head \in Blocks /\ \A f \in Fonts : w # Header(f)
        BY <3>2 DEF Bad, Header
      <4>. QED
        BY <1>15, <2>1, <4>1, WriteElsewhere DEF WriteHeader, CopyEnds
    <3>. QED
      BY <3>1, <3>2 DEF Written
  <2>. QED
    BY <1>15, <2>2 DEF WriteHeader, CopyEnds, Idle
<1>16. CASE CopyFails
  BY <1>16, SameFlash DEF CopyFails, CopyEnds, Idle
<1>17. CASE RaiseUpdateFlag
  BY <1>17, SameFlash DEF RaiseUpdateFlag, UpdateGoesOn
<1>18. CASE DrainUpdate
  BY <1>18, SameFlash DEF DrainUpdate, UpdateGoesOn
<1>19. CASE EraseForImage
  <2>1. slot' = [slot EXCEPT ![Inactive][job.block] = Erased]
    BY <1>19 DEF EraseForImage
  <2>2. job.block \in Blocks
    BY <1>19 DEF EraseForImage, TypeOK, JobTypes
  <2>3. \A f \in Fonts : Erased # Header(f)
    BY DEF Erased, Header
  <2>4. job.block # Head => NoHeader
    BY <1>19 DEF EraseForImage
  <2>5. HeaderVouches' /\ NoHeader'
    BY <1>19, <2>1, <2>2, <2>3, <2>4, WriteElsewhere DEF EraseForImage, UpdateGoesOn
  <2>. QED
    BY <1>19, <2>5 DEF EraseForImage, UpdateGoesOn
<1>20. CASE WriteImage
  <2>1. PICK w \in Written(FirmwareBlock(job.image)) :
                slot' = [slot EXCEPT ![Inactive][job.block] = w]
    BY <1>20 DEF WriteImage
  <2>2. job.block \in Blocks
    BY <1>20 DEF WriteImage, TypeOK, JobTypes
  <2>3. \A f \in Fonts : w # Header(f)
    BY <2>1 DEF Written, FirmwareBlock, Bad, Header
  <2>4. job.block # Head => NoHeader
    BY <1>20 DEF WriteImage
  <2>5. HeaderVouches' /\ NoHeader'
    BY <1>20, <2>1, <2>2, <2>3, <2>4, WriteElsewhere DEF WriteImage, UpdateGoesOn
  <2>. QED
    BY <1>20, <2>5 DEF WriteImage, UpdateGoesOn
<1>21. CASE CheckImage
  BY <1>21, SameFlash DEF CheckImage, UpdateGoesOn
<1>22. CASE SwitchErase
  BY <1>22, SameFlash DEF SwitchErase, UpdateGoesOn
<1>23. CASE SwitchWrite
  BY <1>23, SameFlash DEF SwitchWrite
<1>24. CASE UpdateFails
  BY <1>24, SameFlash DEF UpdateFails, Idle
<1>25. CASE Restart
  BY <1>25, SameFlash DEF Restart, Down, Quiet, Idle
<1>26. ASSUME NEW f \in Fonts, SelectFont(f) PROVE HeaderLast'
  BY <1>26, SameFlash DEF SelectFont
<1>27. CASE SwitchCopy
  BY <1>27, SameFlash DEF SwitchCopy
<1>28. CASE PickFirmware
  BY <1>28, SameFlash DEF PickFirmware
<1>29. CASE ConfirmUpdate
  BY <1>29, SameFlash DEF ConfirmUpdate, Idle
<1>30. CASE InstallUpdate
  BY <1>30, SameFlash DEF InstallUpdate
<1>31. CASE PowerCut
  BY <1>31, SameFlash DEF PowerCut, Down, Quiet, Idle
<1>32. CASE UNCHANGED vars
  BY <1>32, SameFlash DEF vars
<1>. QED
  BY <1>1, <1>2, <1>3, <1>4, <1>5, <1>6, <1>7, <1>8, <1>9, <1>10, <1>11,
     <1>12, <1>13, <1>14, <1>15, <1>16, <1>17, <1>18, <1>19, <1>20, <1>21,
     <1>22, <1>23, <1>24, <1>25, <1>26, <1>27, <1>28, <1>29, <1>30, <1>31,
     <1>32 DEF Next, ReaderNext, MainNext, CopyNext, UpdateNext, UserNext

(* A flag is raised before its writer starts and lowered when it returns.   *)
LEMMA FlagsStep ==
  ASSUME TypeOK, Quiet, ReadsOwnCopy, FlagsHeld, [Next]_vars
  PROVE  FlagsHeld'
<1>. USE FlashSlotAssumption DEF FlashSlotAssumption, FlagsHeld
<1>1. CASE Boot
  BY <1>1 DEF Boot, CopySteps, UpdateSteps, Quiet
<1>2. CASE Start
  BY <1>2 DEF Start, CopySteps, UpdateSteps, Quiet
<1>3. CASE BeginRead
  BY <1>3 DEF BeginRead, OthersSameForReader, CopySteps, UpdateSteps
<1>4. CASE CheckFlags
  BY <1>4 DEF CheckFlags, OthersSameForReader, CopySteps, UpdateSteps
<1>5. CASE FetchBlock
  BY <1>5 DEF FetchBlock, OthersSameForReader, CopySteps, UpdateSteps
<1>6. CASE LeaveRead
  BY <1>6 DEF LeaveRead, OthersSameForReader, CopySteps, UpdateSteps, TypeOK, ReadsOwnCopy
<1>7. CASE Apply
  BY <1>7 DEF Apply, CopySteps, UpdateSteps, Idle
<1>8. CASE Reload
  BY <1>8 DEF Reload, CopySteps, UpdateSteps, Idle
<1>9. CASE Preload
  BY <1>9 DEF Preload, CopyEnds, isValidFor, CopySteps, UpdateSteps, Idle,
     TypeOK, JobTypes, ReadsOwnCopy
<1>10. CASE DrainReads
  BY <1>10 DEF DrainReads, StillCopying, CopySteps, UpdateSteps
<1>11. CASE EraseHead
  BY <1>11 DEF EraseHead, StillCopying, CopySteps, UpdateSteps
<1>12. CASE EraseBlock
  BY <1>12 DEF EraseBlock, StillCopying, CopySteps, UpdateSteps
<1>13. CASE WriteBlock
  <2>1. job'.at \in {"eraseBlock", "verify"} /\ job.at = "writeBlock"
    BY <1>13 DEF WriteBlock, StillCopying
  <2>2. UNCHANGED <<flagVars, font>>
    BY <1>13 DEF WriteBlock, StillCopying
  <2>. QED
    BY <2>1, <2>2 DEF CopySteps, UpdateSteps
<1>14. CASE Verify
  <2>1. CASE StillCopying("writeHeader", Head)
    BY <1>14, <2>1 DEF Verify, StillCopying, CopySteps, UpdateSteps
  <2>2. CASE CopyEnds(FALSE)
    BY <1>14, <2>2 DEF Verify, CopyEnds, Idle, CopySteps, UpdateSteps
  <2>. QED
    BY <1>14, <2>1, <2>2 DEF Verify
<1>15. CASE WriteHeader
  BY <1>15 DEF WriteHeader, CopyEnds, CopySteps, UpdateSteps
<1>16. CASE CopyFails
  BY <1>16 DEF CopyFails, CopyEnds, CopySteps, UpdateSteps, Idle
<1>17. CASE RaiseUpdateFlag
  BY <1>17 DEF RaiseUpdateFlag, UpdateGoesOn, CopySteps, UpdateSteps
<1>18. CASE DrainUpdate
  BY <1>18 DEF DrainUpdate, UpdateGoesOn, CopySteps, UpdateSteps
<1>19. CASE EraseForImage
  BY <1>19 DEF EraseForImage, UpdateGoesOn, CopySteps, UpdateSteps
<1>20. CASE WriteImage
  BY <1>20 DEF WriteImage, UpdateGoesOn, CopySteps, UpdateSteps
<1>21. CASE CheckImage
  BY <1>21 DEF CheckImage, UpdateGoesOn, CopySteps, UpdateSteps
<1>22. CASE SwitchErase
  BY <1>22 DEF SwitchErase, UpdateGoesOn, CopySteps, UpdateSteps
<1>23. CASE SwitchWrite
  BY <1>23 DEF SwitchWrite, CopySteps, UpdateSteps
<1>24. CASE UpdateFails
  BY <1>24 DEF UpdateFails, CopySteps, UpdateSteps, Idle
<1>25. CASE Restart
  BY <1>25 DEF Restart, Down, CopySteps, UpdateSteps, Idle
<1>26. ASSUME NEW f \in Fonts, SelectFont(f) PROVE FlagsHeld'
  BY <1>26 DEF SelectFont, CopySteps, UpdateSteps
<1>27. CASE SwitchCopy
  BY <1>27 DEF SwitchCopy, CopySteps, UpdateSteps
<1>28. CASE PickFirmware
  BY <1>28 DEF PickFirmware, CopySteps, UpdateSteps
<1>29. CASE ConfirmUpdate
  BY <1>29 DEF ConfirmUpdate, CopySteps, UpdateSteps, Idle
<1>30. CASE InstallUpdate
  BY <1>30 DEF InstallUpdate, CopySteps, UpdateSteps
<1>31. CASE PowerCut
  BY <1>31 DEF PowerCut, Down, CopySteps, UpdateSteps, Idle
<1>32. CASE UNCHANGED vars
  BY <1>32 DEF vars, CopySteps, UpdateSteps
<1>. QED
  BY <1>1, <1>2, <1>3, <1>4, <1>5, <1>6, <1>7, <1>8, <1>9, <1>10, <1>11,
     <1>12, <1>13, <1>14, <1>15, <1>16, <1>17, <1>18, <1>19, <1>20, <1>21,
     <1>22, <1>23, <1>24, <1>25, <1>26, <1>27, <1>28, <1>29, <1>30, <1>31,
     <1>32 DEF Next, ReaderNext, MainNext, CopyNext, UpdateNext, UserNext

(* A font reads only the copy it was loaded from.                           *)
LEMMA ReadsStep ==
  ASSUME TypeOK, Quiet, HeaderLast, FlagsHeld, ReadsOwnCopy, [Next]_vars
  PROVE  ReadsOwnCopy'
<1>. USE FlashSlotAssumption DEF FlashSlotAssumption, ReadsOwnCopy
<1>1. CASE Boot
  BY <1>1 DEF Boot, TypeOK, FlagsHeld, CopySteps, UpdateSteps, Touching,
     Inactive, Quiet, NoFont
<1>2. CASE Start
  BY <1>2 DEF Start, Loaded, TypeOK, FlagsHeld, CopySteps, UpdateSteps,
     Touching, Inactive, Quiet, isValidFor, NoFont
<1>3. CASE BeginRead
  BY <1>3 DEF BeginRead, OthersSameForReader, TypeOK, FlagsHeld, CopySteps,
     UpdateSteps, Touching, Inactive, LockFree
<1>4. CASE CheckFlags
  BY <1>4 DEF CheckFlags, OthersSameForReader, TypeOK, FlagsHeld, CopySteps,
     UpdateSteps, Touching, Inactive, FlagsClear, ReaderTypes
<1>5. CASE FetchBlock
  <2>1. reader.block \in 1..Payload /\ reader.at = "inFlash"
    BY <1>5 DEF FetchBlock, TypeOK, ReaderTypes
  <2>2. slot[Inactive][reader.block] = FontBlock(wanted)
    BY <2>1, OtherSlot DEF TypeOK, HeaderLast, HeaderVouches
  <2>3. UNCHANGED <<flashVars, bootVars, flagVars, setVars, job, font>>
    BY <1>5 DEF FetchBlock, OthersSameForReader
  <2>4. CASE reader' = [at |-> "got", bytes |-> slot[Inactive][reader.block]]
    BY <2>1, <2>2, <2>3, <2>4 DEF Inactive
  <2>5. CASE reader' = [reader EXCEPT !.at = "missed"]
    BY <2>1, <2>3, <2>5 DEF TypeOK, ReaderTypes, Inactive
  <2>. QED
    BY <1>5, <2>4, <2>5 DEF FetchBlock
<1>6. CASE LeaveRead
  BY <1>6 DEF LeaveRead, OthersSameForReader, TypeOK, FlagsHeld, CopySteps,
     UpdateSteps, Touching, Inactive, IdleReader
<1>7. CASE Apply
  BY <1>7 DEF Apply, TypeOK, FlagsHeld, CopySteps, UpdateSteps, Touching,
     Inactive, Idle
<1>8. CASE Reload
  BY <1>8 DEF Reload, Loaded, TypeOK, FlagsHeld, CopySteps, UpdateSteps,
     Touching, Inactive, isValidFor, LockFree, Idle
<1>9. CASE Preload
  <2>1. UNCHANGED <<flashVars, bootVars, readVars, font, wanted, slotBeingUpdated>>
    BY <1>9 DEF Preload, CopyEnds
  <2>2. job'.at \in {"idle", "reload", "drainReads"}
    BY <1>9 DEF Preload, CopyEnds, Idle, TypeOK, JobTypes
  <2>. QED
    BY <2>1, <2>2 DEF Touching, Inactive
<1>10. CASE DrainReads
  BY <1>10 DEF DrainReads, StillCopying, TypeOK, FlagsHeld, CopySteps,
     UpdateSteps, Touching, Inactive
<1>11. CASE EraseHead
  BY <1>11 DEF EraseHead, StillCopying, TypeOK, FlagsHeld, CopySteps,
     UpdateSteps, Touching, Inactive
<1>12. CASE EraseBlock
  BY <1>12 DEF EraseBlock, StillCopying, TypeOK, FlagsHeld, CopySteps,
     UpdateSteps, Touching, Inactive
<1>13. CASE WriteBlock
  BY <1>13 DEF WriteBlock, StillCopying, TypeOK, FlagsHeld, CopySteps,
     UpdateSteps, Touching, Inactive
<1>14. CASE Verify
  BY <1>14 DEF Verify, CopyEnds, StillCopying, TypeOK, FlagsHeld, CopySteps,
     UpdateSteps, Touching, Inactive, Idle
<1>15. CASE WriteHeader
  BY <1>15 DEF WriteHeader, CopyEnds, TypeOK, FlagsHeld, CopySteps,
     UpdateSteps, Touching, Inactive, Idle
<1>16. CASE CopyFails
  BY <1>16 DEF CopyFails, CopyEnds, TypeOK, FlagsHeld, CopySteps, UpdateSteps,
     Touching, Inactive, Idle
<1>17. CASE RaiseUpdateFlag
  BY <1>17 DEF RaiseUpdateFlag, UpdateGoesOn, TypeOK, FlagsHeld, CopySteps,
     UpdateSteps, Touching, Inactive
<1>18. CASE DrainUpdate
  BY <1>18 DEF DrainUpdate, UpdateGoesOn, TypeOK, FlagsHeld, CopySteps,
     UpdateSteps, Touching, Inactive
<1>19. CASE EraseForImage
  BY <1>19 DEF EraseForImage, UpdateGoesOn, TypeOK, FlagsHeld, CopySteps,
     UpdateSteps, Touching, Inactive
<1>20. CASE WriteImage
  BY <1>20 DEF WriteImage, UpdateGoesOn, TypeOK, FlagsHeld, CopySteps,
     UpdateSteps, Touching, Inactive
<1>21. CASE CheckImage
  BY <1>21 DEF CheckImage, UpdateGoesOn, TypeOK, FlagsHeld, CopySteps,
     UpdateSteps, Touching, Inactive
<1>22. CASE SwitchErase
  BY <1>22 DEF SwitchErase, UpdateGoesOn, TypeOK, FlagsHeld, CopySteps,
     UpdateSteps, Touching, Inactive
<1>23. CASE SwitchWrite
  BY <1>23 DEF SwitchWrite, TypeOK, FlagsHeld, CopySteps, UpdateSteps,
     Touching, Inactive
<1>24. CASE UpdateFails
  BY <1>24 DEF UpdateFails, TypeOK, FlagsHeld, CopySteps, UpdateSteps,
     Touching, Inactive, Idle
<1>25. CASE Restart
  BY <1>25 DEF Restart, Down, TypeOK, FlagsHeld, CopySteps, UpdateSteps,
     Touching, Inactive, Idle, NoFont, IdleReader
<1>26. ASSUME NEW f \in Fonts, SelectFont(f) PROVE ReadsOwnCopy'
  BY <1>26 DEF SelectFont, Loaded, TypeOK, FlagsHeld, CopySteps, UpdateSteps,
     Touching, Inactive, isValidFor, LockFree
<1>27. CASE SwitchCopy
  BY <1>27 DEF SwitchCopy, TypeOK, FlagsHeld, CopySteps, UpdateSteps,
     Touching, Inactive
<1>28. CASE PickFirmware
  BY <1>28 DEF PickFirmware, TypeOK, FlagsHeld, CopySteps, UpdateSteps,
     Touching, Inactive
<1>29. CASE ConfirmUpdate
  BY <1>29 DEF ConfirmUpdate, TypeOK, FlagsHeld, CopySteps, UpdateSteps,
     Touching, Inactive, Idle
<1>30. CASE InstallUpdate
  BY <1>30 DEF InstallUpdate, TypeOK, FlagsHeld, CopySteps, UpdateSteps,
     Touching, Inactive
<1>31. CASE PowerCut
  BY <1>31 DEF PowerCut, Down, TypeOK, FlagsHeld, CopySteps, UpdateSteps,
     Touching, Inactive, Idle, NoFont, IdleReader
<1>32. CASE UNCHANGED vars
  BY <1>32 DEF vars, TypeOK, FlagsHeld, CopySteps, UpdateSteps, Touching,
     Inactive
<1>. QED
  BY <1>1, <1>2, <1>3, <1>4, <1>5, <1>6, <1>7, <1>8, <1>9, <1>10, <1>11,
     <1>12, <1>13, <1>14, <1>15, <1>16, <1>17, <1>18, <1>19, <1>20, <1>21,
     <1>22, <1>23, <1>24, <1>25, <1>26, <1>27, <1>28, <1>29, <1>30, <1>31,
     <1>32 DEF Next, ReaderNext, MainNext, CopyNext, UpdateNext, UserNext

-----------------------------------------------------------------------------
(* The entries.                                                            *)

(* Entries with the same usable ones and the same numbers in these select  *)
(* the same slot.                                                          *)
LEMMA SameSelection ==
  ASSUME NEW e \in EntryTypes, NEW f \in EntryTypes, Usable(f) = Usable(e),
         \A i \in Usable(e) : f[i].seq = e[i].seq
  PROVE  Selected(f) = Selected(e)
<1>1. \A i \in {0, 1} : IsActive(f, i) <=> IsActive(e, i)
  BY DEF IsActive
<1>2. (CHOOSE i \in {0, 1} : IsActive(f, i)) = (CHOOSE i \in {0, 1} : IsActive(e, i))
  BY <1>1
<1>3. CASE Usable(e) = {}
  BY <1>3 DEF Selected, activeIdx
<1>4. CASE Usable(e) # {}
  <2>. DEFINE a == CHOOSE i \in {0, 1} : IsActive(e, i)
  <2>1. activeIdx(e) = a /\ activeIdx(f) = a
    BY <1>2, <1>4, Zenon DEF activeIdx
  <2>2. \E i \in {0, 1} : IsActive(e, i)
    BY <1>4, SomeActive
  <2>3. a \in {0, 1} /\ a \in Usable(e)
    BY <2>2 DEF IsActive
  <2>. HIDE DEF a
  <2>. QED
    BY <2>1, <2>3 DEF Selected, SlotOf
<1>. QED
  BY <1>3, <1>4

(* What the bootloader and the core write into the states of the entries   *)
(* does not change which slot they select.                                 *)
LEMMA TrialSelection == ASSUME TypeOK PROVE Selected(OnTrial(GivenUp)) = Selected(GivenUp)
<1>. DEFINE e == GivenUp
            f == OnTrial(e)
<1>1. e \in EntryTypes
  BY BootEntries
<1>. HIDE DEF e
<1>2. \A i \in {0, 1} : f[i].seq = e[i].seq /\ (f[i] = e[i] \/ (e[i].state = "new" /\ f[i].state = "pending"))
  BY <1>1 DEF OnTrial, Entry, EntryTypes
<1>3. f \in EntryTypes
  BY <1>1 DEF OnTrial, Entry, EntryTypes, States
<1>. HIDE DEF f
<1>4. Usable(f) = Usable(e)
  BY <1>2 DEF Usable, Blank
<1>5. Selected(f) = Selected(e)
  BY <1>1, <1>2, <1>3, <1>4, SameSelection DEF Usable
<1>. QED
  BY <1>5 DEF e, f

LEMMA StartSelection == ASSUME TypeOK, Start PROVE Selected(otadata') = Selected(otadata)
<1>1. otadata \in EntryTypes /\ otadata' \in EntryTypes
  BY DEF TypeOK, EntryTypes, Start, States, Entry, Blank
<1>2. \A i \in {0, 1} : /\ otadata'[i].seq = otadata[i].seq
                        /\ otadata'[i] = otadata[i]
                             \/ (otadata[i].state = "pending" /\ otadata'[i].state = "valid")
  BY DEF Start, Entry, TypeOK
<1>3. Usable(otadata') = Usable(otadata)
  BY <1>2 DEF Usable, Blank
<1>. QED
  BY <1>1, <1>2, <1>3, SameSelection DEF Usable

(* The active entry is one that is usable, when there is any.              *)
LEMMA ActiveIsUsable ==
  ASSUME NEW e \in EntryTypes
  PROVE  \/ activeIdx(e) = -1 /\ Usable(e) = {} /\ activeSeq(e) = 0 /\ Selected(e) = 0
         \/ /\ activeIdx(e) \in {0, 1} /\ IsActive(e, activeIdx(e))
            /\ activeSeq(e) = e[activeIdx(e)].seq /\ Selected(e) = SlotOf(e[activeIdx(e)])
<1>1. CASE Usable(e) = {}
  BY <1>1 DEF activeIdx, activeSeq, Selected
<1>2. CASE Usable(e) # {}
  <2>1. \E i \in {0, 1} : IsActive(e, i)
    BY <1>2, SomeActive
  <2>2. activeIdx(e) = CHOOSE i \in {0, 1} : IsActive(e, i)
    BY <1>2 DEF activeIdx
  <2>3. activeIdx(e) \in {0, 1} /\ IsActive(e, activeIdx(e))
    BY <2>1, <2>2
  <2>. QED
    BY <2>3 DEF activeSeq, Selected
<1>. QED
  BY <1>1, <1>2

(* A usable entry that is higher than the other usable one is the active   *)
(* one.                                                                    *)
LEMMA HighestIsActive ==
  ASSUME NEW e \in EntryTypes, NEW i \in Usable(e),
         \A j \in Usable(e) : j # i => e[j].seq < e[i].seq
  PROVE  Selected(e) = SlotOf(e[i])
<1>1. \A j \in {0, 1} : IsActive(e, j) => j = i
  BY DEF IsActive, Usable, EntryTypes
<1>. QED
  BY <1>1, ActiveIsUsable

(* The entry that is not active may be erased.                             *)
LEMMA OtherErased ==
  ASSUME TypeOK, otadata' = [otadata EXCEPT ![otherEntry] = Blank]
  PROVE  Selected(otadata') = Selected(otadata)
<1>1. otadata \in EntryTypes /\ otadata' \in EntryTypes /\ otherEntry \in {0, 1}
  BY DEF TypeOK, EntryTypes, Blank, States, otherEntry
<1>2. Usable(otadata') = Usable(otadata) \ {otherEntry}
  BY <1>1 DEF Usable, EntryTypes
<1>3. CASE Usable(otadata) = {}
  BY <1>1, <1>2, <1>3, ActiveIsUsable DEF IsActive
<1>4. CASE Usable(otadata) # {}
  <2>. DEFINE a == activeIdx(otadata)
  <2>1. a \in {0, 1} /\ a \in Usable(otadata) /\ Selected(otadata) = SlotOf(otadata[a])
    BY <1>1, <1>4, ActiveIsUsable DEF IsActive
  <2>2. a # otherEntry /\ \A j \in {0, 1} : j = a \/ j = otherEntry
    BY <2>1 DEF otherEntry
  <2>. HIDE DEF a
  <2>3. a \in Usable(otadata') /\ otadata'[a] = otadata[a]
    BY <1>1, <1>2, <2>1, <2>2 DEF EntryTypes
  <2>4. Usable(otadata') = {a}
    BY <1>2, <2>2, <2>3 DEF Usable
  <2>. QED
    BY <1>1, <2>1, <2>3, <2>4, HighestIsActive
<1>. QED
  BY <1>3, <1>4

(* The new entry is the highest and selects the slot that is not running.  *)
LEMMA OtherWritten ==
  ASSUME TypeOK, otadata' = [otadata EXCEPT ![otherEntry] = Entry(newSeq, "new")]
  PROVE  Selected(otadata') = Inactive
<1>1. otadata \in EntryTypes /\ otherEntry \in {0, 1} /\ activeSeq(otadata) \in Nat
  BY ActiveEntry DEF TypeOK, EntryTypes, otherEntry
<1>2. newSeq \in Nat /\ newSeq > activeSeq(otadata) /\ (newSeq - 1) % 2 = Inactive
  <2>1. Inactive \in {0, 1}
    BY DEF TypeOK, Inactive
  <2>2. CASE activeSeq(otadata) % 2 = Inactive
    BY <1>1, <2>1, <2>2 DEF newSeq
  <2>3. CASE activeSeq(otadata) % 2 # Inactive
    BY <1>1, <2>1, <2>3 DEF newSeq
  <2>. QED
    BY <2>2, <2>3
<1>3. /\ otadata' \in EntryTypes /\ otadata'[otherEntry].seq = newSeq
      /\ SlotOf(otadata'[otherEntry]) = Inactive
      /\ otherEntry \in Usable(otadata')
  BY <1>1, <1>2 DEF EntryTypes, Entry, States, Usable, Blank, SlotOf
<1>4. ASSUME NEW j \in Usable(otadata'), j # otherEntry
      PROVE  otadata'[j].seq < newSeq
  <2>1. j \in Usable(otadata) /\ otadata'[j] = otadata[j]
    BY <1>1, <1>4 DEF Usable, EntryTypes
  <2>2. otadata[j].seq <= activeSeq(otadata) /\ otadata[j].seq \in Nat
    BY <1>1, <2>1, ActiveIsUsable DEF IsActive, Usable, EntryTypes
  <2>. QED
    BY <1>1, <1>2, <2>1, <2>2
<1>. QED
  BY <1>3, <1>4, HighestIsActive

(* The steps that leave an update under way behind.                        *)
LEMMA UpdateJobSteps ==
  ASSUME TypeOK, Quiet, [Next]_vars
  PROVE  \/ ConfirmUpdate \/ InstallUpdate \/ RaiseUpdateFlag \/ DrainUpdate \/ EraseForImage
         \/ WriteImage \/ CheckImage \/ SwitchErase
         \/ UNCHANGED <<job, slot, running>>
         \/ job'.at \notin {"invalidate"} \cup UpdateSteps
<1>. USE DEF UpdateSteps
<1>1. CASE Boot \/ Start
  BY <1>1 DEF Boot, Start, Quiet
<1>2. CASE ReaderNext
  BY <1>2 DEF ReaderNext, BeginRead, CheckFlags, FetchBlock, LeaveRead, OthersSameForReader
<1>3. CASE Apply \/ Reload
  BY <1>3 DEF Apply, Reload, Idle
<1>4. CASE CopyNext
  <2>1. CASE Preload
    BY <2>1 DEF Preload, CopyEnds, Idle, TypeOK, JobTypes
  <2>2. CASE DrainReads \/ EraseHead \/ EraseBlock \/ WriteBlock
    BY <2>2 DEF DrainReads, EraseHead, EraseBlock, WriteBlock, StillCopying
  <2>3. CASE Verify \/ WriteHeader \/ CopyFails
    BY <2>3 DEF Verify, WriteHeader, CopyFails, StillCopying, CopyEnds, Idle
  <2>. QED
    BY <1>4, <2>1, <2>2, <2>3 DEF CopyNext
<1>5. CASE SwitchWrite \/ UpdateFails
  BY <1>5 DEF SwitchWrite, UpdateFails, Idle
<1>6. CASE Restart \/ PowerCut
  BY <1>6 DEF Restart, PowerCut, Down, Idle
<1>7. CASE (\E f \in Fonts : SelectFont(f)) \/ SwitchCopy \/ PickFirmware
  BY <1>7 DEF SelectFont, SwitchCopy, PickFirmware
<1>8. CASE UNCHANGED vars
  BY <1>8 DEF vars
<1>. QED
  BY <1>1, <1>2, <1>3, <1>4, <1>5, <1>6, <1>7, <1>8 DEF Next, MainNext, UpdateNext, UserNext

(* An update goes on with the file that was validated, and the slot holds  *)
(* what was written of it.                                                 *)
LEMMA ImageStep ==
  ASSUME TypeOK, Quiet, ImageGrows, [Next]_vars
  PROVE  ImageGrows'
<1>. USE FlashSlotAssumption DEF FlashSlotAssumption, UpdateSteps
<1>1. CASE ConfirmUpdate
  BY <1>1 DEF ConfirmUpdate, Validated, Idle, ImageGrows
<1>2. CASE InstallUpdate
  BY <1>2 DEF InstallUpdate, ImageGrows
<1>3. CASE RaiseUpdateFlag
  BY <1>3 DEF RaiseUpdateFlag, UpdateGoesOn, ImageGrows
<1>4. CASE DrainUpdate
  <2>1. \A b \in Blocks : ~ (b < Head)
    OBVIOUS
  <2>. QED
    BY <1>4, <2>1 DEF DrainUpdate, UpdateGoesOn, ImageGrows
<1>5. CASE EraseForImage
  <2>1. /\ slot' = [slot EXCEPT ![Inactive][job.block] = Erased] /\ Inactive' = Inactive
        /\ job.at = "erase" /\ job'.at \in {"erase", "write"} /\ job'.from = job.from
        /\ job'.image = job.image /\ (job.from = "card" => job'.block = job.block)
    BY <1>5 DEF EraseForImage, UpdateGoesOn, Inactive
  <2>2. job.block \in Blocks
    BY <2>1 DEF TypeOK, JobTypes
  <2>3. \A b \in Blocks : b < job.block => slot'[Inactive][b] = slot[Inactive][b]
    BY <2>1, <2>2, OtherSlot DEF TypeOK
  <2>. QED
    BY <2>1, <2>3 DEF ImageGrows
<1>6. CASE WriteImage
  <2>1. PICK w \in {FirmwareBlock(job.image), Bad} :
               slot' = [slot EXCEPT ![Inactive][job.block] = w]
    BY <1>6 DEF WriteImage, Written
  <2>2. /\ Inactive' = Inactive /\ job.at = "write" /\ job'.from = job.from /\ job'.image = job.image
        /\ job.block < Payload => job'.at \in {"erase", "write"} /\ job'.block = job.block + 1
        /\ ~ (job.block < Payload) => job'.at = IF job.from = "card" THEN "switchErase" ELSE "check"
    BY <1>6 DEF WriteImage, UpdateGoesOn, Inactive
  <2>3. job.block \in Blocks /\ job.from \in {"card", "server"}
    BY <2>2 DEF TypeOK, JobTypes
  <2>4. \A b \in Blocks : slot'[Inactive][b] = IF b = job.block THEN w ELSE slot[Inactive][b]
    BY <2>1, <2>3, OtherSlot DEF TypeOK
  <2>5. job.from = "card" => job.image \in Images /\
          \A b \in Blocks : b <= job.block => slot'[Inactive][b] \in {FirmwareBlock(job.image), Bad}
    <3>1. \A b \in Blocks : b <= job.block => b = job.block \/ b < job.block
      BY <2>3
    <3>. QED
      BY <2>2, <2>4, <3>1 DEF ImageGrows
  <2>6. CASE job.block < Payload
    <3>1. \A b \in Blocks : b < job.block + 1 => b <= job.block
      BY <2>3
    <3>. QED
      BY <2>2, <2>5, <2>6, <3>1 DEF ImageGrows
  <2>7. CASE ~ (job.block < Payload)
    <3>1. \A b \in Blocks : b <= job.block
      BY <2>3, <2>7
    <3>2. job.from = "card" => MadeOfImage(Inactive)'
      BY <2>2, <2>5, <3>1 DEF MadeOfImage
    <3>. QED
      BY <2>2, <2>3, <2>5, <2>7, <3>2 DEF ImageGrows
  <2>. QED
    BY <2>6, <2>7
<1>7. CASE CheckImage
  BY <1>7 DEF CheckImage, UpdateGoesOn, ImageGrows, Whole, MadeOfImage, Inactive
<1>8. CASE SwitchErase
  BY <1>8 DEF SwitchErase, UpdateGoesOn, ImageGrows, MadeOfImage, Inactive
<1>9. CASE UNCHANGED <<job, slot, running>>
  BY <1>9 DEF ImageGrows, MadeOfImage, Inactive
<1>10. CASE job'.at \notin {"invalidate"} \cup UpdateSteps
  BY <1>10 DEF ImageGrows
<1>. QED
  BY <1>1, <1>2, <1>3, <1>4, <1>5, <1>6, <1>7, <1>8, <1>9, <1>10, UpdateJobSteps

(* Only the slot that is not running is written, and the entries change at *)
(* a boot, at the start and in a switch.                                   *)
LEMMA EntrySteps ==
  ASSUME TypeOK, Quiet, [Next]_vars
  PROVE  \/ Boot \/ Start \/ SwitchErase \/ SwitchWrite
         \/ /\ UNCHANGED <<otadata, running, rejected>> /\ slot'[running] = slot[running]
            /\ (UNCHANGED slot) \/ (phase = "up" /\ job.at # "restart")
            /\ (phase' # "off" /\ job'.at # "restart") => (phase # "off" /\ job.at # "restart")
<1>1. CASE ReaderNext
  BY <1>1 DEF ReaderNext, BeginRead, CheckFlags, FetchBlock, LeaveRead, OthersSameForReader
<1>2. CASE Apply \/ Reload
  BY <1>2 DEF Apply, Reload, Idle, Quiet
<1>3. CASE Preload \/ DrainReads \/ Verify \/ CopyFails
  BY <1>3 DEF Preload, DrainReads, Verify, CopyFails, StillCopying, CopyEnds, Idle, Quiet
<1>4. CASE EraseHead \/ EraseBlock \/ WriteBlock \/ WriteHeader \/ EraseForImage \/ WriteImage
  <2>1. PICK b, w : slot' = [slot EXCEPT ![Inactive][b] = w]
    BY <1>4 DEF EraseHead, EraseBlock, WriteBlock, WriteHeader, EraseForImage, WriteImage
  <2>2. slot'[running] = slot[running]
    BY <2>1, OtherSlot DEF TypeOK
  <2>3. /\ UNCHANGED <<otadata, running, rejected, phase>>
        /\ job.at \in {"eraseHead", "eraseBlock", "writeBlock", "writeHeader", "erase", "write"}
    BY <1>4 DEF EraseHead, EraseBlock, WriteBlock, WriteHeader, EraseForImage, WriteImage,
                StillCopying, CopyEnds, UpdateGoesOn
  <2>. QED
    BY <2>2, <2>3 DEF Quiet
<1>5. CASE RaiseUpdateFlag \/ DrainUpdate \/ CheckImage \/ UpdateFails
  BY <1>5 DEF RaiseUpdateFlag, DrainUpdate, CheckImage, UpdateFails, UpdateGoesOn, Idle, Quiet
<1>6. CASE Restart \/ PowerCut
  BY <1>6 DEF Restart, PowerCut, Down
<1>7. CASE UserNext
  BY <1>7 DEF UserNext, SelectFont, SwitchCopy, PickFirmware, ConfirmUpdate, InstallUpdate
<1>8. CASE UNCHANGED vars
  BY <1>8 DEF vars
<1>. QED
  BY <1>1, <1>2, <1>3, <1>4, <1>5, <1>6, <1>7, <1>8 DEF Next, MainNext, CopyNext, UpdateNext

(* Only the slot that is not selected is written, and the entries select   *)
(* it only when it holds an image.                                         *)
LEMMA SelectedStep ==
  ASSUME TypeOK, Quiet, RunningIsWhole, ImageGrows, SelectedKept, [Next]_vars
  PROVE  SelectedKept'
<1>1. CASE Boot
  <2>1. Selected(otadata') = Selected(GivenUp)
    BY <1>1, TrialSelection DEF Boot
  <2>2. rejected' \/ (Whole(Selected(GivenUp)) /\ running' = Selected(GivenUp) /\ UNCHANGED slot)
    BY <1>1 DEF Boot
  <2>. QED
    BY <2>1, <2>2 DEF SelectedKept, SelectedIsAnImage, Whole, MadeOfImage
<1>2. CASE Start
  <2>1. UNCHANGED <<slot, running, rejected>> /\ phase = "early" /\ job.at = "idle"
    BY <1>2 DEF Start, Quiet
  <2>2. Selected(otadata') = Selected(otadata)
    BY <1>2, StartSelection
  <2>. QED
    BY <2>1, <2>2 DEF SelectedKept, SelectedIsAnImage, MadeOfImage
<1>3. CASE SwitchErase
  <2>1. Selected(otadata') = Selected(otadata)
    BY <1>3, OtherErased DEF SwitchErase
  <2>2. UNCHANGED <<slot, running, rejected, phase>> /\ job.at # "restart"
    BY <1>3 DEF SwitchErase, UpdateGoesOn
  <2>. QED
    BY <2>1, <2>2 DEF SelectedKept, SelectedIsAnImage, MadeOfImage
<1>4. CASE SwitchWrite
  <2>1. MadeOfImage(Inactive) /\ UNCHANGED <<slot, running, rejected>> /\ job'.at = "restart"
    BY <1>4 DEF SwitchWrite, ImageGrows
  <2>2. Selected(otadata') \in {Inactive, Selected(otadata)}
    BY <1>4, OtherErased, OtherWritten DEF SwitchWrite
  <2>. QED
    BY <2>1, <2>2 DEF SelectedKept, SelectedIsAnImage, MadeOfImage
<1>5. CASE /\ UNCHANGED <<otadata, running, rejected>> /\ slot'[running] = slot[running]
           /\ (UNCHANGED slot) \/ (phase = "up" /\ job.at # "restart")
           /\ (phase' # "off" /\ job'.at # "restart") => (phase # "off" /\ job.at # "restart")
  <2>1. CASE UNCHANGED slot
    BY <1>5, <2>1 DEF SelectedKept, SelectedIsAnImage, MadeOfImage
  <2>2. CASE phase = "up" /\ job.at # "restart"
    BY <1>5, <2>2 DEF SelectedKept, SelectedIsAnImage, MadeOfImage
  <2>. QED
    BY <1>5, <2>1, <2>2
<1>. QED
  BY <1>1, <1>2, <1>3, <1>4, <1>5, EntrySteps

-----------------------------------------------------------------------------
(* The invariant holds at the start and every step keeps it.               *)
LEMMA InvInit == Init => Inv
<1>. SUFFICES ASSUME Init PROVE Inv
  OBVIOUS
<1>1. Quiet
  BY DEF Init, Quiet, Idle, IdleReader
<1>2. Whole(0) /\ running = 0
  BY FlashSlotAssumption DEF Init, Whole, FlashSlotAssumption
<1>3. HeaderVouches
  BY FlashSlotAssumption
  DEF Init, HeaderVouches, FirmwareBlock, Erased, Header, FlashSlotAssumption
<1>4. HeaderLast /\ FlagsHeld /\ ReadsOwnCopy
  BY <1>3 DEF Init, HeaderLast, FlagsHeld, ReadsOwnCopy, CopySteps, UpdateSteps,
              Idle, IdleReader, NoFont
<1>5. ImageGrows
  BY DEF Init, ImageGrows, UpdateSteps, Idle
<1>6. Selected(otadata) = 0
  <2>1. otadata \in EntryTypes /\ Usable(otadata) = {0} /\ otadata[0].seq = 1
    BY DEF Init, EntryTypes, Usable, Entry, Blank, States
  <2>. QED
    BY <2>1, HighestIsActive DEF SlotOf
<1>7. SelectedKept
  BY <1>2, <1>6 DEF SelectedKept, SelectedIsAnImage, MadeOfImage, Whole
<1>. QED
  BY <1>1, <1>2, <1>4, <1>5, <1>7, InitTyped DEF Inv, RunningIsWhole, Init

(* Each part of the invariant is kept by every step.                       *)
LEMMA InvStep == Inv /\ [Next]_vars => Inv'
  BY TypeStep, QuietStep, WholeStep, HeaderStep, FlagsStep, ReadsStep, ImageStep, SelectedStep
  DEF Inv

(* The invariant holds throughout, from which the theorems follow.         *)
THEOREM Invariance == Spec => []Inv
  BY InvInit, InvStep, PTL DEF Spec

-----------------------------------------------------------------------------
(* What follows from the invariant.                                        *)
(* Every variable holds a value of its type.                               *)
THEOREM TypeCorrect == Spec => []TypeOK
<1>1. Inv => TypeOK
  BY DEF Inv
<1>. QED
  BY <1>1, Invariance, PTL

(* Wherever the power goes, a valid header stands over a whole copy of the *)
(* font it names (preload() erases it first and writes it last).           *)
THEOREM HeadersVouch == Spec => []HeaderVouches
<1>1. Inv => HeaderVouches
  BY DEF Inv, HeaderLast
<1>. QED
  BY <1>1, Invariance, PTL

(* The render task never reads the slot while it is erased or rewritten    *)
(* (readAt(), invalidateUntilReboot(), WriteGuard).                        *)
THEOREM NoReadUnderErase == Spec => []ReadsAvoidErase
<1>1. Inv => ReadsAvoidErase
  BY DEF Inv, ReadsOwnCopy, ReadsAvoidErase
<1>. QED
  BY <1>1, Invariance, PTL

(* A font copy is only ever made with the loaded font on the card, so no   *)
(* font can take the new copy for its own.                                 *)
THEOREM NoFlashReaderWhileCopying == Spec => []CopyHasNoFlashReader
<1>1. Inv => CopyHasNoFlashReader
  BY DEF Inv, FlagsHeld, CopyHasNoFlashReader
<1>. QED
  BY <1>1, Invariance, PTL

(* What is read through the copy is a glyph of the loaded font.            *)
THEOREM OwnGlyphs == Spec => []GlyphsAreTheFonts
<1>1. Inv => GlyphsAreTheFonts
  BY DEF Inv, Quiet, ReadsOwnCopy, GlyphsAreTheFonts
<1>. QED
  BY <1>1, Invariance, PTL

(* Whatever is written to the other slot, and whenever the power goes, the *)
(* bootloader finds an image that loads.                                   *)
THEOREM AlwaysBoots == Spec => []NeverDead
<1>1. Inv => NeverDead
  BY DEF Inv, RunningIsWhole, NeverDead
<1>. QED
  BY <1>1, Invariance, PTL

(* The slot the boot entries select holds an image that was validated,     *)
(* also between the erase of an entry and its rewrite (switchTo()) and     *)
(* while the other slot holds a font (safeForScratchWrite()).              *)
THEOREM SelectsOnlyImages == Spec => []SelectedIsAnImage
<1>1. Inv => SelectedIsAnImage
  BY DEF Inv, SelectedKept
<1>. QED
  BY <1>1, Invariance, PTL

(* Unless the selected image was refused, the slot that runs is the one    *)
(* the entries select, until the restart into a new image.                 *)
RunsTheSelected ==
  phase \in {"early", "up"} /\ ~rejected /\ job.at # "restart" => Selected(otadata) = running
THEOREM RunningIsSelected == Spec => []RunsTheSelected
<1>1. Inv => RunsTheSelected
  BY DEF Inv, SelectedKept, RunsTheSelected
<1>. QED
  BY <1>1, Invariance, PTL

=============================================================================
