------------------------------ MODULE FlashSlot ------------------------------
(***************************************************************************)
(* The two application slots of the flash chip and everyone who uses the   *)
(* one that is not running: the copy of the reader's SD font              *)
(* (SdCardFontCache), the render task that reads glyphs from that copy     *)
(* (SdCardFont), the firmware update from the SD card (FirmwareFlasher),   *)
(* the update over the air (OtaUpdater), the boot entries                  *)
(* (OtaBootSwitch) and the bootloader.  Power may go at any step.          *)
(*                                                                         *)
(* A slot is a row of blocks: block Head holds the copy's header or the    *)
(* start of an image, blocks 1..Payload the rest.  A block written while   *)
(* the flash lies, or cut short, holds Bad.                                *)
(***************************************************************************)
EXTENDS Integers

CONSTANTS
  Fonts,        \* the .cpfont files one may select
  Images,       \* the whole firmware images for this board
  NoFile,       \* the file on the card is not a whole image for this board
  Payload,      \* number of blocks after the header block
  Bootloaders,  \* whether the bootloader tracks a new image until it is confirmed
  MaxUpdates, MaxCopies, MaxCuts   \* bounds: updates, font choices, power cuts

ASSUME FlashSlotAssumption ==
  /\ Payload \in Nat \ {0}
  /\ NoFile \notin Images
  /\ Bootloaders \subseteq BOOLEAN
  /\ {MaxUpdates, MaxCopies, MaxCuts} \subseteq Nat

VARIABLES
  slot,      \* what each block of each application slot holds
  otadata,   \* the two boot entries
  tracks,    \* this device's bootloader tracks new images
  phase,     \* "off", "early" (the core has not confirmed the image yet), "up", "dead"
  running,   \* the slot the bootloader started
  rejected,  \* the bootloader could not load the slot the entries select
  slotBeingUpdated, slotBeingWritten, readsInFlight,
  reader,    \* where the render task is in readAt()
  font,      \* the loaded reader font, and whether it reads the copy
  wanted,    \* SETTINGS: the selected font
  flashOn,   \* SETTINGS.sdFontFlashCache
  job,       \* what the main loop is doing with the slot
  updates, copies, cuts

flashVars == <<slot, otadata>>
bootVars == <<tracks, phase, running, rejected>>
flagVars == <<slotBeingUpdated, slotBeingWritten>>
readVars == <<readsInFlight, reader>>
setVars == <<wanted, flashOn>>
countVars == <<updates, copies, cuts>>
vars == <<flashVars, bootVars, flagVars, readVars, font, setVars, job, countVars>>

-----------------------------------------------------------------------------
Slots == {0, 1}
Head == 0
Blocks == Head..Payload

Erased == [kind |-> "erased"]
Bad == [kind |-> "bad"]
FirmwareBlock(im) == [kind |-> "firmware", of |-> im]
Header(f) == [kind |-> "header", of |-> f]
FontBlock(f) == [kind |-> "font", of |-> f]

Contents == {Erased, Bad} \cup {FirmwareBlock(im) : im \in Images \cup {NoFile}}
              \cup {Header(f) : f \in Fonts} \cup {FontBlock(f) : f \in Fonts}

\* A write may report success and leave other bits than it was given.
Written(content) == {content, Bad}

\* The bootloader's check of an image: its segments and its hash.
Whole(s) == \E im \in Images : \A b \in Blocks : slot[s][b] = FirmwareBlock(im)

-----------------------------------------------------------------------------
(* Boot entries.                                                           *)

States == {"new", "pending", "valid", "undefined", "invalid", "aborted"}
Blank == [seq |-> 0, state |-> "undefined"]
Entry(seq, state) == [seq |-> seq, state |-> state]

SlotOf(entry) == (entry.seq - 1) % 2
Usable(entries) ==
  {i \in {0, 1} : entries[i] # Blank /\ entries[i].state \notin {"invalid", "aborted"}}
IsActive(entries, i) ==
  i \in Usable(entries) /\ \A j \in Usable(entries) : entries[j].seq <= entries[i].seq

\* The entry with the highest sequence number, -1 when none is usable.
activeIdx(entries) ==
  IF Usable(entries) = {} THEN -1 ELSE CHOOSE i \in {0, 1} : IsActive(entries, i)
activeSeq(entries) == IF activeIdx(entries) = -1 THEN 0 ELSE entries[activeIdx(entries)].seq

\* The slot the entries select: the first one when there is no entry.
Selected(entries) ==
  IF activeIdx(entries) = -1 THEN 0 ELSE SlotOf(entries[activeIdx(entries)])

\* Mutant: the slot the entries do not select.
Unselected == 1 - Selected(otadata)

\* esp_ota_get_next_update_partition: the slot that is not running.
Inactive == 1 - running

\* HalOtaSlot::runningImageState and safeForScratchWrite.
RunningState ==
  LET mine == {i \in {0, 1} : otadata[i] # Blank /\ SlotOf(otadata[i]) = running}
  IN  IF mine = {} THEN "invalid"
      ELSE otadata[CHOOSE i \in mine : \A j \in mine : i <= j].state
safeForScratchWrite ==
  Selected(otadata) = running /\ RunningState \in {"valid", "undefined"}

-----------------------------------------------------------------------------
(* The font copy.                                                          *)

NoFont == [of |-> "none", flash |-> FALSE]
Idle == [at |-> "idle"]
IdleReader == [at |-> "idle"]

isValidFor(f) == ~slotBeingUpdated /\ slot[Inactive][Head] = Header(f)

\* ensureLoaded: the selected font, from the copy when that is wanted and valid.
Loaded(f, on) == [of |-> f, flash |-> on /\ isValidFor(f)]

\* The render lock is free: the render task is not in the middle of a glyph.
LockFree == reader.at = "idle"

Init ==
  /\ \E im \in Images :
       slot = [s \in Slots |-> [b \in Blocks |->
                                  IF s = 0 THEN FirmwareBlock(im) ELSE Erased]]
  /\ otadata = [i \in {0, 1} |-> IF i = 0 THEN Entry(1, "undefined") ELSE Blank]
  /\ tracks \in Bootloaders
  /\ phase = "off" /\ running = 0 /\ rejected = FALSE
  /\ slotBeingUpdated = FALSE /\ slotBeingWritten = FALSE
  /\ readsInFlight = 0 /\ reader = IdleReader
  /\ font = NoFont
  /\ wanted \in Fonts /\ flashOn \in BOOLEAN
  /\ job = Idle
  /\ updates = 0 /\ copies = 0 /\ cuts = 0

-----------------------------------------------------------------------------
(* The bootloader and the start of the program.                            *)

\* What the bootloader makes of the entries: an image that was started once
\* and never confirmed is given up, then a new image is put on trial.
GivenUp ==
  [i \in {0, 1} |-> IF tracks /\ otadata[i] # Blank /\ otadata[i].state = "pending"
                    THEN Entry(otadata[i].seq, "aborted") ELSE otadata[i]]
OnTrial(entries) ==
  [i \in {0, 1} |-> IF tracks /\ i = activeIdx(entries) /\ entries[i].state = "new"
                    THEN Entry(entries[i].seq, "pending") ELSE entries[i]]

\* The slot the entries select, or the other one when its image does not load.
Boot ==
  LET first == Selected(GivenUp)
      other == 1 - first
  IN  /\ phase = "off"
      /\ otadata' = OnTrial(GivenUp)
      /\ rejected' = ~Whole(first)
      /\ IF Whole(first) THEN phase' = "early" /\ running' = first
         ELSE IF Whole(other) THEN phase' = "early" /\ running' = other
         ELSE phase' = "dead" /\ UNCHANGED running
      /\ UNCHANGED <<slot, tracks, flagVars, readVars, font, setVars, job, countVars>>

\* The core confirms an image on trial before the program starts; setup() then
\* loads the selected font and, when the copy is wanted and missing, goes to the
\* page that rebuilds it or, on a low battery, switches the copy off.  Recovery and
\* the crash report come before it.
Start ==
  /\ phase = "early"
  /\ phase' = "up"
  /\ otadata' = [i \in {0, 1} |-> IF otadata[i] # Blank /\ SlotOf(otadata[i]) = running
                                     /\ otadata[i].state = "pending"
                                  THEN Entry(otadata[i].seq, "valid") ELSE otadata[i]]
  /\ font' = Loaded(wanted, flashOn)
  /\ IF flashOn /\ ~isValidFor(wanted)
     THEN \/ job' = [at |-> "preload", from |-> "boot"] /\ UNCHANGED flashOn
          \/ flashOn' = FALSE /\ UNCHANGED job
          \/ UNCHANGED <<flashOn, job>>
     ELSE UNCHANGED <<flashOn, job>>
  /\ UNCHANGED <<slot, tracks, running, rejected, flagVars, readVars, wanted, countVars>>

\* Power goes, or the chip restarts: RAM is lost, flash and card are kept.
Down ==
  /\ phase' = "off"
  /\ slotBeingUpdated' = FALSE /\ slotBeingWritten' = FALSE
  /\ readsInFlight' = 0 /\ reader' = IdleReader
  /\ font' = NoFont /\ job' = Idle
  /\ UNCHANGED <<flashVars, tracks, running, rejected, setVars, updates, copies>>

PowerCut ==
  /\ phase \in {"early", "up"} /\ cuts < MaxCuts
  /\ Down /\ cuts' = cuts + 1

Restart ==
  /\ phase = "up" /\ job.at = "restart"
  /\ Down /\ UNCHANGED cuts

-----------------------------------------------------------------------------
(* The render task reads one glyph of the font through the copy: it        *)
(* registers, checks the flags, reads, and leaves.  A read that fails      *)
(* turns the copy off for the font, which goes on from the card.           *)

OthersSameForReader == UNCHANGED <<flashVars, bootVars, flagVars, setVars, job, countVars>>

BeginRead ==
  /\ phase = "up" /\ font.flash /\ LockFree
  /\ readsInFlight' = readsInFlight + 1
  /\ \E b \in 1..Payload : reader' = [at |-> "registered", block |-> b]
  /\ UNCHANGED font /\ OthersSameForReader

\* Mutant: only the copy's own flag is looked at.
FlagsClearOfCopy == ~slotBeingWritten

FlagsClear == ~slotBeingUpdated /\ ~slotBeingWritten

CheckFlags ==
  /\ reader.at = "registered"
  /\ reader' = [reader EXCEPT !.at = IF FlagsClear THEN "inFlash" ELSE "missed"]
  /\ UNCHANGED <<readsInFlight, font>> /\ OthersSameForReader

FetchBlock ==
  /\ reader.at = "inFlash"
  /\ \/ reader' = [at |-> "got", bytes |-> slot[Inactive][reader.block]]
     \/ reader' = [reader EXCEPT !.at = "missed"]
  /\ UNCHANGED <<readsInFlight, font>> /\ OthersSameForReader

\* Mutant: a read that failed is tried on the copy again.
LeaveReadRetrying ==
  /\ reader.at \in {"got", "missed"}
  /\ readsInFlight' = readsInFlight - 1
  /\ reader' = IdleReader
  /\ UNCHANGED font /\ OthersSameForReader

LeaveRead ==
  /\ reader.at \in {"got", "missed"}
  /\ readsInFlight' = readsInFlight - 1
  /\ font' = [font EXCEPT !.flash = reader.at = "got"]
  /\ reader' = IdleReader
  /\ OthersSameForReader

-----------------------------------------------------------------------------
(* Text settings: a font or size is selected, or the copy switched.  Each  *)
(* is saved, and the copy is then brought in line with the setting.        *)

SelectFont(f) ==
  /\ phase = "up" /\ job.at = "idle" /\ LockFree /\ copies < MaxCopies
  /\ f # wanted
  /\ wanted' = f
  /\ font' = Loaded(f, flashOn)
  /\ job' = [at |-> "apply"]
  /\ copies' = copies + 1
  /\ UNCHANGED <<flashVars, bootVars, flagVars, readVars, flashOn, updates, cuts>>

SwitchCopy ==
  /\ phase = "up" /\ job.at = "idle" /\ copies < MaxCopies
  /\ flashOn' = ~flashOn
  /\ job' = [at |-> "apply"]
  /\ copies' = copies + 1
  /\ UNCHANGED <<flashVars, bootVars, flagVars, readVars, font, wanted, updates, cuts>>

\* applyFlashCacheSetting and the start of runFlashCopy; a low battery or a font
\* that does not fit switches the copy off.
Apply ==
  /\ job.at = "apply"
  /\ IF ~flashOn
     THEN job' = (IF font.flash THEN [at |-> "reload"] ELSE Idle) /\ UNCHANGED flashOn
     ELSE \/ flashOn' = FALSE /\ job' = [at |-> "reload"]
          \/ /\ job' = IF isValidFor(wanted) THEN [at |-> "reload"]
                       ELSE [at |-> "preload", from |-> "settings"]
             /\ UNCHANGED flashOn
  /\ UNCHANGED <<flashVars, bootVars, flagVars, readVars, font, wanted, countVars>>

Reload ==
  /\ job.at = "reload" /\ LockFree
  /\ font' = Loaded(wanted, flashOn)
  /\ job' = Idle
  /\ UNCHANGED <<flashVars, bootVars, flagVars, readVars, setVars, countVars>>

-----------------------------------------------------------------------------
(* preload(): the selected font is copied to the inactive slot.            *)

\* preload() returns: the write guard is released, and a copy that failed is
\* switched off.  Only the page shown at boot leaves the loaded font alone then.
CopyEnds(ok) ==
  /\ slotBeingWritten' = FALSE
  /\ flashOn' = (flashOn /\ ok)
  /\ job' = IF ok \/ job.from = "settings" THEN [at |-> "reload"] ELSE Idle
  /\ UNCHANGED <<bootVars, slotBeingUpdated, readVars, font, wanted, otadata, countVars>>

StillCopying(at, b) ==
  /\ job' = [at |-> at, from |-> job.from, block |-> b]
  /\ UNCHANGED <<bootVars, flagVars, readVars, font, setVars, otadata, countVars>>

Preload ==
  /\ job.at = "preload"
  /\ UNCHANGED slot
  /\ IF slotBeingUpdated THEN CopyEnds(FALSE)
     ELSE IF isValidFor(wanted) THEN CopyEnds(TRUE)
     ELSE \/ CopyEnds(FALSE)   \* unsafe, too large, no memory, or no file
          \/ /\ safeForScratchWrite
             /\ slotBeingWritten' = TRUE
             /\ job' = [job EXCEPT !.at = "drainReads"]
             /\ UNCHANGED <<bootVars, slotBeingUpdated, readVars, font, setVars>>
             /\ UNCHANGED <<otadata, countVars>>

DrainReads ==
  /\ job.at = "drainReads" /\ readsInFlight = 0
  /\ StillCopying("eraseHead", Head) /\ UNCHANGED slot

\* Mutant: the old header stays until the new one is written.
EraseHeadLater ==
  /\ job.at = "eraseHead"
  /\ StillCopying("eraseBlock", 1) /\ UNCHANGED slot

EraseHead ==
  /\ job.at = "eraseHead"
  /\ slot' = [slot EXCEPT ![Inactive][Head] = Erased]
  /\ StillCopying("eraseBlock", 1)

EraseBlock ==
  /\ job.at = "eraseBlock"
  /\ slot' = [slot EXCEPT ![Inactive][job.block] = Erased]
  /\ StillCopying("writeBlock", job.block)

WriteBlock ==
  /\ job.at = "writeBlock"
  /\ \E w \in Written(FontBlock(wanted)) : slot' = [slot EXCEPT ![Inactive][job.block] = w]
  /\ IF job.block < Payload THEN StillCopying("eraseBlock", job.block + 1)
                            ELSE StillCopying("verify", job.block)

\* The checksum of what was read from the card against what is in the flash.
Verify ==
  /\ job.at = "verify"
  /\ UNCHANGED slot
  /\ IF \A b \in 1..Payload : slot[Inactive][b] = FontBlock(wanted)
     THEN StillCopying("writeHeader", Head)
     ELSE CopyEnds(FALSE)

WriteHeader ==
  /\ job.at = "writeHeader"
  /\ \E w \in Written(Header(wanted)) : slot' = [slot EXCEPT ![Inactive][Head] = w]
  /\ CopyEnds(TRUE)

\* An erase, a read of the card or a write reports an error.
CopyFails ==
  /\ job.at \in {"eraseHead", "eraseBlock", "writeBlock", "verify", "writeHeader"}
  /\ CopyEnds(FALSE) /\ UNCHANGED slot

-----------------------------------------------------------------------------
(* Firmware updates.                                                       *)

Files == Images \cup {NoFile}

UpdateGoesOn(at, b) ==
  /\ job' = [at |-> at, from |-> job.from, image |-> job.image, block |-> b]
  /\ UNCHANGED <<bootVars, readVars, font, setVars, countVars>>

\* The user picks a file that passes validation and is asked to confirm; while
\* the question stands, the card may be changed.  It is validated again.
PickFirmware ==
  /\ phase = "up" /\ job.at = "idle" /\ updates < MaxUpdates
  /\ job' = [at |-> "confirm"]
  /\ updates' = updates + 1
  /\ UNCHANGED <<flashVars, bootVars, flagVars, readVars, font, setVars, copies, cuts>>

\* Mutant: the answer from before the question is trusted.
ValidatedOnce(file) == file \in Files

Validated(file) == file \in Images

ConfirmUpdate ==
  /\ job.at = "confirm"
  /\ \E file \in Files :
       job' = IF Validated(file)
              THEN [at |-> "invalidate", from |-> "card", image |-> file] ELSE Idle
  /\ UNCHANGED <<flashVars, bootVars, flagVars, readVars, font, setVars, countVars>>

\* A newer version is on the server; what comes down may not be for this board.
InstallUpdate ==
  /\ phase = "up" /\ job.at = "idle" /\ updates < MaxUpdates
  /\ \E file \in Files : job' = [at |-> "invalidate", from |-> "server", image |-> file]
  /\ updates' = updates + 1
  /\ UNCHANGED <<flashVars, bootVars, flagVars, readVars, font, setVars, copies, cuts>>

\* invalidateUntilReboot: raise the flag, then wait for the reads in progress.
RaiseUpdateFlag ==
  /\ job.at = "invalidate"
  /\ slotBeingUpdated' = TRUE
  /\ UpdateGoesOn("drainUpdate", Head)
  /\ UNCHANGED <<flashVars, slotBeingWritten>>

DrainUpdate ==
  /\ job.at = "drainUpdate" /\ readsInFlight = 0
  /\ UpdateGoesOn("erase", Head)
  /\ UNCHANGED <<flashVars, flagVars>>

\* From the card erasing and writing alternate; over the air the slot is erased
\* first.
EraseForImage ==
  /\ job.at = "erase"
  /\ slot' = [slot EXCEPT ![Inactive][job.block] = Erased]
  /\ IF job.from = "card" THEN UpdateGoesOn("write", job.block)
     ELSE IF job.block < Payload THEN UpdateGoesOn("erase", job.block + 1)
     ELSE UpdateGoesOn("write", Head)
  /\ UNCHANGED <<otadata, flagVars>>

WriteImage ==
  /\ job.at = "write"
  /\ \E w \in Written(FirmwareBlock(job.image)) :
       slot' = [slot EXCEPT ![Inactive][job.block] = w]
  /\ IF job.block < Payload
     THEN UpdateGoesOn(IF job.from = "card" THEN "erase" ELSE "write", job.block + 1)
     ELSE UpdateGoesOn(IF job.from = "card" THEN "switchErase" ELSE "check", Head)
  /\ UNCHANGED <<otadata, flagVars>>

\* esp_ota_end verifies what was written.
CheckImage ==
  /\ job.at = "check" /\ Whole(Inactive)
  /\ UpdateGoesOn("switchErase", Head)
  /\ UNCHANGED <<flashVars, flagVars>>

\* switchTo: the entry that is not active is replaced by one with a higher
\* sequence number that selects the slot just written.
otherEntry == IF activeIdx(otadata) = 0 THEN 1 ELSE 0
newSeq == LET seq == activeSeq(otadata) + 1
          IN  IF (seq - 1) % 2 = Inactive THEN seq ELSE seq + 1

SwitchErase ==
  /\ job.at = "switchErase"
  /\ otadata' = [otadata EXCEPT ![otherEntry] = Blank]
  /\ UpdateGoesOn("switchWrite", Head)
  /\ UNCHANGED <<slot, flagVars>>

SwitchWrite ==
  /\ job.at = "switchWrite"
  /\ \E e \in {Entry(newSeq, "new"), Blank} : otadata' = [otadata EXCEPT ![otherEntry] = e]
  /\ job' = [at |-> "restart"]
  /\ UNCHANGED <<slot, bootVars, flagVars, readVars, font, setVars, countVars>>

\* An error on the way: the page says so, and the one over the air restarts when
\* it is left.  The flag stays up until the reboot.
UpdateFails ==
  /\ job.at \in {"erase", "write", "check", "switchErase", "switchWrite"}
  /\ job' = IF job.from = "card" THEN Idle ELSE [at |-> "restart"]
  /\ UNCHANGED <<flashVars, bootVars, flagVars, readVars, font, setVars, countVars>>

-----------------------------------------------------------------------------
ReaderNext == BeginRead \/ CheckFlags \/ FetchBlock \/ LeaveRead
CopyNext == Preload \/ DrainReads \/ EraseHead \/ EraseBlock \/ WriteBlock \/ Verify
              \/ WriteHeader \/ CopyFails
UpdateNext == RaiseUpdateFlag \/ DrainUpdate \/ EraseForImage \/ WriteImage \/ CheckImage
                \/ SwitchErase \/ SwitchWrite \/ UpdateFails
MainNext == Apply \/ Reload \/ CopyNext \/ UpdateNext \/ Restart
UserNext == (\E f \in Fonts : SelectFont(f)) \/ SwitchCopy \/ PickFirmware \/ ConfirmUpdate
              \/ InstallUpdate
Next == Boot \/ Start \/ ReaderNext \/ MainNext \/ UserNext \/ PowerCut

Spec == Init /\ [][Next]_vars

\* The main loop runs on, and the render task finishes what it began; nobody
\* has to press a key, and power need not fail.
Fairness == WF_vars(MainNext) /\ WF_vars(CheckFlags \/ FetchBlock \/ LeaveRead)
FairSpec == Spec /\ Fairness

-----------------------------------------------------------------------------
(* Every variable holds a value of its type; the count of reads is that of *)
(* the one task that draws.                                                *)
JobTypes ==
  LET copying == {"eraseHead", "eraseBlock", "writeBlock", "verify", "writeHeader"}
      updating == {"drainUpdate", "erase", "write", "check", "switchErase", "switchWrite"}
  IN  [at : {"idle", "apply", "reload", "confirm", "restart"}]
        \cup [at : {"preload", "drainReads"}, from : {"boot", "settings"}]
        \cup [at : copying, from : {"boot", "settings"}, block : Blocks]
        \cup [at : {"invalidate"}, from : {"card", "server"}, image : Files]
        \cup [at : updating, from : {"card", "server"}, image : Files, block : Blocks]

ReaderTypes ==
  [at : {"idle"}] \cup [at : {"registered", "inFlash", "missed"}, block : 1..Payload]
    \cup [at : {"got"}, bytes : Contents]

TypeOK ==
  /\ slot \in [Slots -> [Blocks -> Contents]]
  /\ otadata \in [{0, 1} -> [seq : Nat, state : States]]
  /\ tracks \in BOOLEAN /\ running \in Slots /\ rejected \in BOOLEAN
  /\ phase \in {"off", "early", "up", "dead"}
  /\ slotBeingUpdated \in BOOLEAN /\ slotBeingWritten \in BOOLEAN
  /\ reader \in ReaderTypes
  /\ readsInFlight = (IF reader.at = "idle" THEN 0 ELSE 1)
  /\ font \in [of : Fonts \cup {"none"}, flash : BOOLEAN]
  /\ wanted \in Fonts /\ flashOn \in BOOLEAN
  /\ job \in JobTypes

(* A header that checks out vouches for the whole copy, whatever the flash *)
(* did with a write and wherever the power went: "a power loss mid-way     *)
(* leaves an invalid cache rather than a half-new one" (preload()).        *)
HeaderVouches ==
  \A s \in Slots, f \in Fonts :
    slot[s][Head] = Header(f) => \A b \in 1..Payload : slot[s][b] = FontBlock(f)

(* What a font reads through the copy is its own glyph, never another      *)
(* font's, an erased block or a piece of an image being installed.         *)
GlyphsAreTheFonts ==
  reader.at = "got" => reader.bytes = FontBlock(font.of)

(* No task is inside a read of the slot while it is erased or written: a   *)
(* reader registers before it looks at the flags, the writer raises its    *)
(* flag before it waits (invalidateUntilReboot, WriteGuard).               *)
Touching ==
  {"eraseHead", "eraseBlock", "writeBlock", "verify", "writeHeader", "erase", "write"}
ReadsAvoidErase == job.at \in Touching => reader.at # "inFlash"

(* While a copy is made the loaded font reads the card: otherwise, from    *)
(* preload()'s return to the reload, the old font would read the new copy. *)
CopyHasNoFlashReader == slotBeingWritten => ~font.flash

(* The slot the boot entries select holds an image that was checked, but   *)
(* for writes the flash took wrongly, also when power goes between the     *)
(* erase of an entry and its rewrite, or while the other slot holds a font *)
(* (flashFromSdPath: "a truncated/corrupted .bin can never become the next *)
(* boot target").  After the bootloader has refused the selected image it  *)
(* is free to be replaced.                                                 *)
MadeOfImage(s) ==
  \E im \in Images : \A b \in Blocks : slot[s][b] \in {FirmwareBlock(im), Bad}
SelectedIsAnImage == rejected \/ MadeOfImage(Selected(otadata))

(* The bootloader always finds an image that loads.                        *)
NeverDead == phase # "dead"

(* invalidateUntilReboot() returns: the reads it waits for end, and a font *)
(* whose read was refused does not come back.                              *)
UpdateStarts == job.at = "drainUpdate" ~> job.at # "drainUpdate"
=============================================================================
