# TLA+ development for the CrossPoint OST firmware

This directory specifies parts of the e-reader firmware in TLA+. TLC checks the
specifications on small instances; TLAPS proves selected theorems for every
value of the constants. The source is the reference: each definition names the
lines it models in `PROJECT.json` ("map"), paths are those of the repository.

The firmware is one image on an ESP32 with an e-paper panel, an SD card and
buttons. It is single-user and mostly sequential, but not single-threaded: an
Arduino main loop, a render task, a task that starts the Bluetooth radio, and
callbacks of the network stack share state. Power can go away at any moment.

## 1. The system

| Part | State it keeps | Operations | Talks to |
|---|---|---|---|
| Activity manager (`src/activities/ActivityManager.*`, `Activity.*`) | current screen, stack of parents, pending screen and action, result handlers, visit counters, repaint flag, render mutex, waiter slot | `loop()`, `pushActivity`, `popActivity`, `replaceActivity`, `goToSleep`, `requestUpdate`, `requestUpdateAndWait`, the render task | every screen (callbacks), the radio (`beforeScreenChange`), `main.cpp` |
| Page-turner radio (`lib/BlePageTurner`) | visit record, start attempt flags, hold for a chapter build, memo of heap refusals | `tick`, `startSync`, `suspend`, `beforeScreenChange`, `beforeChapterBuild`, `settleStart`, `afterPaint`, `status` | the main loop, the render task, a start task of its own, the SDK's stack |
| Book reader (`src/activities/reader`) | section, position, background build, the flag that it released the radio | paint, build a chapter, background build tick, menu | radio, EPUB engine, render lock |
| EPUB engine (`lib/Epub`) | cache files per book and chapter | parse, lay out, page in | SD card |
| OTA slot: SD font copy (`lib/EpdFont/SdCardFontCache.cpp`), updaters (`src/network/FirmwareFlasher.cpp`, `OtaUpdater.cpp`, `OtaBootSwitch.cpp`), `HalOtaSlot` | contents of the inactive application slot, the two boot entries, RAM flags | copy a font, read it, flash an image, switch the boot entry | render task, bootloader |
| SD fonts (`src/SdCardFontSystem.cpp`) | loaded fonts, discovery results | load, reload, install | OTA slot, settings |
| Web server and WebDAV (`src/network`) | upload state, sessions; a pool of plugin jobs | upload, rename, delete; submit, claim and complete a plugin job | SD card, protected paths, pages in browsers that run plugins (`html/js/plugin-host.js`) |
| HTTP clients, OPDS, KOReader, LCP | request in progress, credentials | download, sync | libraries outside the repository |
| Plugin outbox (`src/util/PluginEvents.cpp`) | one queue file per plugin, subscription table | emit, drain, deliver a line, swap a download in | HTTP, SD card, deep sleep |
| Clippings (`src/ClippingStore.cpp`, `src/clippings`) | one store per book with a backup and a journal of deletions, its records in memory without their texts | add, remove, load, save; sync: delete, upload, scan | SD card, a server other devices use |
| Settings and stores (`CrossPointSettings`, `CrossPointState`, `*Store`, `lib/Serialization`) | JSON files and their values in RAM | load, migrate, save | every screen |
| Trusted clock (`lib/TrustedTime`) | system clock, floor of the time known to have passed in memory and in flash | adopt at boot, note, sync, trusted time | network task, main task |
| Power (`lib/hal/HalPowerManager`) | clock mode, the one clock lock | power saving, deep sleep | main loop, radio |
| Boot, sleep, silent restart (`src/main.cpp`) | RTC memory, wake reason | route the first screen, sleep, restart into the book | all |
| Library index (`lib/LibraryIndex`) | index, its backup and the new one, the dirty marker | recover, walk, reconcile, install, mark, clear | SD card, web server, file browser |
| Input, graphics, dictionary, other formats, storage, archives | per call | decode, draw, look up | the rest |

How they meet. The main loop calls the page turner's `tick()`, then the
activity manager's `loop()`. The manager runs the current screen's code and then
carries out pending navigation; while navigation is pending, it asks the radio
to get out of the way and ends the pass if it has not yet. The render task
paints the current screen under the render mutex. Painting the book may need a
chapter build, which needs the memory of the radio stack: the render task then
stops the radio itself, while the main task may be starting it, on a third task
that needs the render lock to free the font caches.

What is hard here, and what makes each part correct:

- *Activity manager* -- interleaving of two tasks. A screen must not be
  destroyed while it is drawn or while its own code runs; each object has one
  owner; a wait for a frame ends once, and only with a frame that shows what
  was changed; a screen that owns the raw SD card is never left; repaints and
  navigation asked for do happen.
- *Radio and chapter builds* -- three tasks, cancellation, timeouts, retries,
  mutual waiting. A build must not run beside the radio (out of memory there
  aborts the firmware); only a start may stop the stack it is starting; the hold
  a build puts on the radio has an owner; restarts for a heap in pieces end;
  paints and starts do not wait for each other for ever.
- *OTA slot* -- power loss between any two flash operations, readers of a copy
  that is being replaced, a card that changes between validation and flashing.
- *Plugin outbox* -- a queue on the card that is appended to, walked and rewritten
  with power going at any point; delivery at least once and in order; a cap on
  the file; one budget for all plugins; a download that replaces a file by two
  renames.
- *Clippings* -- a save by two renames, with texts found by their place in the file
  that is replaced; a removal that is journaled, stored and sent in three steps;
  uploads whose answer is lost; other devices at the server during a scan. What was
  saved stays, what was removed does not come back, nothing is there twice.
- *Library index* -- an install by two renames, interrupted anywhere; a marker that
  must outlive every build that has not seen the book; a number per book carried
  from one index to the next.
- *Plugin jobs* -- several pages claim jobs under a lease, over connections that break
  before or after a request is served, and outlive the server they talk to. A job is
  done once, by the page that holds it; a result its job waits for is not thrown away;
  a page that dies does not keep its job.
- *Trusted clock* -- one value in memory and one in flash, raised by two tasks.
- *Other stores, power lock* -- power loss between the steps of a save; two tasks on
  a shared value.

`PROJECT.json` lists these as components and, line by line, as hazards.

## 2. Modules and how they correspond to the code

### `ActivityManager` (with `ActivityManagerMC`, `ActivityManagerProofs`)

The whole of `ActivityManager.cpp` as seen from the two tasks that share it.

State. `currentActivity`, `stackActivities`, `pendingActivity`, `pendingAction`,
`resultHandler`, `screenVisit`, `paintedVisit`, `requestedUpdate`,
`waitingTaskHandle` and `renderingMutex` are the members of the class.
`renderNotify` and `mainNotify` are the two tasks' FreeRTOS notification counts
(zero or not: both are taken with clear-on-exit). `mainPc` and `renderPc` are
where each task is; `callback` and `owner` say which callback of which object the
main task is in. `goingToSleep` marks the pass `goToSleep()` runs itself.
`unseen`, `freshFrame`, `shown` and `ready` are history variables: they guard
nothing, and only properties read them.

An activity is an identity with a `Kind`: Home, an ordinary screen, the light
panel, a screen that owns the raw card (USB drive), the boot or the sleep
screen. Identities are reused once the object is destroyed, as heap addresses
are.

Actions. `SuppressedRelease`, `ExclusivePass`, `HomeGesture`,
`LightPanelGesture`, `LoopPass` are the ways a pass of `loop()` may begin; the
early returns are actions that end the pass. In a callback the screen may do
what the code of any screen does (`StartActivityForResult`,
`PushWithoutHandler`, `Finish`, `ReplaceActivity`, `RequestUpdate`,
`RequestUpdateImmediate`, change something under a `RenderLock`, or
`RegisterWaiter` / `NotifyRenderAndBlock` / `WaitReturns`, the three steps of
`requestUpdateAndWait()`). `RadioStillStopping` ... `LaunchPending` are the
`while (pendingAction != None)` loop, `FlushRequest` its end. `GoToSleep` and
`HostRequestsUpdate` come from `main.cpp`. `RenderTakeNotification` ...
`RenderUnlocks` are the render task's loop, one action for each point at which
the other task may run in between. `screenVisit` is a Nat; its 32-bit width is not
reached in a session.

Abstractions: what a screen draws is the one bit "changed since the last frame
began"; timing of gestures is a choice; `onExit()` and destructors are part of the
transition that runs them.

### `PageTurner` (with `PageTurnerMC`, `PageTurnerProofs`)

`Runtime.cpp` and `RadioPolicy.h` with the code that drives them: the main
loop's `tick()` and screen changes, the start task, and the book's paint with
its chapter build on the render task.

State. `attemptInFlight`, `attemptCancelled`, `buildWaiting`,
`readerStartDeferred`, `radioIdleStopped`, `rearmRequested`, `heldForBuild` are
the module's atomics; `book` is `struct Visit`, `heapTracker`
is `struct Tracker` with `spent` the memo in RTC memory; `holdsCpu` is the clock
hold of `main.cpp`. `radio`, `connected` and `armed` are the SDK's stack, as far
as the calls in `src/` show it: a stop is asked for by `end()` and completed by
this call or by a later one. `radioReleasedForBuild` and `building` are the
reader's. `restarts` is history.

Actions. `TickEnter`, `TickStops`, `TickAsks`, `TickClaims`, `TickSpawns`,
`TickServes`, `TickStopsIdle`, `TickEnds` and `RestartIntoBook` are one pass of
`tick()`, cut where another task can see a difference (`startAsync()` sets the
flag that a start is in flight in one step and takes the clock and spawns the
task in the next). `ReleaseHold`, `BackgroundBuild`, `LoopPass` are the reader's
`loop()`; `AskToLeave`, `NoInput`, `ToggleOff`, `ToggleOn`, `SwitchOn` the user;
`Navigate` and `LeaveScreen` the screen change with `beforeScreenChange()` and
the destructor of the reader. `StartCheck` ... `StartFinishes` are
`beginOwned()` and `finishAttempt()` on the start task (or on the main task, in
`startSync()`), with the rollback. `RenderBook` ... `ChapterBuilt` are
`renderBook()`: `settleStart()`, `beforeChapterBuild()` with `suspend()` cut at
each shared access (`RenderCancels`, `RenderEnds`, `RadioReleased`),
`waitForBuildRoom()` with the three reads of `status()` one at a time.

Choices: what the heap answers, whether a timeout has passed, what the remote and
the user do. `Profiles` says which builds are looked at: in the S3 profile
(`homeStart`) the radio may start at Home. `settleStart()` ends its wait when the
start has settled (`StartSettled`) or when 3 s have passed (`SettleTimedOut`, which
may happen at any time of the wait). `outlasted` is history: a start outlasted the
wait of this paint; a build that goes on to take the hold has no such start beside
it. The note shown when a link fails is an output and is left out.

### `FlashSlot` (with `FlashSlotProofs`)

The application slot that is not running, which holds either a copy of a font
(`SdCardFontCache`) or the next firmware (`FirmwareFlasher`, `OtaUpdater`).

State. `slot` is what each block of both slots holds: block 0 is the header of a
copy or the first block of an image, the others the payload. `otadata` are the two
boot entries with their sequence numbers and states; `tracks` says whether this
device's bootloader tracks images on trial. `slotBeingUpdated`,
`slotBeingWritten` and `readsInFlight` are the atomics of `SdCardFontCache.cpp`.
`reader` is where the render task is in `readAt()`, `font` the font it has loaded,
`wanted` and `flashOn` the settings, `job` the step of the main loop. `rejected`,
`updates`, `copies` and `cuts` are bookkeeping.

Actions. `BeginRead`, `CheckFlags`, `FetchBlock`, `LeaveRead` are one read on the
render task. `Apply`, `Reload`, `Preload` ... `WriteHeader`, `CopyFails` are the
copy, one flash operation per action. `PickFirmware`, `ConfirmUpdate`,
`InstallUpdate`, `RaiseUpdateFlag` ... `CheckImage`, `SwitchErase`,
`SwitchWrite`, `UpdateFails` are both updates. `Boot`, `Start`, `Restart` and
`PowerCut` are the bootloader, the start of the firmware and the loss of power.

Abstractions: an image and a font each fill all blocks; files are model values; a
flash write may lie (`Bad`). The parsing inside `validateImageFile()`, the version
check of an update over the air, built-in and vector families and a copy that
holds only a prefix of its file are left out. The card is swapped only while the
user is asked to confirm.

Observed while modelling, and not contradicted by any doc: `slotBeingWritten` is a
second line of defence, since no loaded font reads flash while `preload()` runs
(`CopyHasNoFlashReader`, proved); `performUpdate()` validates the image again at the
time of flashing, which `SelectedIsAnImage` needs; `switchTo()` always writes the
state NEW, so under a bootloader that does not track images the running image stays
NEW and `safeForScratchWrite()` refuses font copies.

### `PluginOutbox` (with `PluginOutboxMC`, `PluginOutboxProofs`)

`PluginEvents.cpp` whole, with the part of `main.cpp` that joins a network before
deep sleep.

State. `manifest`, `outbox`, `dest`, `bak`, `part` are on the card: each plugin's
device.json, its queue, and the file that downloads replace with its two siblings.
`table` is `subscribers[]`. `pc`, `at`, `pos`, `budget`, `minted`, `hadDest` are
where the main task is and the locals of `drain()` and `deliverLine()`. `owed`,
`unmended`, `unremoved`, `had`, `mishaps` are history: the events the queue still
owes, whether a torn line was ever left behind, how often the removal of each full
outbox failed since it was last removed or read, whether the destination has existed,
and the renames refused and power cuts met in a swap.

Actions. `Emit`, `EnterSleep` and `EmitSkips` ... `EmitReturns` are `emit()`, one
subscriber after the other: the removal of a full queue, which may fail without
`emit()` noticing, the second opening of the file, an append, a short append and the
`truncate()` after it. `Drain`, `BeforeSleep` and `DrainSkips` ...
`DrainReturns` are `drain()`; `LineDropped`, `LineDelivered`, `LineRefused` are
`deliverLine()` of a request, `Fetch` ... `Clean` that of a download, one operation
on the card per action. `Edit`, `Refresh`, `DeepSleep`, `PowerCut`, `Boot` are the
world around it.

Abstractions: a line is one unit of size, that of the longest line; ids, templates,
tokens on the card, sidecars and toasts are left out; a filter that does not match
and a file that does not open are `EmitSkips`. All downloads go to one file. A
power cut in the middle of an append may leave nothing, a torn line, or a line
without its newline. Every operation on the card may fail. One of them is taken as the
comments describe it, the card layer being outside the repository: `writeFile()` keeps
the old file when it fails.

An outbox whose removal failed is appended to beyond the cap, and `drain()` cannot read
it: `OutboxReadable` bounds it by one line for each removal that failed, and the queue
waits until an event comes whose removal works (`Overgrown` in `QueueDrains`). An event
of deep sleep queued in such an outbox is no reason to join the network
(`SleepEventJoins` excepts it). The comments and the table of limits in
docs/plugin-events.md state the cap and say nothing of a removal that fails.

The events `owed` are those appended whole. One that is appended behind a line left
torn by a power cut or by a `truncate()` that failed is glued to it and dropped with
it; the comment in `emit()` says as much, and `NothingLost` claims it only as long as
no such line was left (`unmended`).

### `Clippings` (with `ClippingsMC`, `ClippingsProofs`)

`ClippingStore.cpp` for the store of one book, with the reader that changes it and
`clippingSync::run()`. All of it is on the main task: what is hard is what each
failure leaves where.

State. `main`, `bak`, `tmp` are the store and the two files of `writeToFile()`;
`journal` and `torn` the file `.deleted`: whole ids, and whether part of one
follows. `ram`, `loaded`, `dirty` are the members of the class. A record in memory
has `at`, its text's place in the store, where the class has an offset and a length;
its `text` is then history, and the program reads the text only through `TextOf`.
`pc`, `job`, `undo`, `repl`, `ok` are where the main task is: `writeToFile()` is one
sequence of actions that several callers enter by `Call` and leave by the action
that reads its answer. `walk` and `more` are the locals of `run()`. `server` and
`rev` are the server's items with their revisions. `kept` and `gone` are history:
what the user was told.

Actions. `OpenBook`, `CloseBook`, `Unload`, `AddClipping`, `RemoveClippingAt`,
`JournalFails` are the reader's calls; `MakeRoom`, `WriteTmp`, `WriteFails`, `Park`,
`Swap`, `SwapFails`, `Tidy` the steps of `writeToFile()`; `Added` ... `Applied` what
each caller makes of the answer. `StartSync`, `Probe`, `PrepareSync`,
`SendDeletion`, `FinishDeletions`, `Upload`, `FinishUploads`, `ApplyRemote`,
`Synced` are `run()`, one request per action; a request may be lost, or arrive and
its answer be lost. `Elsewhere` is another device; `PowerCut` may strike anywhere.

Abstractions: the server is modelled from what `run()` and its comments expect of
it: an upload or a deletion that comes twice is one, revisions only grow. A text
stands for one clipping, and is not clipped again once it has an id. The check of
what the server sends, previews, the position in the book and the limit on a text's
length are left out. `flush()` and `close()` of the file are taken to succeed when
the writes before them did, as the code takes them.

### `LibraryIndex` (with `LibraryIndexMC`, `LibraryIndexProofs`)

`buildLibraryIndex()` of `LibraryBuilder.cpp` and what may happen between two builds.

State. `books` is what is on the card; `idx`, `bak`, `new` are the three files, each
an index, absent, `Bad` (it does not validate) or, for an index, `Short` (its header
cannot even be read, which the code takes for a failing card); `marker` and
`dirtyInMemory` say that a book arrived. `staged` and `skipped` are what the walk
found and what it had to pass over. `ok`, `hit`, `marked` are history.

Actions. `Transfer` and `MarkLibraryIndexDirty` are a book that arrives over the
network; `Rename` and `Put` the file browser or a computer. `StartBuild`, `Recover`
(the table of `recoverInterruptedInstall()`), `Walk` with `Reconciled` (the first
pass by path, the second by size), `WalkFails`, `Emit`, `Park`, `Swap`, `SwapFails`,
`Tidy`, `ClearLibraryIndexDirty`, `Failed` are the build; `Restart` the power going.

Abstractions: an entry is a path, a size and the number `firstSeen`; hashes do not
collide; the order in which the walk finds new books is a choice (`Numberings`), and
so is which of several entries of one size a moved book takes (`Matchings`). A card
changes only between builds. An index of another format is as `Bad` as a damaged one; one whose
folding tables alone are outdated, whose numbers the code takes over, is left out.

### `PluginJobs` (with `PluginJobsMC`, `PluginJobsProofs`)

The job queue of the web server (`handlePluginJobSubmit`, `handlePluginJobClaim`,
`handlePluginJobComplete` with `allocPluginJob`) and the pages that run the jobs
(`_pollJobs` and `_sendCompletion` in `plugin-host.js`).

State. `jobs`, `nextPluginJobId`, `nextPluginJobClaim` are the members of
`CrossPointWebServer`, made anew for each web session; `now` is `millis()`. `hand` is
what a page works on and then keeps as `_pendingCompletion`, with the session and the
time of its claim as history. `conn` is the request a page waits for or the answer on
its way back, `strays` the requests whose page has given up and which may still be
served. `session` and `crossed` are history: which session this is, and whether it has
taken a result of an earlier one.

Actions. `Submit` is an outside program. `SendClaim`, `TakesJob`, `RunsAction`,
`SendCompletion`, `HearsVerdict` are a page, one per `await`. `ServeClaim`
(`ClaimFrom` or `NothingToClaim`, which end the leases they walk past) and
`ServeCompletion` (`Record` or a `Verdict` that changes nothing) are the handlers, each
one step: the server serves one request at a time. `FetchFails`, `PageCloses`,
`RefuseCompletion`, `ServeStray` are what may go wrong, `NewSession` the user leaving
the screen and entering it again.

Abstractions: arguments and names are left out, and a result is told apart by the
execution it comes from; done and error are one state, `finished`. The query of a
job's state reads only. Whether plugins are enabled changes only in the settings, so
not while the server runs.

### `JobBoard`

The abstract specification of the queue, as a caller sees it: a job is open until it is
settled, once; only a settled job is taken off the board; a new session takes the whole
board down. `PluginJobs` implements it (`BoardIsKept`, checked and proved): slots,
claims, leases and lost messages are nothing to a caller. That a new session forgets
open jobs is the code's doing, and the board allows it.

### `TrustedTime` (with `TrustedTimeProofs`)

`TrustedTime.cpp` in the two tasks that call `note()`: the main task (before deep
sleep and after `syncNow()`) and the network task (when the time server has
answered). `clock` is the system clock, `ramFloor` and `floor` the floor in memory
and in flash, `at` and `now` where each task is in `note()` and its local. `Boot` is
`init()` with `adopt()`; `ReadTime`, `RaiseFloor`, `Compare`, `WriteFloor` are
`note()`, cut where the other task can run; `TimeSynced`, `Tick` and `Off` are the
time server, time and power. Time zones and formats are left out.

### `AtomicFile`

The abstract specification of a file that is saved as a whole: its `content` is the
old one or the new one whatever fails, and a save says it is done exactly when the
new one is there. `Clippings` and `LibraryIndex` implement it: both define `saving`,
say that `content` is what a reader finds after recovery (`Stored`, `Shelf`), and
state the instance's specification as a property (`StoreIsAtomic`, `IndexIsAtomic`),
which TLC checks and the proof modules prove.

## 3. What is checked

Every property has a mutant in `PROJECT.json`: a change of one definition the
way a plausible bug would change the code, which the property must catch.
Properties are stated in the module of the component; the `...MC` modules hold the
constants of an instance and what comments and docs say and the code does not keep.

| Run | Checks | Instance |
|---|---|---|
| `am_safety` | `DrawnActivityIsCurrent`, `RunningActivityIsAlive`, `WaitShowsChange`, `StorageOwnerStays` | 8 objects of all kinds, radio compiled in, both ways to boot, 3 screen changes |
| `am_live` | `RequestedUpdateIsDrawn`, `WaitEnds`, `NavigationIsServed` | 6 objects, fairness, 1 screen change |
| `pt_safety` | `BuildRunsAlone`, `OneRestartPerRadioUp`, `OnlyStartStopsItself`, `OffScreenRadioIsOff`, `ServedRadioIsArmed` | all six screens, both profiles, a heap that may be in pieces, 2 screen changes, 2 builds |
| `pt_live` | `PaintEnds`, `StartSettles` | book and menu, fairness, 1 screen change, 1 build |
| `fs_safety` | `HeaderVouches`, `GlyphsAreTheFonts`, `SelectedIsAnImage`, `NeverDead`, `UpdateStarts` | 2 fonts, 2 images, a header and 2 payload blocks per slot, both kinds of bootloader, 2 updates, 2 copies, 1 power cut |
| `po_safety` | `NothingLost`, `OutboxReadable`, `OneMishapKeepsAFile`, `SleepEventJoins`, `NothingOvertakes`, `QueueDrains` | 1 plugin of three kinds, a cap of 1 line, a budget of 1, 3 events, 1 edit, 1 power cut, fairness |
| `cs_safety` | `NothingLost`, `OwnText`, `NoGhosts`, `NoTwins`, `SyncConverges`, `StoreIsAtomic` | 2 texts here and 1 elsewhere, a store of 2, 2 changes by other devices, 2 faults, 1 power cut |
| `li_safety` | `BuildShowsCard`, `MarkedIsShelved`, `NeverStuck`, `ArrivalOrder`, `IndexIsAtomic` | 3 paths, 3 books of two sizes, 2 changes of the card, 1 fault, 1 restart |
| `pj_safety` | `InTimeIsTaken`, `NoResultThrownAway`, `BoardIsKept`, `JobsFinish` | 2 pages, 1 plugin, a pool of 2, 3 jobs, 1 fault, 1 tick past the lease, 2 sessions, fairness |

### Bounds

*Activity manager.* Two objects of the kinds of which a replacement needs two (Home
over Home, a parent and a child). Three screen changes are a push, a pop with its
handler, and one change more on top of either; one navigation per callback is
enough since a later request overwrites the earlier one. The symmetry permutes
objects of one kind, in the safety run only. `mainPc = "down"` is the end of a
behaviour (deep sleep or restart, both a chip reset): it stutters rather than
deadlocks.

*Page turner.* Two refusals before a restart instead of the code's three show the
row being counted and being reset; one retry instead of five shows the limit. A
menu visit and the way back take two screen changes.

*Flash slot.* Two payload blocks make a copy and an image that can be half
written; two updates and two copies let each follow any other; power can go at
every flash operation.

*Outbox.* A cap of one line makes the boundary (cap, cap and one line, over) three
lines; a budget of one leaves a tail to rewrite; three events are one dropped, one
delivered and one behind, or two that fill the outbox and one that meets a removal that
fails. The removal that mends it comes with a fourth event (below); the theorem
covers any number. The three manifests are a plugin with a request, one
with a download on sleep and one without anything to run. What distinguishes
plugins from each other is the order of the table and the shared budget, which
only `QueueDrains` is about; all else is per plugin, and proved for any number.
`QueueDrains` also holds of two plugins and two events without edits and power cuts
(538,000 states), and with one plugin and four events (249,000), instances no run is
spent on.

*Clippings.* A store of two with three texts can be full, and its records can change
places. Two faults are a save that fails and whose repair fails, or an answer lost
twice; with a power cut between them this covers each pair of steps. Two changes by
other devices are one before and one during a scan.

*Library index.* Three books on three paths, two of one size, are enough for a book
that moves, one that stays, and two that could be taken for each other. One fault and
one restart leave each combination of the three files the code can leave; `Init`
adds those an older firmware or a damaged card leaves. `Width` is 8, more than the
books two changes can discover: the wrap of the counter is not looked at.

*Plugin jobs.* A pool of two can be full with three jobs, one of which must make room;
two pages can hold one job, one of them past its lease. With a lease of 0, the one tick
ends every lease that has begun before it, and faults come only before it
(`RoomForLease`), so that what they spoil can be made good. Two ticks and two faults (3.3
million states) pass too, but for `JobsFinish`, which was not tried there. More plugins
only split the jobs.

### Fairness

*Activity manager.* Both tasks have the same priority and time slices, so an
enabled step of either is taken (weak fairness); the mutex is given back after
each frame, so a task that keeps trying gets it (strong fairness on the two
actions that take it); a callback returns; the user does not end every pass
with a gesture, and the radio stops in the end (`RadioOutOfTheWay`, which
`PageTurner` is about).

*Page turner.* Each of the three tasks runs when it can (the render task only once
it has begun a paint: nobody has to ask for one), and the two bounded waits of a
chapter build end. A start that waits for the render lock polls every 10 ms, so it
does not miss `settleStart()`'s wait paint after paint (strong fairness of the poll
during that wait). Nothing is assumed of how long the stack takes to stop, or of the
timeout of `settleStart()`: it may come at any time or never (`SettleTimedOut` has no
fairness), so the properties say that these waits end without it and with it.

*Flash slot.* The main loop goes on with its job, and a read that has registered
goes on to its end; nobody has to begin one.

*Outbox.* The main task goes on, the device is started again after a power cut and
comes online again and again (strong fairness of `Drain`), and faults of the card,
the network and the server end; among them are a removal of an outbox and a rewrite
that fail. Events are finitely many: a plugin that queues a
budget's worth between any two drains can keep those behind it in the table
waiting, and `QueueDrains` does not say otherwise.

*Plugin jobs.* A page that is open polls again and again for each of its plugins (strong
fairness: between two polls it may be busy), its plugin's function returns, the server
serves, and time passes. Nobody has to submit a job, and faults end.

*Clippings*, *library index* and *trusted clock* state safety only: their actions end
when the user stops asking for them.

### Where code and comments differ

Each of these runs checks one sentence of a comment or a doc, and TLC finds a
behaviour of the code that contradicts it ("findings" in `PROJECT.json` quotes the
line).

| Run | Property | What happens |
|---|---|---|
| `am_handler` | `HandlerGetsOwnChildWithRadio` | with the radio in the way, the light panel's result goes to another child's handler |
| `pj_session` | `ResultIsOfThisSession` | a page left open posts a result of the last web session, and it is taken for another job's |
| `tt_floor` | `FloorNeverLowers` | one task persists an earlier time over a later one the other has just written |

The MC modules state more such sentences, for which no run is kept; TLC refutes each
of them within seconds when it is added to a configuration. Of the activity manager:
`SleepScreenEntered` (`goToSleep()` may return without the sleep screen),
`WaitCoversTriggeredRender` (a frame already under way ends the wait for the frame
that was asked for), `DrawnActivityIsReady` (a left-over notification draws a screen
before its `onEnter()` has run), `HomeShownMeansPainted` (both visit counters start
at 0, so Home counts as painted at once after a direct start),
`NoPendingAtPushOrPop` (a push or a pop drops a navigation left pending by an early
return). Of the page turner: `RefusedOnlyAfterAsking` (the flag that the radio was
released outlives a visit of the menu, the hold does not: the next build never asks the
radio to stop, waits beside it and is refused; with two screens, two builds, `Verdicts`
empty), `CpuHeld` (the render task's `suspend()` gives away the
clock a start has just taken), `WaitNeedsNoLock` (a start claimed while a build waits
needs the lock the build holds), `BuildNeverBesideRadio` (`BuildRunsAlone` without its
exception: a start slower than the 3 s of `settleStart()` comes up and ends between the
reads of `status()`, and the build runs beside the radio) and `HoldIsReleased`,
under `BuildingSpec` (a start that fails as the hold begins parks the build the hold
waits for). Of the outbox: `CommitKeepsAFile` (the backup an interrupted swap left is
removed before the next one, so a second mishap loses both files). Of plugin jobs:
`StaleIsToldSo` (a stale completion that comes after the job was finished by another
page is told ok, not 409). Of builds without
the radio, `HandlerGetsOwnChild` holds.

Three disagreements need no run: docs/plugin-events.md says the subscription table is
rebuilt at boot, while opening the plugin list and ending a web session rebuild it
too (`Refresh`); OtaBootSwitch.h says both update paths bypass the verification of
the image, while `installUpdate()` goes through `esp_ota_end()`; the uploads of the
web page mark the library index stale, as docs/webserver-endpoints.md says, while a
book that comes by WebDAV's PUT does not (`WebDAVHandler::handlePut`): it is a `Put`
in `LibraryIndex`, and `MarkedIsShelved` does not cover it.

Observed while modelling, and contradicted by no doc: an index too short for its
header is taken for a failing card, so every build is refused until the file is
deleted (`NeverStuck` excepts it); a folder that cannot be opened is passed over
without counting as a failure, so its books leave the shelf and the marker is
cleared (`skipped`); a remote clipping for which the store has no room ends this sync
and every later one at the same item; the fall-back of the marker, a flag in
memory, does not outlive a restart.

## 4. What is proved

Eight modules are proved about, each for any value of its constants and any
interleaving, from the assumptions named in the component's module (the constants
have their types). In each, the theorems are consequences of one inductive
invariant, whose parts are kept by every action. Some of the theorems are about
properties no run is spent on any more, since they are proved: of the activity
manager `OneOwner`, `PendingActionIsDoable`, `OneWakePerWait`, `HomeShownWasPainted`,
of the radio `PaintRunsAlone` and `HoldHasOwner`, of the outbox `DestIsWhole`, of the slot
`ReadsAvoidErase` and `CopyHasNoFlashReader`, of the clock `NeverEarlier` and
`TrustCoversFloor`, and the type invariants.

`ActivityManagerProofs`: `TypeCorrect`, `DrawnIsCurrent`, `RunningIsAlive`,
`PendingIsDoable`, `OneOwnerEach`, `WokenOnce`, `HomeShownPainted`, `WaitShows`,
`StorageOwner`. The proof has one lemma per part, with one step per action:

- `Base`: `TypeOK`, `MutexHeld` (who holds the mutex is who is between taking it
  and giving it back), `Control` (a callback is what the main task is in exactly
  while a screen's code runs), `RunningActivityIsAlive` and
  `PendingActionIsDoable`. Every other part rests on it.
- `DrawnActivityIsCurrent` is inductive over `Base`: a transition needs the
  mutex, and the render task holds it while it draws.
- `OneWakePerWait` likewise: the waiter is registered or has its wake, never
  both.
- `FrameCovers` strengthens `WaitShowsChange`: a change that the frame under way
  does not show was a screen change with nothing in front, which leads to Home,
  and Home does not wait. So a waiter that has been woken has been shown
  everything.
- `VisitPainted` strengthens `HomeShownWasPainted`: the frame under way belongs to
  the current visit, and a visit marked painted has been drawn.
- `StorageHeld` strengthens `StorageOwnerStays`: a screen that owns the card is
  never below another, and nothing it asks for reaches the navigation loop.
- `OneOwner` needs `Fresh`: a new object is none of those alive.

`PageTurnerProofs`: `TypeCorrect`, `BuildIsAlone`, `PaintIsAlone`, `RestartsOnce`,
`HoldIsOwned`, `StartStopsItself`, `NavigationStopsRadio`, `ServedLooksForRemote`. None
of them assumes that `settleStart()`'s wait is long enough: `BuildIsAlone` says that no
build ever runs beside a start that takes its heap, and that one beside a radio that is
up or stopping is that of a paint whose wait for a start timed out; `PaintIsAlone` says
the second of paints. The invariant:

- `Base`: `TypeOK`, `LockHeld` (the render lock is held exactly while the book is
  painted), `InFlight` (the flag is up exactly while a start is there or about to be
  created) and `Going`.
- `HeapAlone` and `Reads` give `BuildRunsAlone`: unless its wait timed out, the render
  task has passed the wait for a start only when none takes the heap, and the lock it
  holds keeps the next one out; what each of the three reads of `status()` has seen is
  still true at the build, but for a radio that such a start brings up after it was read.
- `Memo` strengthens `OneRestartPerRadioUp`: a restart was wanted only if the memo was
  not spent. `HoldHasOwner` is inductive over `Base`. `Leaving` says of the screen
  change what `OffScreenRadioIsOff` says of its step.
- `Remote` gives `ServedRadioIsArmed`. The reconnect is armed once per visit, so what
  must be shown is that a visit that has armed it (`Linked`) never starts the radio a
  second time before it is rearmed. That takes what each task knows of the stack
  (`StackOwned`, `Deferred`, `Idle`, `Armed`), of the screen (`Scene`) and of the asking
  (`Asked`); `Served` is the claim and `Quiet` why such a visit, when it may ask once
  more, finds a reason not to.

`FlashSlotProofs`: `TypeCorrect`, `HeadersVouch`, `NoReadUnderErase`,
`NoFlashReaderWhileCopying`, `OwnGlyphs`, `AlwaysBoots`, `SelectsOnlyImages`,
`RunningIsSelected`. The invariant adds to `TypeOK`: `Quiet` (what is true of the locals
while the device is off or starts), `RunningIsWhole` (nothing writes the slot that
runs), `HeaderLast` (a header stands only over a payload verified since the last erase),
`FlagsHeld` (each flag is up exactly while its job needs it and no read is past the
check then), `ReadsOwnCopy` (a font that reads flash reads the copy of itself),
`ImageGrows` (an update from the card writes one validated image, block by block, and
has all of it before it touches the boot entries) and `SelectedKept`. The last
strengthens `SelectedIsAnImage`, which is not inductive: the update and the font copy
write the slot that does not run, and only that the running slot is the selected one
keeps them off an image the entries select.

`PluginOutboxProofs`: `TypeCorrect`, `NoEventIsLost`, `InOrder`, `DrainCanRead`,
`WholeFiles`, `SwapSurvivesOneMishap`, `SleepEventIsReason`. The invariant is `Base`
(`TypeOK` and where the locals point), `Bounded`, `Queues` and `Files`, and over it
`Named`, `OwedSubscribe` and `Asleep`:

- `Bounded` is `OutboxReadable` with `Roomy`: between the removal of a full outbox and
  the append there is room for one line more, because the outbox is gone or because the
  removal that failed has been counted. A drain that reads an outbox has seen that it is
  within the cap, so the count starts over.
- `Lines`: the lines of an outbox are in the order of their events, and only the
  last can lack its newline. `Tears`: a line that does is the one just appended and
  about to be cut back, unless a torn line was left behind.
- `Fresh`: the event being emitted is not owed by the plugins still to come, so
  cutting its line back takes nothing with it.
- `Ahead` strengthens `NothingLost`: an event that is owed is in the queue *past*
  the position of the walk, so rewriting the tail keeps it. With `Lines` it gives
  `NothingOvertakes`: the line just settled is older than anything still ahead.
- `Files` strengthens `DestIsWhole` and `OneMishapKeepsAFile`: at each step of the
  swap it says which of the three names holds a whole file after no mishap and
  after one.
- `Asleep` strengthens `SleepEventJoins`: who is owed the event of deep sleep subscribes
  to it by the table that is asked (`OwedSubscribe`), and the line queued for it carries
  its name (`Named`), so the walk over the outboxes comes upon it.

Lemmas on sequences (`AppendedBox`, `GluedBox`, `CutBox`, `RestOfBox`) say what the
operations on a file of lines return.

`ClippingsProofs`: `TypeCorrect`, `SavedStaysSaved`, `TextsAreOwn`, `WritingIsAtomic`
(the refinement of `AtomicFile`), `RemovedStaysRemoved`, `OneClippingOneId` and
`SyncedIsTheServer`. The invariant of the first four:

- `Base`: `TypeOK`, `Installing` (which of the three files are there at each step of
  a save, and that the new one holds what was to be written) and `InHand` (whose
  call is under way and which record it is about).
- `Placing` strengthens the first half of `OwnText`: it says the same of `undo`, the
  records to go back to, and of the records between the second rename and the moment
  their places are refreshed.
- `Keeping` strengthens `NothingLost`: what the user was told is saved is not only in
  the store but also in memory and in what a failed save would go back to, so
  whatever the next save writes, it is there.
- `Owning` gives the second half of `OwnText`: an id is drawn for one text, and record
  and item keep the two together.

The refinement needs of this only `Base`: until the second rename the abstract save
is not done, and a recovered backup is the same content.

The last three are about the card, the memory, the journal and the server together, and
rest on `Identity`, which is inductive over the invariant above:

- `Clear` strengthens `NoGhosts`: of the store, of the records in memory and of those to
  go back to, each record is `Proper` -- it has the id under which its text is known
  outside (at the server or in the journal), it is uploaded or pending, and its text is
  not gone -- and no two have one text.
- `OneId` and `OneItem` give `NoTwins`: of the ids known outside only one stands for a
  text, it was drawn here or came from the server, and the server has one item
  per id and per revision.
- `Removing` and `Buried` are what keeps the server from bringing back what is gone: the
  clipping being removed was never uploaded, or its id is in the journal; a live item of
  a text that is gone is in the journal ahead of the walk, and the journal is empty from
  the uploads on.
- `Matches`: what a reader of the card would find is what is in memory, or, until the
  second rename and after a failure, what it was before the call.
- `Walked` and `Cursor` strengthen `SyncConverges`: from the end of the uploads every
  record in memory is at the server, and from then on the live items up to the cursor
  are in memory at their revisions and the deleted ones are not. Each page moves the
  cursor over one item (`AppliedPage`); the other devices only put items beyond it
  (`ElsewhereGets`).

`LibraryIndexProofs`: `TypeCorrect`, `CardIsShown`, `MarkedAreShelved`,
`NothingBlocksABuild`, `InstallIsAtomic` (the refinement of `AtomicFile`) and
`DiscoveryKeepsOrder`. The invariant is `Base` (`TypeOK` and `Installing`, as above), `Walked` (what is staged
is exactly what the walk found, from `Reconciled`) and the three properties: a build
clears the marker only after its own index, which has every book but those passed
over, has become the shelf.

`DiscoveryKeepsOrder` is `Spec /\ []NumbersLeft => ArrivalOrder`. The counter of 16 bits
wraps, and then a book does get the number of another: the property is promised, and
true, only while there are numbers. `NumbersLeft` says that of the model: when a walk
begins, the counter is still below its end after a number for every book on the card that
the previous index does not know. In `li_safety` that is so in every state. The
invariant is `Numbered`: every index on the card gives each book one number below its
counter (`WellNumbered`), and what is staged keeps the numbers of the index it is to
replace (`Follows`), which is the backup once that is parked. `ReconciledNumbers` says
what the two passes of the reconciliation return.

`TrustedTimeProofs`: `TrustNeverEarlier` and `TrustCovers`, from `Raised`: in either
task, what `note()` is about to persist is already covered by the floor in memory.
That is why the race `tt_floor` shows, which loses a later floor in flash, is not
seen before power goes.

`PluginJobsProofs`: `TypeCorrect`, `HeldWithinLease`, `ResultsAreKept` and
`PoolIsABoard`, the refinement of `JobBoard`. The invariant:

- `Numbered`: the jobs in the pool have numbers of their own, and no claim is as high as
  the next. The refinement needs no more than this and the types.
- `Exchange`: what a page waits for goes with what it has in hand; so what it is about
  to be given, or has been, is one thing (`Given`).
- `Dates` and `GivenOnce`: what a page has was handed out in a session that has begun,
  to it alone, and was posted by nobody while it still runs.
- `Leased` strengthens `InTimeIsTaken`: the slot of a job that is held is dated by its
  claim, so no other page can find it lapsed before the lease is over.
- `Settled` says of a page that has been told a verdict what `NoResultThrownAway` says
  of its next step. It is kept because a claim is never given out again (`NeverAgain`).

Every safety invariant and every action property a passing run checks is thus a theorem,
`ArrivalOrder` under the hypothesis above. Left to TLC are the liveness properties,
because fairness and ENABLED are out of the prover's reach: `RequestedUpdateIsDrawn`,
`WaitEnds`, `NavigationIsServed`, `PaintEnds`, `StartSettles`, `UpdateStarts`,
`QueueDrains` and `JobsFinish`; and the three runs that show a violation.

## 5. What is not modelled, and why

- *Outside the repository*: the Bluetooth SDK, the card's file system, the HTTP and
  TLS libraries, FreeRTOS, the bootloader, the clipping server. They appear as external
  actions, as the code uses them.
- *Data*: EPUB parsing and layout, fonts and glyphs, images, dictionaries, ZIP and
  XML. They turn bytes into bytes, with little control that a state machine tells
  apart; the crash safety of the section cache is the exception and is planned. These,
  with vendored parsers, built-in fonts and hyphenation tables, are most of the lines
  of the repository.
- *Adapters and plain screens*: `SdkRadio.cpp`, input, theme and settings screens.
- *Not yet*: the parts of the plan below, and of `ClippingStore.cpp` the moving of a
  book or a folder with its stores (`moveBook()`), which renames one file after
  another and rolls back by hand.

## 6. Plan

In the order of how much can go wrong in them:

1. `KeyBinding` -- `BleKeyBinding.h` as operators on a table of keys, against a
   reference definition (a map from usage codes to actions): learning, replacing
   and forgetting keep one action per key, and what is saved is what is loaded.
2. `PowerLock` -- `HalPowerManager`'s single lock on the clock and deep sleep, with the
   callers of the main loop and the radio; it then takes the place of `holdsCpu` in
   `PageTurner`.
3. `PersistedStore` -- load, migrate and save of the JSON stores, `BookProgress` and
   bookmarks, with power loss between the steps of a save; `AtomicFile` again, where
   it holds.
4. `BookMove` -- `moveBook()` with its check, move and rollback over a tree.
5. `WebUpload` -- the upload state machine of the web server (HTTP and WebSocket) and
   WebDAV against the screens that own the card.
6. `Boot` -- wake reasons, boot modes, the silent restart and its memo; composes
   `ActivityManager` and `PageTurner` at the screen change, replacing
   `RadioOutOfTheWay` and `Navigate` by each other.

Abstract specifications to be implemented by what is there: `PluginOutbox` as a
queue per plugin that loses nothing (owed events as its state), `FlashSlot` as a slot
that is empty, a copy or an image, the swap of a download as `AtomicFile` under one
mishap.

Theorems to come: that `PluginOutbox`, `FlashSlot` and the swap implement those
specifications, once they are there.

## 7. Running

In this directory, `tlc -config PoSafety.cfg PluginOutboxMC` checks a run
(`PROJECT.json`, "runs", names the module and configuration of each) and
`tlapm PluginOutboxProofs.tla` a module of proofs. The runs take from seconds to a
few minutes on two workers, the proofs a few minutes each.
