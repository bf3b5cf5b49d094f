------------------------------ MODULE PageTurner ------------------------------
(***************************************************************************)
(* The Bluetooth page turner's runtime (lib/BlePageTurner/src/Runtime.cpp)  *)
(* with the host that drives it (main.cpp, EpubReaderActivity.cpp).        *)
(*                                                                         *)
(* Three tasks share it.  The MAIN task calls tick() once per pass, decides *)
(* when the radio starts, and stops it before a screen changes.  The START  *)
(* task brings the stack up (beginOwned) and first frees the font caches,   *)
(* for which it only TRIES the render lock.  The RENDER task holds that     *)
(* lock while it paints the book: before a paint it lets a start settle,    *)
(* and before a chapter build it stops the radio itself.                   *)
(*                                                                         *)
(* The radio stack is external (the SDK): off, up or stopping; a stop is    *)
(* asked for by end() and finished by a later end().  What the heap allows, *)
(* what the user does and which timeouts have passed are choices.  A remote *)
(* has been chosen (Config::peerAddr).                                     *)
(***************************************************************************)
EXTENDS Integers

CONSTANTS
  Screens,        \* the screens that come in front
  Profiles,       \* the builds: TRUE for the S3 profile, see homeStart
  Verdicts,       \* what the heap may answer to a start
  Refusals,       \* kRefusalsBeforeRestart
  RetryLimit,     \* kRetryLimit
  MaxVisit,       \* bound: screen changes
  MaxBuilds       \* bound: chapter builds in render()

ASSUME ScreensAssumption ==
  "Reader" \in Screens /\ Screens \subseteq {"Reader", "Menu", "Panel", "Home", "Settings", "Usb"}
ASSUME VerdictsAssumption == Verdicts \subseteq {"Ok", "HeapLow", "HeapInPieces"}
ASSUME ProfileAssumption == Profiles \subseteq BOOLEAN
ASSUME NumbersAssumption ==
  Refusals \in Nat /\ RetryLimit \in Nat /\ MaxVisit \in Nat /\ MaxBuilds \in Nat

VARIABLES
  homeStart,               \* S3 profile: the radio may start at Home and is kept for the book
  screen, visit, leaving,  \* what is in front, its visit, where a pending navigation goes
  shown,                   \* the screen in front takes remote input or has painted
  enabled, connectRequested,
  attemptInFlight, attemptCancelled, buildWaiting, readerStartDeferred,
  radioIdleStopped, rearmRequested, heldForBuild,
  book,                    \* struct Visit
  heapTracker,             \* struct Tracker; spent is the memo in RTC memory
  radio, connected, armed, \* the stack, its link, and whether it looks for the bonded remote
  holdsCpu,
  mainPc, lastScene,
  startPc, startOk, inSync, startFromHome,
  renderPc, renderLock, asked, radioReleasedForBuild, building, builds,
  outlasted,               \* history: a start outlasted the 3 s this paint waited for it
  restarts                 \* history: restarts for the heap since the radio last came up

sceneVars == <<homeStart, screen, visit, leaving, shown, enabled, connectRequested>>
stackVars == <<radio, connected, armed, holdsCpu>>
policyVars == <<book, heapTracker, restarts>>
mainVars == <<mainPc, lastScene>>
startVars == <<startPc, startOk, inSync, startFromHome>>
lockVars == <<renderPc, renderLock>>
buildVars == <<asked, radioReleasedForBuild, building, builds, outlasted>>
flagVars == <<attemptInFlight, attemptCancelled, buildWaiting, readerStartDeferred,
              radioIdleStopped, rearmRequested, heldForBuild>>
vars == <<sceneVars, stackVars, policyVars, mainVars, startVars, lockVars, buildVars, flagVars>>

BookOpen(s) == s \in {"Reader", "Menu", "Panel"}
Where == IF leaving # "none" \/ ~shown THEN "Elsewhere"
         ELSE IF screen \in {"Reader", "Menu"} THEN "Reader"
         ELSE IF screen = "Home" THEN "Home" ELSE "Elsewhere"

Up == radio = "up"
TakesHeap == startPc \in {"heap", "begin", "starting", "after"}
Busy == attemptInFlight \/ radio # "off"
HoldsHeap == enabled /\ (Busy \/ readerStartDeferred)

NewVisit(id) == [id |-> id, attempted |-> FALSE, reconnectArmed |-> FALSE,
                 manualConnect |-> FALSE, retries |-> 0]
TrackerWithoutMemo(spent) == [fragmentedInRow |-> 0, wanted |-> FALSE, spent |-> FALSE]
NewTracker(spent) == [fragmentedInRow |-> 0, wanted |-> FALSE, spent |-> spent]

Visits == [id : 0..MaxVisit, attempted : BOOLEAN, reconnectArmed : BOOLEAN,
           manualConnect : BOOLEAN, retries : 0..RetryLimit]
Trackers == [fragmentedInRow : 0..Refusals, wanted : BOOLEAN, spent : BOOLEAN]

StateOK ==
  /\ homeStart \in Profiles
  /\ screen \in Screens /\ visit \in 0..MaxVisit /\ leaving \in Screens \cup {"none"}
  /\ book \in Visits /\ heapTracker \in Trackers
  /\ radio \in {"off", "up", "stopping"}
  /\ mainPc \in {"tick", "decide", "claim", "spawn", "serve", "note", "loop", "input",
                 "navigate", "leave", "switchOn", "sync"}
  /\ lastScene \in {"Reader", "Home", "Elsewhere"}
  /\ startPc \in {"none", "check", "lock", "heap", "begin", "starting", "after", "finish"}
  /\ renderPc \in {"idle", "settle", "paint", "ask", "settleBuild", "hold", "cancel", "end",
                   "unhold", "stopRetry", "readRunning", "readStopping", "readStarting",
                   "nap", "build"}
  /\ renderLock \in {"free", "render"}
  /\ builds \in 0..MaxBuilds /\ restarts \in Nat

FlagsOK ==
  {shown, enabled, connectRequested, attemptInFlight, attemptCancelled, buildWaiting,
   readerStartDeferred, radioIdleStopped, rearmRequested, heldForBuild, connected, armed,
   holdsCpu, startOk, inSync, startFromHome, asked, radioReleasedForBuild, building, outlasted}
  \subseteq BOOLEAN

TypeOK == StateOK /\ FlagsOK

-----------------------------------------------------------------------------
Init ==
  /\ homeStart \in Profiles
  /\ screen \in Screens \cap {"Reader", "Home"} /\ visit = 0 /\ leaving = "none"
  /\ shown = FALSE /\ enabled = TRUE /\ connectRequested = FALSE
  /\ attemptInFlight = FALSE /\ attemptCancelled = FALSE /\ buildWaiting = FALSE
  /\ readerStartDeferred = FALSE /\ radioIdleStopped = FALSE
  /\ rearmRequested = FALSE /\ heldForBuild = FALSE
  /\ book = NewVisit(0) /\ heapTracker = NewTracker(FALSE)
  /\ radio = "off" /\ connected = FALSE /\ armed = FALSE /\ holdsCpu = FALSE
  /\ mainPc = "tick" /\ lastScene = "Elsewhere"
  /\ startPc = "none" /\ startOk = FALSE /\ inSync = FALSE /\ startFromHome = FALSE
  /\ renderPc = "idle" /\ renderLock = "free" /\ asked = FALSE
  /\ radioReleasedForBuild = FALSE /\ building = FALSE /\ builds = 0
  /\ outlasted = FALSE
  /\ restarts = 0

-----------------------------------------------------------------------------
(* detail::suspend() on the main task; ok is what it returns.  A start in   *)
(* flight is only cancelled: its task owns its allocations.                *)
SuspendDuringStart(ok) ==
  /\ attemptCancelled' = TRUE
  /\ radio' \in IF radio = "off" THEN {"off"} ELSE {"off", "stopping"}
  /\ ok = (radio' = "off") /\ holdsCpu' = ~ok
  /\ connected' = FALSE /\ armed' = FALSE

Suspend(ok) ==
  /\ attemptCancelled' = TRUE
  /\ IF attemptInFlight
     THEN ~ok /\ UNCHANGED stackVars
     ELSE /\ radio' \in IF radio = "off" THEN {"off"} ELSE {"off", "stopping"}
          /\ ok = (radio' = "off") /\ holdsCpu' = ~ok
          /\ connected' = FALSE /\ armed' = FALSE

(* A visit asked to start over: its one start, its reconnect, its retries.  *)
RearmedButReconnect(b) == [b EXCEPT !.attempted = FALSE, !.retries = 0]
Rearmed(b) == [b EXCEPT !.attempted = FALSE, !.reconnectArmed = FALSE, !.retries = 0]

RearmWanted(isEntered, requested, buildPainted) ==
  isEntered \/ requested \/ (buildPainted /\ ~radioIdleStopped)

(* tick() up to the first verdict: finish a stop, stop for a taken card,    *)
(* start a new visit over, and take up what was asked since the last tick.  *)
EnterVisit ==
  LET reader == Where = "Reader"
      isEntered == reader /\ (lastScene # "Reader" \/ visit # book.id)
      over == ~(reader \/ (Where = "Home" /\ homeStart)) \/ ~enabled \/ visit # book.id
      rearm == reader /\ enabled /\ RearmWanted(isEntered, connectRequested, rearmRequested)
      again == rearm /\ ~attemptInFlight /\ radio' # "up"
      manual == connectRequested /\ reader /\ enabled
      kept == IF over THEN NewVisit(visit) ELSE book
      asking == IF again THEN Rearmed(kept) ELSE kept
  IN /\ lastScene' = Where
     /\ heldForBuild' = (heldForBuild /\ visit = book.id)
     /\ book' = [asking EXCEPT !.manualConnect = @ \/ (manual /\ ~connected')]
     /\ radioIdleStopped' = (radioIdleStopped /\ ~rearm)
     /\ readerStartDeferred' = (readerStartDeferred /\ ~again)
     /\ rearmRequested' = FALSE /\ connectRequested' = FALSE

TickEnter ==
  /\ mainPc = "tick" /\ mainPc' = "decide"
  /\ \/ (radio = "stopping" \/ screen = "Usb") /\ \E ok \in BOOLEAN : Suspend(ok)
     \/ screen # "Usb" /\ UNCHANGED <<attemptCancelled, stackVars>>
  /\ EnterVisit
  /\ UNCHANGED <<homeStart, screen, visit, leaving, shown, enabled, attemptInFlight, buildWaiting,
                 heapTracker, restarts, startVars, lockVars, buildVars>>

(* Phase::Running with a fresh idle clock: only the switch and the card.    *)
MustStop == ~enabled \/ screen = "Usb"
(* Phase::Idle: may this visit ask for the radio?                          *)
MayStart ==
  \/ lastScene = "Reader" /\ ~heldForBuild /\ ~radioIdleStopped
  \/ lastScene = "Home" /\ homeStart /\ ~radioIdleStopped

TickStops ==
  /\ mainPc = "decide" /\ MustStop /\ mainPc' = "note"
  /\ \E ok \in BOOLEAN : Suspend(ok)
  /\ UNCHANGED <<sceneVars, policyVars, lastScene, startVars, lockVars, buildVars,
                 attemptInFlight, buildWaiting, readerStartDeferred, radioIdleStopped,
                 rearmRequested, heldForBuild>>

RetryOpen ==
  /\ lastScene = "Reader" /\ book.attempted /\ readerStartDeferred /\ ~Up
  /\ ~attemptInFlight /\ ~radioIdleStopped /\ book.retries < RetryLimit

(* The retry after a refusal (its 5 s may or may not have passed), then the *)
(* one question of this visit.                                             *)
TickAsks ==
  /\ mainPc = "decide" /\ ~MustStop
  /\ \E due \in BOOLEAN :
       LET retry == due /\ RetryOpen
           asks == (~book.attempted \/ retry) /\ radio # "stopping" /\ MayStart
       IN /\ book' = [book EXCEPT !.attempted = (@ /\ ~retry) \/ asks,
                                  !.retries = IF retry THEN @ + 1
                                              ELSE IF Up THEN 0 ELSE @]
          /\ mainPc' = IF asks /\ ~Up THEN "claim" ELSE "serve"
  /\ UNCHANGED <<sceneVars, stackVars, heapTracker, restarts,
                 lastScene, startVars, lockVars, buildVars, flagVars>>

(* startAsync(): one start at a time.  Its task may not be created for want *)
(* of memory, and the start has then failed.                               *)
TickClaims ==
  /\ mainPc = "claim"
  /\ startFromHome' = (lastScene = "Home") /\ radioIdleStopped' = FALSE
  /\ attemptInFlight' = TRUE /\ readerStartDeferred' = attemptInFlight
  /\ mainPc' = IF attemptInFlight THEN "serve" ELSE "spawn"
  /\ UNCHANGED <<sceneVars, stackVars, policyVars, lastScene, startPc, startOk, inSync,
                 lockVars, buildVars, attemptCancelled, buildWaiting, rearmRequested,
                 heldForBuild>>

TickSpawns ==
  /\ mainPc = "spawn" /\ mainPc' = "serve"
  /\ IF radio # "off"
     THEN /\ attemptInFlight' = FALSE /\ readerStartDeferred' = (readerStartDeferred \/ ~Up)
          /\ UNCHANGED <<attemptCancelled, holdsCpu, startPc>>
     ELSE /\ attemptCancelled' = FALSE /\ attemptInFlight' \in BOOLEAN
          /\ holdsCpu' = attemptInFlight'
          /\ startPc' = IF attemptInFlight' THEN "check" ELSE "none"
          /\ readerStartDeferred' = (readerStartDeferred \/ ~attemptInFlight')
  /\ UNCHANGED <<sceneVars, radio, connected, armed, policyVars, lastScene, startOk,
                 inSync, startFromHome, lockVars, buildVars, buildWaiting, radioIdleStopped,
                 rearmRequested, heldForBuild>>

(* Nothing connected for 30 s: the radio stops for idleness.               *)
TickStopsIdle ==
  /\ mainPc = "serve" /\ ~attemptInFlight /\ Up /\ ~connected /\ mainPc' = "note"
  /\ radioIdleStopped' = TRUE /\ readerStartDeferred' = FALSE
  /\ \E ok \in BOOLEAN : Suspend(ok)
  /\ UNCHANGED <<sceneVars, policyVars, lastScene, startVars, lockVars, buildVars,
                 attemptInFlight, buildWaiting, rearmRequested, heldForBuild>>

(* serveReader(), or Home with the radio up: the bonded reconnect is armed  *)
(* once per visit, and the remote's queues are drained.                    *)
TickServes ==
  LET serves == ~attemptInFlight /\ Up /\ lastScene # "Elsewhere"
                /\ (lastScene = "Home" => homeStart)
  IN /\ mainPc = "serve" /\ mainPc' = "note"
     /\ readerStartDeferred' = (readerStartDeferred /\ ~(serves /\ lastScene = "Reader"))
     /\ armed' = (armed \/ (serves /\ ~book.reconnectArmed))
     /\ book' = [book EXCEPT !.reconnectArmed = @ \/ serves]
     /\ UNCHANGED <<sceneVars, radio, connected, holdsCpu, heapTracker,
                    restarts, lastScene, startVars, lockVars, buildVars,
                    attemptInFlight, attemptCancelled, buildWaiting, radioIdleStopped,
                    rearmRequested, heldForBuild>>

(* A heap in pieces keeps the radio off until a restart, which waits for a  *)
(* page that is shown and for any start to end.                            *)
RestartDue ==
  /\ heapTracker.wanted /\ ~book.manualConnect /\ enabled /\ book.attempted
  /\ lastScene = "Reader" /\ ~Busy

TickEnds ==
  /\ mainPc = "note" /\ ~RestartDue /\ mainPc' = "loop"
  /\ UNCHANGED <<sceneVars, stackVars, policyVars, lastScene, startVars, lockVars, buildVars,
                 flagVars>>

(* restartIntoBook(): ESP.restart; only the settings and the RTC memo stay. *)
RestartIntoBook ==
  /\ mainPc = "note" /\ RestartDue
  /\ heapTracker' = NewTracker(TRUE) /\ restarts' = restarts + 1
  /\ screen' = "Reader" /\ visit' = 0 /\ leaving' = "none" /\ shown' = FALSE
  /\ connectRequested' = FALSE
  /\ attemptInFlight' = FALSE /\ attemptCancelled' = FALSE /\ buildWaiting' = FALSE
  /\ readerStartDeferred' = FALSE /\ radioIdleStopped' = FALSE
  /\ rearmRequested' = FALSE /\ heldForBuild' = FALSE
  /\ book' = NewVisit(0)
  /\ radio' = "off" /\ connected' = FALSE /\ armed' = FALSE /\ holdsCpu' = FALSE
  /\ mainPc' = "tick" /\ lastScene' = "Elsewhere"
  /\ startPc' = "none" /\ startOk' = FALSE /\ inSync' = FALSE /\ startFromHome' = FALSE
  /\ renderPc' = "idle" /\ renderLock' = "free" /\ asked' = FALSE
  /\ radioReleasedForBuild' = FALSE /\ building' = FALSE /\ outlasted' = FALSE
  /\ UNCHANGED <<homeStart, enabled, builds>>

-----------------------------------------------------------------------------
(* The rest of the main loop's pass: the screen's loop(), what the user     *)
(* does there, and the navigation it asks for.                             *)
LockFree == renderLock = "free"

(* EpubReaderActivity::loop(): the page of a build is on screen and no      *)
(* parser is left alive: the radio may start again (afterPaint).           *)
ReleaseHold ==
  /\ mainPc = "loop" /\ screen = "Reader" /\ mainPc' = "input"
  /\ radioReleasedForBuild /\ LockFree /\ ~building
  /\ radioReleasedForBuild' = FALSE
  /\ heldForBuild' = FALSE /\ rearmRequested' = (rearmRequested \/ heldForBuild)
  /\ UNCHANGED <<sceneVars, stackVars, policyVars, lastScene, startVars, lockVars,
                 asked, building, builds, outlasted, attemptInFlight, attemptCancelled, buildWaiting,
                 readerStartDeferred, radioIdleStopped>>

(* backgroundBuildTick(): the chapter is built on, to its end or not yet.   *)
BackgroundBuild ==
  /\ mainPc = "loop" /\ screen = "Reader" /\ mainPc' = "input"
  /\ building /\ LockFree /\ ~HoldsHeap /\ building' = FALSE
  /\ UNCHANGED <<sceneVars, stackVars, policyVars, lastScene, startVars, lockVars,
                 asked, radioReleasedForBuild, builds, outlasted, flagVars>>

LoopPass ==
  /\ mainPc = "loop" /\ mainPc' = "input"
  /\ ~(screen = "Reader" /\ radioReleasedForBuild /\ LockFree /\ ~building)
  /\ UNCHANGED <<sceneVars, stackVars, policyVars, lastScene, startVars, lockVars,
                 buildVars, flagVars>>

Ways == {<<"Reader", "Menu">>, <<"Reader", "Panel">>, <<"Reader", "Home">>,
         <<"Menu", "Reader">>, <<"Menu", "Home">>, <<"Panel", "Reader">>,
         <<"Home", "Reader">>, <<"Home", "Settings">>, <<"Home", "Usb">>,
         <<"Settings", "Home">>}

(* Opening the menu drops a build the heap gate has paused.                *)
AskToLeave ==
  /\ mainPc = "input" /\ leaving = "none" /\ visit < MaxVisit /\ mainPc' = "navigate"
  /\ leaving' \in {s \in Screens : <<screen, s>> \in Ways}
  /\ (BookOpen(screen) /\ BookOpen(leaving')) => shown
  /\ \/ UNCHANGED building
     \/ leaving' = "Menu" /\ LockFree /\ building' = FALSE
  /\ UNCHANGED <<homeStart, screen, visit, shown, enabled, connectRequested, stackVars, policyVars,
                 lastScene, startVars, lockVars, asked, radioReleasedForBuild, builds,
                 outlasted, flagVars>>

NoInput ==
  /\ mainPc = "input" /\ mainPc' = "navigate"
  /\ UNCHANGED <<sceneVars, stackVars, policyVars, lastScene, startVars, lockVars,
                 buildVars, flagVars>>

(* The Bluetooth switch: off stops the radio (switchOff).  On asks for it   *)
(* in the reader's menu (requestConnect), starts it at once in the settings *)
(* (switchOn), and is left to tick() in the control panel.                 *)
ToggleOff ==
  /\ mainPc = "input" /\ screen \in {"Menu", "Panel", "Settings"} /\ enabled
  /\ enabled' = FALSE /\ mainPc' = "navigate"
  /\ radioIdleStopped' = FALSE /\ readerStartDeferred' = FALSE
  /\ \E ok \in BOOLEAN : Suspend(ok)
  /\ UNCHANGED <<homeStart, screen, visit, leaving, shown, connectRequested, policyVars, lastScene,
                 startVars, lockVars, buildVars, attemptInFlight, buildWaiting, rearmRequested,
                 heldForBuild>>

ToggleOn ==
  /\ mainPc = "input" /\ screen \in {"Menu", "Panel", "Settings"} /\ ~enabled
  /\ enabled' = TRUE
  /\ connectRequested' = (connectRequested \/ screen = "Menu")
  /\ mainPc' = IF screen = "Settings" THEN "switchOn" ELSE "navigate"
  /\ UNCHANGED <<homeStart, screen, visit, leaving, shown, stackVars, policyVars, lastScene,
                 startVars, lockVars, buildVars, flagVars>>

(* startSync(): the start runs on the main task, which waits for its end.   *)
SwitchOn ==
  /\ mainPc = "switchOn"
  /\ startFromHome' = FALSE /\ radioIdleStopped' = FALSE /\ readerStartDeferred' = FALSE
  /\ IF attemptInFlight
     THEN /\ mainPc' = "navigate"
          /\ UNCHANGED <<attemptInFlight, attemptCancelled, holdsCpu, startPc, inSync>>
     ELSE /\ mainPc' = "sync" /\ attemptInFlight' = TRUE /\ attemptCancelled' = FALSE
          /\ holdsCpu' = TRUE /\ startPc' = "check" /\ inSync' = TRUE
  /\ UNCHANGED <<sceneVars, radio, connected, armed, policyVars, lastScene, startOk,
                 lockVars, buildVars, buildWaiting, rearmRequested, heldForBuild>>

SwitchOnReturns ==
  /\ mainPc = "sync" /\ startPc = "none" /\ mainPc' = "navigate"
  /\ UNCHANGED <<sceneVars, stackVars, policyVars, lastScene, startVars, lockVars,
                 buildVars, flagVars>>

KeepsRadioForAny == homeStart /\ enabled /\ Up /\ ~attemptInFlight
KeepsRadio == leaving = "Reader" /\ homeStart /\ enabled /\ Up /\ ~attemptInFlight

(* beforeScreenChange(): a radio still stopping, or a start still in flight,*)
(* holds the navigation up until a later pass.                             *)
Navigate ==
  /\ mainPc = "navigate"
  /\ \/ leaving = "none" /\ mainPc' = "tick" /\ UNCHANGED <<attemptCancelled, stackVars>>
     \/ /\ leaving # "none" /\ KeepsRadio /\ mainPc' = "leave"
        /\ UNCHANGED <<attemptCancelled, stackVars>>
     \/ /\ leaving # "none" /\ ~KeepsRadio
        /\ \E ok \in BOOLEAN : Suspend(ok) /\ mainPc' = IF ok THEN "leave" ELSE "tick"
  /\ UNCHANGED <<sceneVars, policyVars, lastScene, startVars, lockVars, buildVars,
                 attemptInFlight, buildWaiting, readerStartDeferred, radioIdleStopped,
                 rearmRequested, heldForBuild>>

(* ~EpubReaderActivity(): a book that is closed gives its build hold back;  *)
(* one below a menu keeps it.                                              *)
BookCloses == BookOpen(screen) /\ ~BookOpen(leaving)
HoldGivenBack == BookCloses /\ radioReleasedForBuild

(* The transition, under the render lock.                                  *)
LeaveScreen ==
  /\ mainPc = "leave" /\ LockFree
  /\ screen' = leaving /\ visit' = visit + 1 /\ leaving' = "none"
  /\ shown' = (screen \in {"Menu", "Panel"} /\ leaving = "Reader")
  /\ mainPc' = IF leaving = "Settings" /\ enabled THEN "switchOn" ELSE "tick"
  /\ heldForBuild' = (heldForBuild /\ ~HoldGivenBack)
  /\ rearmRequested' = (rearmRequested \/ (HoldGivenBack /\ heldForBuild))
  /\ radioReleasedForBuild' = (radioReleasedForBuild /\ ~BookCloses)
  /\ building' = (building /\ ~BookCloses)
  /\ UNCHANGED <<homeStart, enabled, connectRequested, stackVars, policyVars, lastScene,
                 startVars, asked, builds, outlasted, lockVars, attemptInFlight, attemptCancelled,
                 buildWaiting, readerStartDeferred, radioIdleStopped>>

-----------------------------------------------------------------------------
(* The start task (startTask), or the main task inside startSync().        *)
Refused(why) ==
  LET row == IF why # "HeapInPieces" THEN 0
             ELSE IF heapTracker.fragmentedInRow < Refusals
                  THEN heapTracker.fragmentedInRow + 1 ELSE Refusals
      due == why = "HeapInPieces" /\ row >= Refusals /\ ~heapTracker.spent
  IN heapTracker' = [heapTracker EXCEPT !.fragmentedInRow = row,
                       !.wanted = due \/ (@ /\ why = "HeapInPieces")]
Inconclusive == heapTracker' = [heapTracker EXCEPT !.fragmentedInRow = 0, !.wanted = FALSE]

startElse == <<sceneVars, connected, armed, holdsCpu, book, mainVars, inSync,
               startFromHome, lockVars, buildVars, flagVars>>

StartCheck ==
  /\ startPc = "check"
  /\ startPc' = IF attemptCancelled \/ radio # "off" THEN "finish" ELSE "lock"
  /\ startOk' = (~attemptCancelled /\ Up)
  /\ UNCHANGED <<startElse, radio, heapTracker, restarts>>

(* StartTriesLock without the turn it gives up.                            *)
StartWaitsForLock ==
  /\ startPc = "lock"
  /\ \/ LockFree /\ startPc' = "heap"
     \/ ~LockFree /\ attemptCancelled /\ startPc' = "finish"
  /\ UNCHANGED <<startElse, radio, startOk, heapTracker, restarts>>

(* releaseCaches(): the render lock is tried, every 10 ms; a start that a   *)
(* paint or a build waits for gives up its turn.                           *)
StartTriesLock ==
  /\ startPc = "lock"
  /\ \/ LockFree /\ startPc' = "heap"
     \/ ~LockFree /\ (attemptCancelled \/ buildWaiting) /\ startPc' = "finish"
  /\ UNCHANGED <<startElse, radio, startOk, heapTracker, restarts>>

(* A start at Home is refused as short of heap, never as in pieces.        *)
StartHeapCheck ==
  /\ startPc = "heap"
  /\ \E why \in Verdicts \cup {"Ok"} :
       /\ startFromHome => why # "HeapInPieces"
       /\ IF why = "Ok" THEN startPc' = "begin" /\ UNCHANGED heapTracker
          ELSE startPc' = "finish" /\ Refused(why)
  /\ UNCHANGED <<startElse, radio, startOk, restarts>>

StartBegins ==
  /\ startPc = "begin"
  /\ \/ ~attemptCancelled /\ startPc' = "starting" /\ UNCHANGED heapTracker
     \/ attemptCancelled /\ startPc' = "finish" /\ Inconclusive
  /\ UNCHANGED <<startElse, radio, startOk, restarts>>

StackComesUp ==
  /\ startPc = "starting"
  /\ \/ radio' = "up" /\ startPc' = "after" /\ UNCHANGED heapTracker
     \/ startPc' = "finish" /\ Inconclusive /\ UNCHANGED radio
  /\ UNCHANGED <<startElse, startOk, restarts>>

(* The stack is up: kept, or rolled back (cancelled, or a heap in pieces).  *)
StartKept ==
  /\ startPc = "after" /\ ~attemptCancelled
  /\ startOk' = TRUE /\ startPc' = "finish"
  /\ heapTracker' = NewTracker(FALSE) /\ restarts' = 0
  /\ UNCHANGED <<startElse, radio>>

StartRolledBack ==
  /\ startPc = "after" /\ startPc' = "finish" /\ radio' \in {"off", "stopping"}
  /\ \/ attemptCancelled /\ Inconclusive
     \/ /\ ~attemptCancelled /\ "HeapInPieces" \in Verdicts
        /\ Refused("HeapInPieces")
  /\ UNCHANGED <<startElse, startOk, restarts>>

(* finishAttempt(): the flag that a start is in flight is cleared last.     *)
StartFinishes ==
  /\ startPc = "finish" /\ startPc' = "none"
  /\ readerStartDeferred' = IF inSync THEN readerStartDeferred ELSE ~startOk /\ ~attemptCancelled
  /\ holdsCpu' = (holdsCpu /\ radio # "off")
  /\ attemptInFlight' = FALSE /\ inSync' = FALSE /\ startOk' = FALSE
  /\ UNCHANGED <<sceneVars, radio, connected, armed, policyVars, mainVars, startFromHome,
                 lockVars, buildVars, attemptCancelled, buildWaiting, radioIdleStopped,
                 rearmRequested, heldForBuild>>

-----------------------------------------------------------------------------
(* The render task: renderBook() under the render lock.                    *)
renderElse == <<sceneVars, policyVars, mainVars, startVars>>
flagsElse == <<attemptInFlight, radioIdleStopped, rearmRequested>>

RenderOther ==
  /\ renderPc = "idle" /\ LockFree /\ screen # "Reader" /\ ~shown /\ shown' = TRUE
  /\ UNCHANGED <<homeStart, screen, visit, leaving, enabled, connectRequested, stackVars, policyVars,
                 mainVars, startVars, lockVars, buildVars, flagVars>>

(* settleStart() before the paint.                                         *)
RenderBook ==
  /\ renderPc = "idle" /\ LockFree /\ screen = "Reader" /\ renderLock' = "render"
  /\ buildWaiting' = attemptInFlight
  /\ renderPc' = IF attemptInFlight THEN "settle" ELSE "paint"
  /\ outlasted' = FALSE
  /\ UNCHANGED <<renderElse, stackVars, asked, radioReleasedForBuild, building, builds,
                 flagsElse, attemptCancelled, readerStartDeferred, heldForBuild>>

(* settleStart() returns: the start has ended, or its 3 s have passed.      *)
SettleEnds ==
  /\ renderPc \in {"settle", "settleBuild"} /\ buildWaiting' = FALSE
  /\ renderPc' = IF renderPc = "settle" THEN "paint" ELSE "hold"
  /\ UNCHANGED <<renderElse, renderLock, stackVars, asked, radioReleasedForBuild, building,
                 builds, flagsElse, attemptCancelled, readerStartDeferred, heldForBuild>>

StartSettled == ~attemptInFlight /\ SettleEnds /\ UNCHANGED outlasted
SettleTimedOut == attemptInFlight /\ SettleEnds /\ outlasted' = TRUE

PagePainted ==
  /\ renderPc = "paint" /\ renderPc' = "idle" /\ renderLock' = "free" /\ shown' = TRUE
  /\ UNCHANGED <<homeStart, screen, visit, leaving, enabled, connectRequested, stackVars, policyVars,
                 mainVars, startVars, buildVars, flagVars>>

PageNeedsBuild ==
  /\ renderPc = "paint" /\ builds < MaxBuilds /\ builds' = builds + 1
  /\ renderPc' = "ask" /\ asked' = FALSE
  /\ UNCHANGED <<renderElse, renderLock, stackVars, radioReleasedForBuild, building, outlasted,
                 flagVars>>

(* makeRoomForChapterBuild(): the first ask stops the radio; a later one    *)
(* asks again only once a start that was still settling has ended.         *)
AsksAgain == ~radioReleasedForBuild /\ (~asked \/ ~attemptInFlight)
NotHeld == ~enabled \/ radioIdleStopped \/ heldForBuild

AskForRoom ==
  /\ renderPc = "ask" /\ asked' = TRUE
  /\ renderPc' = IF ~AsksAgain \/ NotHeld THEN "readRunning"
                 ELSE IF attemptInFlight THEN "settleBuild" ELSE "hold"
  /\ buildWaiting' = (renderPc' = "settleBuild")
  /\ UNCHANGED <<renderElse, renderLock, stackVars, radioReleasedForBuild, building, builds,
                 outlasted, flagsElse, attemptCancelled, readerStartDeferred, heldForBuild>>

HoldForBuild ==
  /\ renderPc = "hold"
  /\ IF attemptInFlight
     THEN renderPc' = "readRunning" /\ UNCHANGED <<heldForBuild, readerStartDeferred, outlasted>>
     ELSE /\ renderPc' = "cancel" /\ heldForBuild' = TRUE /\ readerStartDeferred' = FALSE
          /\ outlasted' = FALSE
  /\ UNCHANGED <<renderElse, renderLock, stackVars, asked, radioReleasedForBuild, building,
                 builds, flagsElse, attemptCancelled, buildWaiting>>

(* detail::suspend() on the render task, one shared access at a time.      *)
RenderCancels ==
  /\ renderPc = "cancel" /\ attemptCancelled' = TRUE
  /\ renderPc' = IF attemptInFlight THEN "stopRetry" ELSE "end"
  /\ UNCHANGED <<renderElse, renderLock, stackVars, buildVars, flagsElse, buildWaiting,
                 readerStartDeferred, heldForBuild>>

RenderEnds ==
  /\ renderPc = "end"
  /\ \/ radio = "off" /\ renderPc' = "unhold" /\ UNCHANGED stackVars
     \/ /\ radio # "off" /\ radio' \in {"off", "stopping"} /\ holdsCpu' = TRUE
        /\ connected' = FALSE /\ armed' = FALSE
        /\ renderPc' = IF radio' = "off" THEN "unhold" ELSE "stopRetry"
  /\ UNCHANGED <<renderElse, renderLock, buildVars, flagVars>>

RadioReleased ==
  /\ renderPc = "unhold" /\ renderPc' = "readRunning"
  /\ holdsCpu' = FALSE /\ radioReleasedForBuild' = TRUE
  /\ UNCHANGED <<renderElse, renderLock, radio, connected, armed, asked, building, builds,
                 outlasted, flagVars>>

(* The stop is asked for again, every 20 ms, until its 3 s have passed.     *)
RetryStop ==
  /\ renderPc = "stopRetry" /\ renderPc' = "cancel"
  /\ UNCHANGED <<renderElse, renderLock, stackVars, buildVars, flagVars>>

StopTimedOut ==
  /\ renderPc = "stopRetry" /\ renderPc' = "readRunning" /\ radioReleasedForBuild' = TRUE
  /\ UNCHANGED <<renderElse, renderLock, stackVars, asked, building, builds, outlasted, flagVars>>

(* ReadStatus that takes a stop under way for a radio that is off.          *)
ReadStatusIgnoringStop ==
  /\ \/ renderPc = "readRunning" /\ renderPc' = IF Up THEN "nap" ELSE "readStarting"
     \/ renderPc = "readStarting" /\ renderPc' = IF attemptInFlight THEN "nap" ELSE "build"
  /\ UNCHANGED <<renderElse, renderLock, stackVars, buildVars, flagVars>>

(* chapterBuildMayRun(status()): three reads, one after the other.         *)
ReadStatus ==
  /\ \/ renderPc = "readRunning" /\ renderPc' = IF Up THEN "nap" ELSE "readStopping"
     \/ renderPc = "readStopping"
        /\ renderPc' = IF radio = "stopping" THEN "nap" ELSE "readStarting"
     \/ renderPc = "readStarting" /\ renderPc' = IF attemptInFlight THEN "nap" ELSE "build"
  /\ UNCHANGED <<renderElse, renderLock, stackVars, buildVars, flagVars>>

AskAgain ==
  /\ renderPc = "nap" /\ renderPc' = "ask"
  /\ UNCHANGED <<renderElse, renderLock, stackVars, buildVars, flagVars>>

(* 5 s without room: the section is dropped and an error is shown.         *)
BuildRefused ==
  /\ renderPc = "nap" /\ renderPc' = "idle" /\ renderLock' = "free" /\ building' = FALSE
  /\ UNCHANGED <<renderElse, stackVars, asked, radioReleasedForBuild, builds, outlasted, flagVars>>

(* The page is built, the chapter to its end or not yet, and painted.      *)
ChapterBuilt ==
  /\ renderPc = "build" /\ renderPc' = "idle" /\ renderLock' = "free"
  /\ building' \in BOOLEAN /\ shown' = TRUE
  /\ UNCHANGED <<homeStart, screen, visit, leaving, enabled, connectRequested, stackVars, policyVars,
                 mainVars, startVars, asked, radioReleasedForBuild, builds, outlasted, flagVars>>

-----------------------------------------------------------------------------
(* The remote comes and goes; the settings screen may pair any.            *)
RemoteLinks ==
  /\ Up /\ ~connected /\ (armed \/ screen = "Settings") /\ connected' = TRUE
  /\ UNCHANGED <<sceneVars, radio, armed, holdsCpu, policyVars, mainVars, startVars, lockVars,
                 buildVars, flagVars>>

RemoteLost ==
  /\ connected /\ connected' = FALSE
  /\ UNCHANGED <<sceneVars, radio, armed, holdsCpu, policyVars, mainVars, startVars, lockVars,
                 buildVars, flagVars>>

Tick == TickEnter \/ TickStops \/ TickAsks \/ TickClaims \/ TickSpawns \/ TickStopsIdle
        \/ TickServes \/ TickEnds \/ RestartIntoBook
Loop == ReleaseHold \/ BackgroundBuild \/ LoopPass \/ AskToLeave \/ NoInput
        \/ ToggleOff \/ ToggleOn \/ SwitchOn \/ SwitchOnReturns \/ Navigate \/ LeaveScreen
Start == StartCheck \/ StartTriesLock \/ StartHeapCheck \/ StartBegins \/ StackComesUp
         \/ StartKept \/ StartRolledBack \/ StartFinishes
Render == RenderOther \/ RenderBook \/ StartSettled \/ PagePainted \/ PageNeedsBuild
          \/ AskForRoom \/ HoldForBuild \/ RenderCancels \/ RenderEnds \/ RadioReleased
          \/ RetryStop \/ StopTimedOut \/ ReadStatus \/ AskAgain \/ BuildRefused \/ ChapterBuilt

Next == Tick \/ Loop \/ Start \/ Render \/ SettleTimedOut \/ RemoteLinks \/ RemoteLost

Spec == Init /\ [][Next]_vars

(* FreeRTOS runs every task that is ready, and the two waits of a chapter   *)
(* build for the radio are bounded (3 s and 5 s).  A start that waits for   *)
(* the render lock polls every 10 ms, so a wait of settleStart() that goes  *)
(* on is seen by a poll.  Nothing is assumed of the user, the remote, the   *)
(* heap, how long the stack takes to stop, or settleStart()'s own timeout.  *)
FairSpec == /\ Spec /\ WF_vars(Tick \/ Loop) /\ WF_vars(Start)
            /\ SF_vars(renderPc \in {"settle", "settleBuild"} /\ StartTriesLock)
            /\ WF_vars(renderPc # "idle" /\ Render)
            /\ SF_vars(StopTimedOut) /\ SF_vars(BuildRefused)

-----------------------------------------------------------------------------
(* A chapter is never built beside a start that takes its heap, nor beside  *)
(* the radio (makeRoomForChapterBuild: out of memory there aborts the       *)
(* firmware), unless a start outlasted the 3 s its paint waited for it: its *)
(* end may then fall between the reads of status().                        *)
BuildRunsAlone == renderPc = "build" => ~TakesHeap /\ (radio = "off" \/ outlasted)

(* A page is painted while a start takes the heap only when that start      *)
(* outlasted the 3 s the page waited for it (settleStart).                 *)
PaintRunsAlone == renderPc = "paint" /\ TakesHeap => outlasted

(* The stack is never stopped while its start is under way by anyone but    *)
(* that start itself (suspend: its task owns the allocations).             *)
OnlyStartStopsItself == [][TakesHeap /\ Up /\ radio' # "up" => StartRolledBack]_vars

(* A heap in pieces restarts the device once until the radio has come up.   *)
OneRestartPerRadioUp == restarts <= 1

(* Served with the radio up, the stack looks for the bonded remote.        *)
ServedRadioIsArmed ==
  [][TickServes /\ Up /\ ~attemptInFlight /\ lastScene = "Reader" => armed']_vars

(* The next screen comes in front with the radio off and no start in flight,*)
(* but for the book that takes over the radio of Home (S3 profile).        *)
OffScreenRadioIsOff ==
  [][visit' > visit => ~attemptInFlight /\ (radio = "off" \/ (homeStart /\ leaving = "Reader"))]_vars

(* A hold always has someone who will give it back: the book whose build    *)
(* asked for it, or the render task on the way there.  Without one the      *)
(* radio could never start again in the visit (afterPaint).                *)
HoldHasOwner ==
  heldForBuild => radioReleasedForBuild \/ renderPc \in {"cancel", "end", "unhold", "stopRetry"}

(* The page's wait for a start (settleStart) ends by the start's own end,   *)
(* with no help from its timeout.                                          *)
PaintEnds == renderPc = "settle" ~> renderPc # "settle"

(* A start that waits for the render lock is not kept waiting for ever by   *)
(* the paints and builds that hold it.                                     *)
StartSettles == attemptInFlight ~> ~attemptInFlight
=============================================================================
