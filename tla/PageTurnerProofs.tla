---------------------------- MODULE PageTurnerProofs ----------------------------
(* Proofs about PageTurner, for any screens, heap and bounds, whether or not  *)
(* a start outlasts the wait for it.                                          *)
EXTENDS PageTurner, TLAPS

\* The render lock is held exactly while the book is painted.
LockHeld == (renderPc = "idle") <=> (renderLock = "free")

\* A start is in flight exactly while its task is there or about to be created.
InFlight ==
  /\ startPc # "none" => attemptInFlight
  /\ mainPc = "spawn" => attemptInFlight /\ startPc = "none"
  /\ attemptInFlight => startPc # "none" \/ mainPc = "spawn"

\* A navigation knows where it goes, and is within the bound.
Going ==
  /\ leaving # "none" => visit < MaxVisit
  /\ mainPc = "leave" => leaving # "none"

Base == TypeOK /\ LockHeld /\ InFlight /\ Going

-----------------------------------------------------------------------------
(* Types of the parts *)

LEMMA TrackerExcept ==
  ASSUME NEW t \in Trackers, NEW n \in 0..Refusals, NEW b \in BOOLEAN
  PROVE  [t EXCEPT !.fragmentedInRow = n, !.wanted = b] \in Trackers
  BY DEF Trackers

LEMMA VisitExcept ==
  ASSUME NEW v \in Visits, NEW n \in 0..RetryLimit, NEW b \in BOOLEAN
  PROVE  [v EXCEPT !.attempted = b, !.retries = n] \in Visits
  BY DEF Visits

LEMMA NewTyped ==
  /\ \A n \in 0..MaxVisit : NewVisit(n) \in Visits
  /\ NewVisit(0) \in Visits /\ NewTracker(TRUE) \in Trackers /\ NewTracker(FALSE) \in Trackers
  BY NumbersAssumption DEF NewVisit, NewTracker, Visits, Trackers

LEMMA RearmedTyped == ASSUME NEW v \in Visits PROVE Rearmed(v) \in Visits
<1>1. 0 \in 0..RetryLimit
  BY NumbersAssumption
<1>2. [v EXCEPT !.attempted = FALSE, !.reconnectArmed = FALSE] \in Visits
  BY DEF Visits
<1>3. Rearmed(v) = [[v EXCEPT !.attempted = FALSE, !.reconnectArmed = FALSE] EXCEPT !.retries = 0]
  BY DEF Rearmed, Visits
<1> QED
  BY <1>1, <1>2, <1>3 DEF Visits

LEMMA RefusedTyped ==
  ASSUME heapTracker \in Trackers, NEW why, Refused(why) PROVE heapTracker' \in Trackers
<1> DEFINE row == IF why # "HeapInPieces" THEN 0
                  ELSE IF heapTracker.fragmentedInRow < Refusals
                       THEN heapTracker.fragmentedInRow + 1 ELSE Refusals
           due == why = "HeapInPieces" /\ row >= Refusals /\ ~heapTracker.spent
           want == due \/ (heapTracker.wanted /\ why = "HeapInPieces")
<1>1. row \in 0..Refusals
  BY NumbersAssumption DEF Trackers
<1>2. want \in BOOLEAN
  BY DEF Trackers
<1>3. heapTracker' = [heapTracker EXCEPT !.fragmentedInRow = row, !.wanted = want]
  BY DEF Refused, Trackers
<1> HIDE DEF row, want
<1> QED
  BY <1>1, <1>2, <1>3, TrackerExcept

LEMMA InconclusiveTyped ==
  ASSUME heapTracker \in Trackers, Inconclusive PROVE heapTracker' \in Trackers
<1>1. 0 \in 0..Refusals /\ FALSE \in BOOLEAN
  BY NumbersAssumption
<1> QED
  BY <1>1, TrackerExcept DEF Inconclusive

LEMMA SuspendTyped ==
  ASSUME TypeOK, NEW ok \in BOOLEAN, Suspend(ok)
  PROVE  /\ radio' \in {"off", "up", "stopping"}
         /\ {attemptCancelled', connected', armed', holdsCpu'} \subseteq BOOLEAN
<1>1. radio' \in {"off", "up", "stopping"}
  BY DEF Suspend, TypeOK, StateOK, stackVars
<1>2. {attemptCancelled', connected', armed', holdsCpu'} \subseteq BOOLEAN
  BY DEF Suspend, TypeOK, FlagsOK, stackVars
<1> QED
  BY <1>1, <1>2

LEMMA EnterVisitTyped ==
  ASSUME TypeOK, EnterVisit
  PROVE  /\ book' \in Visits /\ lastScene' \in {"Reader", "Home", "Elsewhere"}
         /\ {heldForBuild', radioIdleStopped', readerStartDeferred', rearmRequested',
             connectRequested'} \subseteq BOOLEAN
<1> DEFINE reader == Where = "Reader"
           isEntered == reader /\ (lastScene # "Reader" \/ visit # book.id)
           over == ~(reader \/ (Where = "Home" /\ homeStart)) \/ ~enabled \/ visit # book.id
           rearm == reader /\ enabled /\ RearmWanted(isEntered, connectRequested, rearmRequested)
           again == rearm /\ ~attemptInFlight /\ radio' # "up"
           manual == connectRequested /\ reader /\ enabled
           kept == IF over THEN NewVisit(visit) ELSE book
           asking == IF again THEN Rearmed(kept) ELSE kept
           asks == asking.manualConnect \/ (manual /\ ~connected')
<1>1. kept \in Visits
  BY NewTyped DEF TypeOK, StateOK
<1>2. asking \in Visits
  BY <1>1, RearmedTyped
<1>3. book' = [asking EXCEPT !.manualConnect = asks]
  BY DEF EnterVisit
<1>4. asks \in BOOLEAN
  OBVIOUS
<1>5. book' \in Visits
  <2> HIDE DEF asking, asks
  <2> QED
    BY <1>2, <1>3, <1>4 DEF Visits
<1>6. lastScene' \in {"Reader", "Home", "Elsewhere"}
  BY DEF EnterVisit, Where
<1>7. /\ heldForBuild' = (heldForBuild /\ visit = book.id)
      /\ radioIdleStopped' = (radioIdleStopped /\ ~rearm)
      /\ readerStartDeferred' = (readerStartDeferred /\ ~again)
      /\ rearmRequested' = FALSE /\ connectRequested' = FALSE
  BY DEF EnterVisit
<1> HIDE DEF rearm, again
<1>8. {heldForBuild', radioIdleStopped', readerStartDeferred', rearmRequested',
       connectRequested'} \subseteq BOOLEAN
  BY <1>7
<1> QED
  BY <1>5, <1>6, <1>8

LEMMA TickAsksTyped == ASSUME TypeOK, TickAsks PROVE book' \in Visits
<1>1. PICK due \in BOOLEAN :
        LET retry == due /\ RetryOpen
            asks == (~book.attempted \/ retry) /\ radio # "stopping" /\ MayStart
        IN book' = [book EXCEPT !.attempted = (@ /\ ~retry) \/ asks,
                                !.retries = IF retry THEN @ + 1 ELSE IF Up THEN 0 ELSE @]
  BY DEF TickAsks
<1> DEFINE retry == due /\ RetryOpen
           asks == (~book.attempted \/ retry) /\ radio # "stopping" /\ MayStart
           b == (book.attempted /\ ~retry) \/ asks
           n == IF retry THEN book.retries + 1 ELSE IF Up THEN 0 ELSE book.retries
<1>2. book \in Visits
  BY DEF TypeOK, StateOK
<1>3. n \in 0..RetryLimit
  BY <1>2, NumbersAssumption DEF Visits, RetryOpen
<1>4. b \in BOOLEAN
  OBVIOUS
<1>5. book' = [book EXCEPT !.attempted = b, !.retries = n]
  BY <1>1
<1> HIDE DEF b, n
<1> QED
  BY <1>2, <1>3, <1>4, <1>5, VisitExcept

-----------------------------------------------------------------------------
(* Types, the lock, and who is where *)

LEMMA BaseInit == Init => Base
<1> SUFFICES ASSUME Init PROVE Base
  OBVIOUS
<1>0. book \in Visits /\ heapTracker \in Trackers
  BY NewTyped DEF Init
<1>1. StateOK
  <2>1. visit \in 0..MaxVisit /\ builds \in 0..MaxBuilds /\ restarts \in Nat
    BY NumbersAssumption DEF Init
  <2> QED
    BY <1>0, <2>1 DEF Init, StateOK
<1>2. FlagsOK
  BY DEF Init, FlagsOK
<1>3. LockHeld /\ InFlight /\ Going
  BY DEF Init, LockHeld, InFlight, Going
<1> QED
  BY <1>1, <1>2, <1>3 DEF Base, TypeOK
LEMMA StateStep ==
  ASSUME Base, [Next]_vars
  PROVE  StateOK'
<1>s. TypeOK /\ StateOK /\ Going
  BY DEF Base, TypeOK
<1>1. CASE TickEnter
  BY <1>s, <1>1, SuspendTyped, EnterVisitTyped
     DEF TickEnter, stackVars, RearmWanted, Rearmed, startVars, lockVars, buildVars, StateOK
<1>2. CASE TickStops
  BY <1>s, <1>2, SuspendTyped
     DEF TickStops, MustStop, stackVars, sceneVars, policyVars, startVars, lockVars, buildVars,
         StateOK
<1>3. CASE TickAsks
  <2>1. /\ mainPc' \in {"claim", "serve"}
        /\ UNCHANGED <<homeStart, screen, visit, leaving, heapTracker, radio, lastScene, startPc,
                       renderPc, renderLock, builds, restarts>>
    BY <1>3 DEF TickAsks, sceneVars, stackVars, startVars, lockVars, buildVars
  <2> QED
    BY <1>s, <1>3, <2>1, TickAsksTyped DEF StateOK
<1>4. CASE TickClaims \/ TickSpawns
  BY <1>s, <1>4
     DEF TickClaims, sceneVars, stackVars, policyVars, lockVars, buildVars, TickSpawns, Up,
         StateOK
<1>5. CASE TickStopsIdle
  BY <1>s, <1>5, SuspendTyped
     DEF TickStopsIdle, Up, stackVars, sceneVars, policyVars, startVars, lockVars, buildVars,
         StateOK
<1>6. CASE TickServes
  <2>1. book' \in Visits
    BY <1>s, <1>6 DEF TickServes, StateOK, Visits
  <2> QED
    BY <1>s, <1>6, <2>1
       DEF TickServes, Up, sceneVars, startVars, lockVars, buildVars, StateOK
<1>7. CASE TickEnds
  BY <1>s, <1>7
     DEF TickEnds, RestartDue, Busy, sceneVars, stackVars, policyVars, startVars, lockVars,
         buildVars, flagVars, StateOK
<1>8. CASE RestartIntoBook
  <2>1. book' \in Visits /\ heapTracker' \in Trackers
    BY <1>8, NewTyped DEF RestartIntoBook
  <2>2. restarts' \in Nat /\ visit' \in 0..MaxVisit /\ builds' \in 0..MaxBuilds
        /\ screen' \in Screens
    BY <1>s, <1>8, NumbersAssumption, ScreensAssumption DEF RestartIntoBook, StateOK
  <2> QED
    BY <1>s, <1>8, <2>1, <2>2 DEF RestartIntoBook, StateOK
<1>9. CASE ReleaseHold \/ BackgroundBuild \/ LoopPass \/ AskToLeave
  BY <1>s, <1>9
     DEF ReleaseHold, LockFree, sceneVars, stackVars, policyVars, startVars, lockVars,
         BackgroundBuild, HoldsHeap, Busy, flagVars, LoopPass, buildVars, AskToLeave, Ways,
         BookOpen, StateOK
<1>10. CASE NoInput
  BY <1>s, <1>10
     DEF NoInput, sceneVars, stackVars, policyVars, startVars, lockVars, buildVars, flagVars,
         StateOK
<1>11. CASE ToggleOff
  BY <1>s, <1>11, SuspendTyped
     DEF ToggleOff, stackVars, policyVars, startVars, lockVars, buildVars, StateOK
<1>12. CASE ToggleOn \/ SwitchOn \/ SwitchOnReturns
  BY <1>s, <1>12
     DEF ToggleOn, stackVars, policyVars, startVars, lockVars, buildVars, flagVars, SwitchOn,
         sceneVars, SwitchOnReturns, StateOK
<1>13. CASE Navigate
  BY <1>s, <1>13, SuspendTyped
     DEF Navigate, stackVars, KeepsRadio, Up, sceneVars, policyVars, startVars, lockVars,
         buildVars, StateOK
<1>14. CASE LeaveScreen
  BY <1>s, <1>14, NumbersAssumption
     DEF LeaveScreen, LockFree, HoldGivenBack, BookCloses, BookOpen, stackVars, policyVars,
         startVars, lockVars, StateOK, Going
<1>15. CASE StartCheck \/ StartTriesLock
  BY <1>s, <1>15
     DEF StartCheck, Up, startElse, sceneVars, mainVars, lockVars, buildVars, flagVars,
         StartTriesLock, LockFree, StateOK
<1>16. CASE StartHeapCheck
  <2>1. heapTracker' \in Trackers
    BY <1>s, <1>16, RefusedTyped
       DEF StartHeapCheck, StateOK
  <2> QED
    BY <1>s, <1>16, <2>1
       DEF StartHeapCheck, startElse, sceneVars, mainVars, lockVars, buildVars, flagVars,
           StateOK
<1>17. CASE StartBegins
  <2>1. heapTracker' \in Trackers
    BY <1>s, <1>17, InconclusiveTyped
       DEF StartBegins, StateOK
  <2> QED
    BY <1>s, <1>17, <2>1
       DEF StartBegins, startElse, sceneVars, mainVars, lockVars, buildVars, flagVars, StateOK
<1>18. CASE StackComesUp
  <2>1. heapTracker' \in Trackers
    BY <1>s, <1>18, InconclusiveTyped
       DEF StackComesUp, StateOK
  <2> QED
    BY <1>s, <1>18, <2>1
       DEF StackComesUp, startElse, sceneVars, mainVars, lockVars, buildVars, flagVars, StateOK
<1>19. CASE StartKept
  <2>1. /\ restarts' \in Nat /\ heapTracker' \in Trackers /\ startPc' = "finish"
        /\ UNCHANGED <<homeStart, screen, visit, leaving, book, radio, mainPc, lastScene, renderPc,
                       renderLock, builds>>
    BY <1>19, NewTyped DEF StartKept, startElse, sceneVars, mainVars, lockVars, buildVars
  <2> QED
    BY <1>s, <2>1 DEF StateOK
<1>20. CASE StartRolledBack
  <2>1. heapTracker' \in Trackers
    BY <1>s, <1>20, RefusedTyped, InconclusiveTyped
       DEF StartRolledBack, StateOK
  <2> QED
    BY <1>s, <1>20, <2>1
       DEF StartRolledBack, startElse, sceneVars, mainVars, lockVars, buildVars, flagVars,
           StateOK
<1>21. CASE StartFinishes
  BY <1>s, <1>21
     DEF StartFinishes, sceneVars, policyVars, mainVars, lockVars, buildVars, StateOK
<1>22. CASE RenderBook \/ StartSettled \/ SettleTimedOut \/ PagePainted
  BY <1>s, <1>22
     DEF RenderBook, LockFree, renderElse, sceneVars, policyVars, mainVars, startVars,
         stackVars, buildVars, flagsElse, StartSettled, SettleTimedOut, SettleEnds, PagePainted,
         flagVars, StateOK
<1>23. CASE PageNeedsBuild
  BY <1>s, <1>23, NumbersAssumption
     DEF PageNeedsBuild, renderElse, sceneVars, policyVars, mainVars, startVars, stackVars,
         flagVars, StateOK
<1>24. CASE AskForRoom \/ HoldForBuild \/ RenderCancels \/ RenderEnds
  BY <1>s, <1>24
     DEF AskForRoom, AsksAgain, NotHeld, renderElse, sceneVars, policyVars, mainVars, startVars,
         stackVars, flagsElse, HoldForBuild, buildVars, RenderCancels, RenderEnds, flagVars,
         StateOK
<1>25. CASE RadioReleased \/ RetryStop \/ StopTimedOut \/ ReadStatus
  BY <1>s, <1>25
     DEF RadioReleased, renderElse, sceneVars, policyVars, mainVars, startVars, flagVars,
         RetryStop, stackVars, buildVars, StopTimedOut, ReadStatus, Up, StateOK
<1>26. CASE AskAgain \/ BuildRefused \/ ChapterBuilt
  BY <1>s, <1>26
     DEF AskAgain, renderElse, sceneVars, policyVars, mainVars, startVars, stackVars, buildVars,
         flagVars, BuildRefused, ChapterBuilt, StateOK
<1>27. CASE UNCHANGED <<homeStart, screen, visit, leaving, book, heapTracker, radio, mainPc,
                        lastScene, startPc, renderPc, renderLock, builds, restarts>>
  BY <1>s, <1>27
     DEF StateOK
<1>28. CASE RenderOther \/ RemoteLinks \/ RemoteLost \/ UNCHANGED vars
  <2>1. UNCHANGED <<homeStart, screen, visit, leaving, book, heapTracker, radio, mainPc,
                    lastScene, startPc, renderPc, renderLock, builds, restarts>>
    BY <1>28
       DEF RenderOther, RemoteLinks, RemoteLost, stackVars, policyVars, mainVars, startVars,
           lockVars, buildVars, flagVars, sceneVars, vars
  <2> QED
    BY <2>1, <1>27
<1> QED
  BY <1>1, <1>2, <1>3, <1>4, <1>5, <1>6, <1>7, <1>8, <1>9, <1>10, <1>11, <1>12, <1>13, <1>14,
     <1>15, <1>16, <1>17, <1>18, <1>19, <1>20, <1>21, <1>22, <1>23, <1>24, <1>25, <1>26, <1>27,
     <1>28
     DEF Next, Tick, Loop, Start, Render
LEMMA FlagsStep ==
  ASSUME Base, [Next]_vars
  PROVE  FlagsOK'
<1>s. TypeOK /\ FlagsOK
  BY DEF Base, TypeOK
<1>1. CASE TickEnter
  <2>1. {attemptCancelled', connected', armed', holdsCpu'} \subseteq BOOLEAN
    BY <1>s, <1>1, SuspendTyped
       DEF TickEnter, FlagsOK, stackVars
  <2>2. {heldForBuild', radioIdleStopped',
         readerStartDeferred', rearmRequested', connectRequested'} \subseteq BOOLEAN
    BY <1>s, <1>1, EnterVisitTyped
       DEF TickEnter
  <2>3. UNCHANGED <<shown, enabled, attemptInFlight, buildWaiting, startOk, inSync,
                    startFromHome, asked, radioReleasedForBuild, building,
                    outlasted>>
    BY <1>1
       DEF TickEnter, stackVars, startVars, lockVars, buildVars
  <2> QED
    BY <1>s, <2>1, <2>2, <2>3 DEF FlagsOK
<1>2. CASE TickStops
  <2>1. {attemptCancelled', connected', armed', holdsCpu'} \subseteq BOOLEAN
    BY <1>s, <1>2, SuspendTyped
       DEF TickStops
  <2>2. UNCHANGED <<shown, enabled, connectRequested, attemptInFlight, buildWaiting,
                    readerStartDeferred, radioIdleStopped, rearmRequested, heldForBuild,
                    startOk, inSync, startFromHome, asked, radioReleasedForBuild, building,
                    outlasted>>
    BY <1>2
       DEF TickStops, stackVars, sceneVars, policyVars, startVars, lockVars, buildVars
  <2> QED
    BY <1>s, <2>1, <2>2 DEF FlagsOK
<1>3. CASE TickClaims
  <2>1. {attemptInFlight', readerStartDeferred',
         radioIdleStopped', startFromHome'} \subseteq BOOLEAN
    BY <1>s, <1>3
       DEF TickClaims, FlagsOK, sceneVars, stackVars, policyVars, lockVars, buildVars
  <2>2. UNCHANGED <<shown, enabled, connectRequested, attemptCancelled, buildWaiting,
                    rearmRequested, heldForBuild, connected, armed, holdsCpu, startOk, inSync,
                    asked, radioReleasedForBuild, building,
                    outlasted>>
    BY <1>3
       DEF TickClaims, sceneVars, stackVars, policyVars, lockVars, buildVars
  <2> QED
    BY <1>s, <2>1, <2>2 DEF FlagsOK
<1>4. CASE TickSpawns
  <2>1. {attemptInFlight', attemptCancelled', readerStartDeferred', holdsCpu'} \subseteq BOOLEAN
    BY <1>s, <1>4
       DEF TickSpawns, FlagsOK, Up, sceneVars, policyVars, lockVars, buildVars
  <2>2. UNCHANGED <<shown, enabled, connectRequested, buildWaiting, radioIdleStopped,
                    rearmRequested, heldForBuild, connected, armed, startOk, inSync,
                    startFromHome, asked, radioReleasedForBuild, building,
                    outlasted>>
    BY <1>4
       DEF TickSpawns, sceneVars, policyVars, lockVars, buildVars
  <2> QED
    BY <1>s, <2>1, <2>2 DEF FlagsOK
<1>5. CASE TickStopsIdle
  <2>1. {attemptCancelled', connected', armed', holdsCpu'} \subseteq BOOLEAN
    BY <1>s, <1>5, SuspendTyped
       DEF TickStopsIdle
  <2>2. {readerStartDeferred', radioIdleStopped'} \subseteq BOOLEAN
    BY <1>s, <1>5
       DEF TickStopsIdle, FlagsOK, Up, stackVars, sceneVars, policyVars, startVars, lockVars,
           buildVars
  <2>3. UNCHANGED <<shown, enabled, connectRequested, attemptInFlight, buildWaiting,
                    rearmRequested, heldForBuild, startOk, inSync, startFromHome, asked,
                    radioReleasedForBuild, building,
                    outlasted>>
    BY <1>5
       DEF TickStopsIdle, stackVars, sceneVars, policyVars, startVars, lockVars, buildVars
  <2> QED
    BY <1>s, <2>1, <2>2, <2>3 DEF FlagsOK
<1>6. CASE TickServes
  <2>1. {readerStartDeferred', armed'} \subseteq BOOLEAN
    BY <1>s, <1>6
       DEF TickServes, FlagsOK, Up, sceneVars, startVars, lockVars, buildVars
  <2>2. UNCHANGED <<shown, enabled, connectRequested, attemptInFlight, attemptCancelled,
                    buildWaiting, radioIdleStopped, rearmRequested, heldForBuild, connected,
                    holdsCpu, startOk, inSync, startFromHome, asked, radioReleasedForBuild,
                    building, outlasted>>
    BY <1>6
       DEF TickServes, sceneVars, startVars, lockVars, buildVars
  <2> QED
    BY <1>s, <2>1, <2>2 DEF FlagsOK
<1>7. CASE RestartIntoBook
  BY <1>s, <1>7
     DEF RestartIntoBook, RestartDue, Busy, FlagsOK
<1>8. CASE ReleaseHold
  <2>1. {rearmRequested', heldForBuild', radioReleasedForBuild'} \subseteq BOOLEAN
    BY <1>s, <1>8
       DEF ReleaseHold, FlagsOK, LockFree, sceneVars, stackVars, policyVars, startVars, lockVars
  <2>2. UNCHANGED <<shown, enabled, connectRequested, attemptInFlight, attemptCancelled,
                    buildWaiting, readerStartDeferred, radioIdleStopped, connected, armed,
                    holdsCpu, startOk, inSync, startFromHome, asked, building, outlasted>>
    BY <1>8
       DEF ReleaseHold, sceneVars, stackVars, policyVars, startVars, lockVars
  <2> QED
    BY <1>s, <2>1, <2>2 DEF FlagsOK
<1>9. CASE BackgroundBuild
  <2>1. {building'} \subseteq BOOLEAN
    BY <1>s, <1>9
       DEF BackgroundBuild, FlagsOK, LockFree, HoldsHeap, Busy, sceneVars, stackVars,
           policyVars, startVars, lockVars, flagVars
  <2>2. UNCHANGED <<shown, enabled, connectRequested, attemptInFlight, attemptCancelled,
                    buildWaiting, readerStartDeferred, radioIdleStopped, rearmRequested,
                    heldForBuild, connected, armed, holdsCpu, startOk, inSync, startFromHome,
                    asked, radioReleasedForBuild, outlasted>>
    BY <1>9
       DEF BackgroundBuild, sceneVars, stackVars, policyVars, startVars, lockVars, flagVars
  <2> QED
    BY <1>s, <2>1, <2>2 DEF FlagsOK
<1>10. CASE AskToLeave
  <2>1. {building'} \subseteq BOOLEAN
    BY <1>s, <1>10
       DEF AskToLeave, FlagsOK, Ways, BookOpen, LockFree, stackVars, policyVars, startVars,
           lockVars, flagVars
  <2>2. UNCHANGED <<shown, enabled, connectRequested, attemptInFlight, attemptCancelled,
                    buildWaiting, readerStartDeferred, radioIdleStopped, rearmRequested,
                    heldForBuild, connected, armed, holdsCpu, startOk, inSync, startFromHome,
                    asked, radioReleasedForBuild, outlasted>>
    BY <1>10
       DEF AskToLeave, stackVars, policyVars, startVars, lockVars, flagVars
  <2> QED
    BY <1>s, <2>1, <2>2 DEF FlagsOK
<1>11. CASE ToggleOff
  <2>1. {attemptCancelled', connected', armed', holdsCpu'} \subseteq BOOLEAN
    BY <1>s, <1>11, SuspendTyped
       DEF ToggleOff
  <2>2. {enabled', readerStartDeferred', radioIdleStopped'} \subseteq BOOLEAN
    BY <1>s, <1>11
       DEF ToggleOff, FlagsOK, stackVars, policyVars, startVars, lockVars, buildVars
  <2>3. UNCHANGED <<shown, connectRequested, attemptInFlight, buildWaiting, rearmRequested,
                    heldForBuild, startOk, inSync, startFromHome, asked, radioReleasedForBuild,
                    building, outlasted>>
    BY <1>11
       DEF ToggleOff, stackVars, policyVars, startVars, lockVars, buildVars
  <2> QED
    BY <1>s, <2>1, <2>2, <2>3 DEF FlagsOK
<1>12. CASE ToggleOn
  BY <1>s, <1>12
     DEF ToggleOn, stackVars, policyVars, startVars, lockVars, buildVars, flagVars, FlagsOK
<1>13. CASE SwitchOn
  <2>1. {attemptInFlight', attemptCancelled', readerStartDeferred',
         radioIdleStopped', holdsCpu', inSync', startFromHome'} \subseteq BOOLEAN
    BY <1>s, <1>13
       DEF SwitchOn, FlagsOK, sceneVars, policyVars, lockVars, buildVars
  <2>2. UNCHANGED <<shown, enabled, connectRequested, buildWaiting, rearmRequested,
                    heldForBuild, connected, armed, startOk, asked, radioReleasedForBuild,
                    building, outlasted>>
    BY <1>13
       DEF SwitchOn, sceneVars, policyVars, lockVars, buildVars
  <2> QED
    BY <1>s, <2>1, <2>2 DEF FlagsOK
<1>14. CASE Navigate
  <2>1. {attemptCancelled', connected', armed', holdsCpu'} \subseteq BOOLEAN
    BY <1>s, <1>14, SuspendTyped
       DEF Navigate, FlagsOK, stackVars
  <2>2. UNCHANGED <<shown, enabled, connectRequested, attemptInFlight, buildWaiting,
                    readerStartDeferred, radioIdleStopped, rearmRequested, heldForBuild,
                    startOk, inSync, startFromHome, asked, radioReleasedForBuild, building,
                    outlasted>>
    BY <1>14
       DEF Navigate, stackVars, sceneVars, policyVars, startVars, lockVars, buildVars
  <2> QED
    BY <1>s, <2>1, <2>2 DEF FlagsOK
<1>15. CASE LeaveScreen
  BY <1>s, <1>15
     DEF LeaveScreen, LockFree, HoldGivenBack, BookCloses, BookOpen, stackVars, policyVars,
         startVars, lockVars, FlagsOK
<1>16. CASE StartCheck
  <2>1. {startOk'} \subseteq BOOLEAN
    BY <1>s, <1>16
       DEF StartCheck, FlagsOK, Up, startElse, sceneVars, mainVars, lockVars, buildVars,
           flagVars
  <2>2. UNCHANGED <<shown, enabled, connectRequested, attemptInFlight, attemptCancelled,
                    buildWaiting, readerStartDeferred, radioIdleStopped, rearmRequested,
                    heldForBuild, connected, armed, holdsCpu, inSync, startFromHome, asked,
                    radioReleasedForBuild, building,
                    outlasted>>
    BY <1>16
       DEF StartCheck, startElse, sceneVars, mainVars, lockVars, buildVars, flagVars
  <2> QED
    BY <1>s, <2>1, <2>2 DEF FlagsOK
<1>17. CASE StartKept
  BY <1>s, <1>17
     DEF StartKept, startElse, sceneVars, mainVars, lockVars, buildVars, flagVars, FlagsOK
<1>18. CASE StartFinishes
  <2>1. {attemptInFlight', readerStartDeferred', holdsCpu', startOk', inSync'} \subseteq BOOLEAN
    BY <1>s, <1>18
       DEF StartFinishes, FlagsOK, sceneVars, policyVars, mainVars, lockVars, buildVars
  <2>2. UNCHANGED <<shown, enabled, connectRequested, attemptCancelled, buildWaiting,
                    radioIdleStopped, rearmRequested, heldForBuild, connected, armed,
                    startFromHome, asked, radioReleasedForBuild, building,
                    outlasted>>
    BY <1>18
       DEF StartFinishes, sceneVars, policyVars, mainVars, lockVars, buildVars
  <2> QED
    BY <1>s, <2>1, <2>2 DEF FlagsOK
<1>19. CASE RenderOther \/ RenderBook
  BY <1>s, <1>19
     DEF RenderOther, LockFree, stackVars, policyVars, mainVars, startVars, lockVars, buildVars,
         flagVars, RenderBook, renderElse, sceneVars, flagsElse, FlagsOK
<1>20. CASE StartSettled \/ SettleTimedOut
  <2>1. {buildWaiting', outlasted'} \subseteq BOOLEAN
    BY <1>s, <1>20
       DEF StartSettled, SettleTimedOut, SettleEnds, FlagsOK, renderElse, sceneVars, policyVars,
           mainVars, startVars, stackVars, buildVars, flagsElse
  <2>2. UNCHANGED <<shown, enabled, connectRequested, attemptInFlight, attemptCancelled,
                    readerStartDeferred, radioIdleStopped, rearmRequested, heldForBuild,
                    connected, armed, holdsCpu, startOk, inSync, startFromHome, asked,
                    radioReleasedForBuild, building>>
    BY <1>20
       DEF StartSettled, SettleTimedOut, SettleEnds, renderElse, sceneVars, policyVars, mainVars,
           startVars, stackVars, buildVars, flagsElse
  <2> QED
    BY <1>s, <2>1, <2>2 DEF FlagsOK
<1>21. CASE PagePainted
  <2>1. {shown'} \subseteq BOOLEAN
    BY <1>s, <1>21
       DEF PagePainted, FlagsOK, stackVars, policyVars, mainVars, startVars, buildVars, flagVars
  <2>2. UNCHANGED <<enabled, connectRequested, attemptInFlight, attemptCancelled, buildWaiting,
                    readerStartDeferred, radioIdleStopped, rearmRequested, heldForBuild,
                    connected, armed, holdsCpu, startOk, inSync, startFromHome, asked,
                    radioReleasedForBuild, building,
                    outlasted>>
    BY <1>21
       DEF PagePainted, stackVars, policyVars, mainVars, startVars, buildVars, flagVars
  <2> QED
    BY <1>s, <2>1, <2>2 DEF FlagsOK
<1>22. CASE PageNeedsBuild
  <2>1. {asked'} \subseteq BOOLEAN
    BY <1>s, <1>22
       DEF PageNeedsBuild, FlagsOK, renderElse, sceneVars, policyVars, mainVars, startVars,
           stackVars, flagVars
  <2>2. UNCHANGED <<shown, enabled, connectRequested, attemptInFlight, attemptCancelled,
                    buildWaiting, readerStartDeferred, radioIdleStopped, rearmRequested,
                    heldForBuild, connected, armed, holdsCpu, startOk, inSync, startFromHome,
                    radioReleasedForBuild, building,
                    outlasted>>
    BY <1>22
       DEF PageNeedsBuild, renderElse, sceneVars, policyVars, mainVars, startVars, stackVars,
           flagVars
  <2> QED
    BY <1>s, <2>1, <2>2 DEF FlagsOK
<1>23. CASE AskForRoom
  BY <1>s, <1>23
     DEF AskForRoom, AsksAgain, NotHeld, renderElse, sceneVars, policyVars, mainVars, startVars,
         stackVars, flagsElse, FlagsOK
<1>24. CASE HoldForBuild
  <2>1. {readerStartDeferred', heldForBuild', outlasted'} \subseteq BOOLEAN
    BY <1>s, <1>24
       DEF HoldForBuild, FlagsOK, renderElse, sceneVars, policyVars, mainVars, startVars,
           stackVars, buildVars, flagsElse
  <2>2. UNCHANGED <<shown, enabled, connectRequested, attemptInFlight, attemptCancelled,
                    buildWaiting, radioIdleStopped, rearmRequested, connected, armed, holdsCpu,
                    startOk, inSync, startFromHome, asked, radioReleasedForBuild, building>>
    BY <1>24
       DEF HoldForBuild, renderElse, sceneVars, policyVars, mainVars, startVars, stackVars,
           buildVars, flagsElse
  <2> QED
    BY <1>s, <2>1, <2>2 DEF FlagsOK
<1>25. CASE RenderCancels
  BY <1>s, <1>25
     DEF RenderCancels, renderElse, sceneVars, policyVars, mainVars, startVars, stackVars,
         buildVars, flagsElse, FlagsOK
<1>26. CASE RenderEnds
  <2>1. {connected', armed', holdsCpu'} \subseteq BOOLEAN
    BY <1>s, <1>26
       DEF RenderEnds, FlagsOK, stackVars, renderElse, sceneVars, policyVars, mainVars,
           startVars, buildVars, flagVars
  <2>2. UNCHANGED <<shown, enabled, connectRequested, attemptInFlight, attemptCancelled,
                    buildWaiting, readerStartDeferred, radioIdleStopped, rearmRequested,
                    heldForBuild, startOk, inSync, startFromHome, asked, radioReleasedForBuild,
                    building, outlasted>>
    BY <1>26
       DEF RenderEnds, stackVars, renderElse, sceneVars, policyVars, mainVars, startVars,
           buildVars, flagVars
  <2> QED
    BY <1>s, <2>1, <2>2 DEF FlagsOK
<1>27. CASE RadioReleased
  <2>1. {holdsCpu', radioReleasedForBuild'} \subseteq BOOLEAN
    BY <1>s, <1>27
       DEF RadioReleased, FlagsOK, renderElse, sceneVars, policyVars, mainVars, startVars,
           flagVars
  <2>2. UNCHANGED <<shown, enabled, connectRequested, attemptInFlight, attemptCancelled,
                    buildWaiting, readerStartDeferred, radioIdleStopped, rearmRequested,
                    heldForBuild, connected, armed, startOk, inSync, startFromHome, asked,
                    building, outlasted>>
    BY <1>27
       DEF RadioReleased, renderElse, sceneVars, policyVars, mainVars, startVars, flagVars
  <2> QED
    BY <1>s, <2>1, <2>2 DEF FlagsOK
<1>28. CASE StopTimedOut
  <2>1. {radioReleasedForBuild'} \subseteq BOOLEAN
    BY <1>s, <1>28
       DEF StopTimedOut, FlagsOK, renderElse, sceneVars, policyVars, mainVars, startVars,
           stackVars, flagVars
  <2>2. UNCHANGED <<shown, enabled, connectRequested, attemptInFlight, attemptCancelled,
                    buildWaiting, readerStartDeferred, radioIdleStopped, rearmRequested,
                    heldForBuild, connected, armed, holdsCpu, startOk, inSync, startFromHome,
                    asked, building, outlasted>>
    BY <1>28
       DEF StopTimedOut, renderElse, sceneVars, policyVars, mainVars, startVars, stackVars,
           flagVars
  <2> QED
    BY <1>s, <2>1, <2>2 DEF FlagsOK
<1>29. CASE BuildRefused
  <2>1. {building'} \subseteq BOOLEAN
    BY <1>s, <1>29
       DEF BuildRefused, FlagsOK, renderElse, sceneVars, policyVars, mainVars, startVars,
           stackVars, flagVars
  <2>2. UNCHANGED <<shown, enabled, connectRequested, attemptInFlight, attemptCancelled,
                    buildWaiting, readerStartDeferred, radioIdleStopped, rearmRequested,
                    heldForBuild, connected, armed, holdsCpu, startOk, inSync, startFromHome,
                    asked, radioReleasedForBuild, outlasted>>
    BY <1>29
       DEF BuildRefused, renderElse, sceneVars, policyVars, mainVars, startVars, stackVars,
           flagVars
  <2> QED
    BY <1>s, <2>1, <2>2 DEF FlagsOK
<1>30. CASE ChapterBuilt
  <2>1. {shown', building'} \subseteq BOOLEAN
    BY <1>s, <1>30
       DEF ChapterBuilt, FlagsOK, stackVars, policyVars, mainVars, startVars, flagVars
  <2>2. UNCHANGED <<enabled, connectRequested, attemptInFlight, attemptCancelled, buildWaiting,
                    readerStartDeferred, radioIdleStopped, rearmRequested, heldForBuild,
                    connected, armed, holdsCpu, startOk, inSync, startFromHome, asked,
                    radioReleasedForBuild, outlasted>>
    BY <1>30
       DEF ChapterBuilt, stackVars, policyVars, mainVars, startVars, flagVars
  <2> QED
    BY <1>s, <2>1, <2>2 DEF FlagsOK
<1>31. CASE RemoteLinks
  <2>1. {connected'} \subseteq BOOLEAN
    BY <1>s, <1>31
       DEF RemoteLinks, FlagsOK, Up, sceneVars, policyVars, mainVars, startVars, lockVars,
           buildVars, flagVars
  <2>2. UNCHANGED <<shown, enabled, connectRequested, attemptInFlight, attemptCancelled,
                    buildWaiting, readerStartDeferred, radioIdleStopped, rearmRequested,
                    heldForBuild, armed, holdsCpu, startOk, inSync, startFromHome, asked,
                    radioReleasedForBuild, building,
                    outlasted>>
    BY <1>31
       DEF RemoteLinks, sceneVars, policyVars, mainVars, startVars, lockVars, buildVars,
           flagVars
  <2> QED
    BY <1>s, <2>1, <2>2 DEF FlagsOK
<1>32. CASE RemoteLost
  <2>1. {connected'} \subseteq BOOLEAN
    BY <1>s, <1>32
       DEF RemoteLost, FlagsOK, sceneVars, policyVars, mainVars, startVars, lockVars, buildVars,
           flagVars
  <2>2. UNCHANGED <<shown, enabled, connectRequested, attemptInFlight, attemptCancelled,
                    buildWaiting, readerStartDeferred, radioIdleStopped, rearmRequested,
                    heldForBuild, armed, holdsCpu, startOk, inSync, startFromHome, asked,
                    radioReleasedForBuild, building,
                    outlasted>>
    BY <1>32
       DEF RemoteLost, sceneVars, policyVars, mainVars, startVars, lockVars, buildVars, flagVars
  <2> QED
    BY <1>s, <2>1, <2>2 DEF FlagsOK
<1>33. CASE UNCHANGED <<shown, enabled, connectRequested, attemptInFlight, attemptCancelled,
                        buildWaiting, readerStartDeferred, radioIdleStopped, rearmRequested,
                        heldForBuild, connected, armed, holdsCpu, startOk, inSync,
                        startFromHome, asked, radioReleasedForBuild, building,
                    outlasted>>
  BY <1>s, <1>33
     DEF FlagsOK
<1>34. CASE TickAsks \/ TickEnds \/ LoopPass \/ NoInput \/ SwitchOnReturns \/ StartTriesLock
            \/ StartHeapCheck \/ StartBegins \/ StackComesUp \/ StartRolledBack \/ RetryStop
            \/ ReadStatus \/ AskAgain \/ UNCHANGED vars
  <2>1. UNCHANGED <<shown, enabled, connectRequested, attemptInFlight, attemptCancelled,
                    buildWaiting, readerStartDeferred, radioIdleStopped, rearmRequested,
                    heldForBuild, connected, armed, holdsCpu, startOk, inSync, startFromHome,
                    asked, radioReleasedForBuild, building,
                    outlasted>>
    BY <1>34
       DEF TickAsks, TickEnds, LoopPass, NoInput, SwitchOnReturns, StartTriesLock,
           StartHeapCheck, StartBegins, StackComesUp, StartRolledBack, RetryStop, ReadStatus,
           AskAgain, sceneVars, stackVars, startVars, lockVars, buildVars, flagVars, policyVars,
           startElse, mainVars, renderElse, vars
  <2> QED
    BY <2>1, <1>33
<1> QED
  BY <1>1, <1>2, <1>3, <1>4, <1>5, <1>6, <1>7, <1>8, <1>9, <1>10, <1>11, <1>12, <1>13, <1>14,
     <1>15, <1>16, <1>17, <1>18, <1>19, <1>20, <1>21, <1>22, <1>23, <1>24, <1>25, <1>26, <1>27,
     <1>28, <1>29, <1>30, <1>31, <1>32, <1>33, <1>34
     DEF Next, Tick, Loop, Start, Render
LEMMA LockStep ==
  ASSUME Base, [Next]_vars
  PROVE  LockHeld'
<1>s. LockHeld
  BY DEF Base
<1>1. CASE RestartIntoBook
  BY <1>s, <1>1
     DEF RestartIntoBook, RestartDue, Busy, LockHeld
<1>2. CASE RenderBook \/ StartSettled \/ SettleTimedOut \/ PagePainted \/ PageNeedsBuild
           \/ AskForRoom \/ HoldForBuild
  BY <1>s, <1>2
     DEF RenderBook, LockFree, renderElse, sceneVars, policyVars, mainVars, startVars,
         stackVars, buildVars, flagsElse, StartSettled, SettleTimedOut, SettleEnds, PagePainted,
         flagVars, PageNeedsBuild, AskForRoom, AsksAgain, NotHeld, HoldForBuild, LockHeld
<1>3. CASE RenderCancels \/ RenderEnds \/ RadioReleased \/ RetryStop \/ StopTimedOut
           \/ ReadStatus
  BY <1>s, <1>3
     DEF RenderCancels, renderElse, sceneVars, policyVars, mainVars, startVars, stackVars,
         buildVars, flagsElse, RenderEnds, flagVars, RadioReleased, RetryStop, StopTimedOut,
         ReadStatus, Up, LockHeld
<1>4. CASE AskAgain \/ BuildRefused \/ ChapterBuilt
  BY <1>s, <1>4
     DEF AskAgain, renderElse, sceneVars, policyVars, mainVars, startVars, stackVars, buildVars,
         flagVars, BuildRefused, ChapterBuilt, LockHeld
<1>5. CASE UNCHANGED <<renderPc, renderLock>>
  BY <1>s, <1>5
     DEF LockHeld
<1>6. CASE TickEnter \/ TickStops \/ TickAsks \/ TickClaims \/ TickSpawns \/ TickStopsIdle
           \/ TickServes \/ TickEnds \/ ReleaseHold \/ BackgroundBuild \/ LoopPass \/ AskToLeave
           \/ NoInput \/ ToggleOff \/ ToggleOn \/ SwitchOn \/ SwitchOnReturns \/ Navigate
           \/ LeaveScreen \/ StartCheck \/ StartTriesLock \/ StartHeapCheck \/ StartBegins
           \/ StackComesUp \/ StartKept \/ StartRolledBack \/ StartFinishes \/ RenderOther
           \/ RemoteLinks \/ RemoteLost \/ UNCHANGED vars
  <2>1. UNCHANGED <<renderPc, renderLock>>
    BY <1>6
       DEF TickEnter, TickStops, TickAsks, TickClaims, TickSpawns, TickStopsIdle, TickServes,
           TickEnds, ReleaseHold, BackgroundBuild, LoopPass, AskToLeave, NoInput, ToggleOff,
           ToggleOn, SwitchOn, SwitchOnReturns, Navigate, LeaveScreen, StartCheck,
           StartTriesLock, StartHeapCheck, StartBegins, StackComesUp, StartKept,
           StartRolledBack, StartFinishes, RenderOther, RemoteLinks, RemoteLost, stackVars,
           startVars, lockVars, buildVars, sceneVars, policyVars, flagVars, startElse, mainVars,
           vars
  <2> QED
    BY <2>1, <1>5
<1> QED
  BY <1>1, <1>2, <1>3, <1>4, <1>5, <1>6
     DEF Next, Tick, Loop, Start, Render
LEMMA InFlightStep ==
  ASSUME Base, [Next]_vars
  PROVE  InFlight'
<1>s. InFlight
  BY DEF Base
<1>1. CASE TickEnter \/ TickStops
  BY <1>s, <1>1
     DEF TickEnter, stackVars, startVars, lockVars, buildVars, TickStops, MustStop, sceneVars,
         policyVars, InFlight
<1>2. CASE TickAsks
  BY <1>s, <1>2
     DEF TickAsks, MustStop, Up, sceneVars, stackVars, startVars, lockVars, buildVars, flagVars,
         InFlight
<1>3. CASE TickClaims
  BY <1>s, <1>3
     DEF TickClaims, sceneVars, stackVars, policyVars, lockVars, buildVars, InFlight
<1>4. CASE TickSpawns
  BY <1>s, <1>4
     DEF TickSpawns, Up, sceneVars, policyVars, lockVars, buildVars, InFlight
<1>5. CASE TickStopsIdle \/ TickServes
  BY <1>s, <1>5
     DEF TickStopsIdle, Up, stackVars, sceneVars, policyVars, startVars, lockVars, buildVars,
         TickServes, InFlight
<1>6. CASE TickEnds
  BY <1>s, <1>6
     DEF TickEnds, RestartDue, Busy, sceneVars, stackVars, policyVars, startVars, lockVars,
         buildVars, flagVars, InFlight
<1>7. CASE RestartIntoBook
  BY <1>s, <1>7
     DEF RestartIntoBook, RestartDue, Busy, InFlight
<1>8. CASE ReleaseHold \/ BackgroundBuild
  BY <1>s, <1>8
     DEF ReleaseHold, LockFree, sceneVars, stackVars, policyVars, startVars, lockVars,
         BackgroundBuild, HoldsHeap, Busy, flagVars, InFlight
<1>9. CASE LoopPass \/ AskToLeave
  BY <1>s, <1>9
     DEF LoopPass, LockFree, sceneVars, stackVars, policyVars, startVars, lockVars, buildVars,
         flagVars, AskToLeave, Ways, BookOpen, InFlight
<1>10. CASE NoInput \/ ToggleOff
  BY <1>s, <1>10
     DEF NoInput, sceneVars, stackVars, policyVars, startVars, lockVars, buildVars, flagVars,
         ToggleOff, InFlight
<1>11. CASE ToggleOn \/ SwitchOn
  BY <1>s, <1>11
     DEF ToggleOn, stackVars, policyVars, startVars, lockVars, buildVars, flagVars, SwitchOn,
         sceneVars, InFlight
<1>12. CASE SwitchOnReturns \/ Navigate
  BY <1>s, <1>12
     DEF SwitchOnReturns, sceneVars, stackVars, policyVars, startVars, lockVars, buildVars,
         flagVars, Navigate, KeepsRadio, Up, InFlight
<1>13. CASE LeaveScreen
  BY <1>s, <1>13
     DEF LeaveScreen, LockFree, HoldGivenBack, BookCloses, BookOpen, stackVars, policyVars,
         startVars, lockVars, InFlight
<1>14. CASE StartCheck \/ StartTriesLock
  BY <1>s, <1>14
     DEF StartCheck, Up, startElse, sceneVars, mainVars, lockVars, buildVars, flagVars,
         StartTriesLock, LockFree, InFlight
<1>15. CASE StartHeapCheck \/ StartBegins
  BY <1>s, <1>15
     DEF StartHeapCheck, startElse, sceneVars, mainVars, lockVars, buildVars, flagVars,
         StartBegins, InFlight
<1>16. CASE StackComesUp \/ StartKept
  BY <1>s, <1>16
     DEF StackComesUp, startElse, sceneVars, mainVars, lockVars, buildVars, flagVars, StartKept,
         InFlight
<1>17. CASE StartRolledBack \/ StartFinishes
  BY <1>s, <1>17
     DEF StartRolledBack, startElse, sceneVars, mainVars, lockVars, buildVars, flagVars,
         StartFinishes, policyVars, InFlight
<1>18. CASE UNCHANGED <<startPc, mainPc, attemptInFlight>>
  BY <1>s, <1>18
     DEF InFlight
<1>19. CASE RenderOther \/ RenderBook \/ StartSettled \/ SettleTimedOut \/ PagePainted
            \/ PageNeedsBuild \/ AskForRoom \/ HoldForBuild \/ RenderCancels \/ RenderEnds
            \/ RadioReleased \/ RetryStop \/ StopTimedOut \/ ReadStatus \/ AskAgain \/ BuildRefused
            \/ ChapterBuilt \/ RemoteLinks \/ RemoteLost \/ UNCHANGED vars
  <2>1. UNCHANGED <<startPc, mainPc, attemptInFlight>>
    BY <1>19
       DEF RenderOther, RenderBook, StartSettled, SettleTimedOut, SettleEnds, PagePainted,
           PageNeedsBuild, AskForRoom, HoldForBuild, RenderCancels, RenderEnds, RadioReleased,
           RetryStop, StopTimedOut, ReadStatus, AskAgain, BuildRefused, ChapterBuilt,
           RemoteLinks, RemoteLost, stackVars, policyVars, mainVars, startVars, lockVars,
           buildVars, flagVars, renderElse, sceneVars, flagsElse, vars
  <2> QED
    BY <2>1, <1>18
<1> QED
  BY <1>1, <1>2, <1>3, <1>4, <1>5, <1>6, <1>7, <1>8, <1>9, <1>10, <1>11, <1>12, <1>13, <1>14,
     <1>15, <1>16, <1>17, <1>18, <1>19
     DEF Next, Tick, Loop, Start, Render
LEMMA GoingStep ==
  ASSUME Base, [Next]_vars
  PROVE  Going'
<1>s. TypeOK /\ Going
  BY DEF Base
<1>1. CASE TickEnter \/ TickStops \/ TickAsks \/ TickClaims
  BY <1>s, <1>1, NumbersAssumption
     DEF TickEnter, stackVars, startVars, lockVars, buildVars, TickStops, MustStop, sceneVars,
         policyVars, TickAsks, Up, flagVars, TickClaims, Going, TypeOK, StateOK
<1>2. CASE TickSpawns \/ TickStopsIdle \/ TickServes \/ TickEnds
  BY <1>s, <1>2, NumbersAssumption
     DEF TickSpawns, Up, sceneVars, policyVars, lockVars, buildVars, TickStopsIdle, stackVars,
         startVars, TickServes, TickEnds, RestartDue, Busy, flagVars, Going, TypeOK, StateOK
<1>3. CASE RestartIntoBook
  BY <1>s, <1>3, NumbersAssumption
     DEF RestartIntoBook, RestartDue, Busy, Going, TypeOK, StateOK
<1>4. CASE ReleaseHold \/ BackgroundBuild \/ LoopPass \/ AskToLeave
  BY <1>s, <1>4, NumbersAssumption
     DEF ReleaseHold, LockFree, sceneVars, stackVars, policyVars, startVars, lockVars,
         BackgroundBuild, HoldsHeap, Busy, flagVars, LoopPass, buildVars, AskToLeave, Ways,
         BookOpen, Going, TypeOK, StateOK
<1>5. CASE NoInput \/ ToggleOff \/ ToggleOn \/ SwitchOn
  BY <1>s, <1>5, NumbersAssumption
     DEF NoInput, sceneVars, stackVars, policyVars, startVars, lockVars, buildVars, flagVars,
         ToggleOff, ToggleOn, SwitchOn, Going, TypeOK, StateOK
<1>6. CASE SwitchOnReturns \/ Navigate \/ LeaveScreen
  BY <1>s, <1>6, NumbersAssumption
     DEF SwitchOnReturns, sceneVars, stackVars, policyVars, startVars, lockVars, buildVars,
         flagVars, Navigate, KeepsRadio, Up, LeaveScreen, LockFree, HoldGivenBack, BookCloses,
         BookOpen, Going, TypeOK, StateOK
<1>7. CASE UNCHANGED <<leaving, visit, mainPc>>
  BY <1>s, <1>7
     DEF Going, TypeOK, StateOK
<1>8. CASE StartCheck \/ StartTriesLock \/ StartHeapCheck \/ StartBegins \/ StackComesUp
           \/ StartKept \/ StartRolledBack \/ StartFinishes \/ RenderOther \/ RenderBook
           \/ StartSettled \/ SettleTimedOut \/ PagePainted \/ PageNeedsBuild \/ AskForRoom
           \/ HoldForBuild \/ RenderCancels \/ RenderEnds \/ RadioReleased \/ RetryStop
           \/ StopTimedOut \/ ReadStatus \/ AskAgain \/ BuildRefused \/ ChapterBuilt \/ RemoteLinks
           \/ RemoteLost \/ UNCHANGED vars
  <2>1. UNCHANGED <<leaving, visit, mainPc>>
    BY <1>8
       DEF StartCheck, StartTriesLock, StartHeapCheck, StartBegins, StackComesUp, StartKept,
           StartRolledBack, StartFinishes, RenderOther, RenderBook, StartSettled, SettleTimedOut,
           SettleEnds, PagePainted, PageNeedsBuild, AskForRoom, HoldForBuild, RenderCancels,
           RenderEnds, RadioReleased, RetryStop, StopTimedOut, ReadStatus, AskAgain,
           BuildRefused, ChapterBuilt, RemoteLinks, RemoteLost, startElse, sceneVars, mainVars,
           lockVars, buildVars, flagVars, policyVars, stackVars, startVars, renderElse,
           flagsElse, vars
  <2> QED
    BY <2>1, <1>7
<1> QED
  BY <1>1, <1>2, <1>3, <1>4, <1>5, <1>6, <1>7, <1>8
     DEF Next, Tick, Loop, Start, Render
LEMMA BaseStep == ASSUME Base, [Next]_vars PROVE Base'
  BY StateStep, FlagsStep, LockStep, InFlightStep, GoingStep DEF Base, TypeOK
-----------------------------------------------------------------------------
(* The heap, the radio and the build *)

\* While a start takes the heap the book is not painted, but for the wait for it.
\* One that outlasts the wait may be painted beside; the radio is not stopped
\* under it, and no chapter is built.
HeapAlone ==
  TakesHeap => \/ renderPc \in {"idle", "settle"}
               \/ outlasted /\ renderPc \notin {"cancel", "end", "unhold", "stopRetry", "build"}

\* What the build has read of the radio still holds, but for a start that has
\* outlasted the wait and may come up between the reads.
Reads ==
  /\ renderPc = "readStopping" => radio # "up" \/ outlasted
  /\ renderPc \in {"readStarting", "build"} => radio = "off" \/ outlasted

LEMMA HeapAloneStep ==
  ASSUME Base, HeapAlone, [Next]_vars
  PROVE  HeapAlone'
<1>s. HeapAlone /\ LockHeld /\ InFlight
  BY DEF Base
<1>1. CASE TickSpawns \/ RestartIntoBook
  BY <1>s, <1>1
     DEF TickSpawns, Up, sceneVars, policyVars, lockVars, buildVars, RestartIntoBook,
         RestartDue, Busy, HeapAlone, TakesHeap, Base, LockHeld, InFlight
<1>2. CASE SwitchOn
  BY <1>s, <1>2
     DEF SwitchOn, sceneVars, policyVars, lockVars, buildVars, HeapAlone, TakesHeap, Base,
         LockHeld, InFlight
<1>3. CASE StartCheck \/ StartTriesLock \/ StartHeapCheck \/ StartBegins \/ StackComesUp
           \/ StartKept
  BY <1>s, <1>3
     DEF StartCheck, Up, startElse, sceneVars, mainVars, lockVars, buildVars, flagVars,
         StartTriesLock, LockFree, StartHeapCheck, StartBegins, StackComesUp, StartKept,
         HeapAlone, TakesHeap, Base, LockHeld, InFlight
<1>4. CASE StartRolledBack \/ StartFinishes
  BY <1>s, <1>4
     DEF StartRolledBack, startElse, sceneVars, mainVars, lockVars, buildVars, flagVars,
         StartFinishes, policyVars, HeapAlone, TakesHeap, Base, LockHeld, InFlight
<1>5. CASE RenderBook \/ StartSettled \/ SettleTimedOut \/ PagePainted \/ PageNeedsBuild
           \/ AskForRoom \/ HoldForBuild
  BY <1>s, <1>5
     DEF RenderBook, LockFree, renderElse, sceneVars, policyVars, mainVars, startVars,
         stackVars, buildVars, flagsElse, StartSettled, SettleTimedOut, SettleEnds, PagePainted,
         flagVars, PageNeedsBuild, AskForRoom, AsksAgain, NotHeld, HoldForBuild, HeapAlone,
         TakesHeap, Base, LockHeld, InFlight
<1>6. CASE RenderCancels \/ RenderEnds \/ RadioReleased \/ RetryStop \/ StopTimedOut
           \/ ReadStatus
  BY <1>s, <1>6
     DEF RenderCancels, renderElse, sceneVars, policyVars, mainVars, startVars, stackVars,
         buildVars, flagsElse, RenderEnds, flagVars, RadioReleased, RetryStop, StopTimedOut,
         ReadStatus, Up, HeapAlone, TakesHeap, Base, LockHeld, InFlight
<1>7. CASE AskAgain \/ BuildRefused \/ ChapterBuilt
  BY <1>s, <1>7
     DEF AskAgain, renderElse, sceneVars, policyVars, mainVars, startVars, stackVars, buildVars,
         flagVars, BuildRefused, ChapterBuilt, HeapAlone, TakesHeap, Base, LockHeld, InFlight
<1>8. CASE UNCHANGED <<startPc, renderPc, outlasted>>
  BY <1>s, <1>8
     DEF HeapAlone, TakesHeap, Base, LockHeld, InFlight
<1>9. CASE TickEnter \/ TickStops \/ TickAsks \/ TickClaims \/ TickStopsIdle \/ TickServes
           \/ TickEnds \/ ReleaseHold \/ BackgroundBuild \/ LoopPass \/ AskToLeave \/ NoInput
           \/ ToggleOff \/ ToggleOn \/ SwitchOnReturns \/ Navigate \/ LeaveScreen \/ RenderOther
           \/ RemoteLinks \/ RemoteLost \/ UNCHANGED vars
  <2>1. UNCHANGED <<startPc, renderPc, outlasted>>
    BY <1>9
       DEF TickEnter, TickStops, TickAsks, TickClaims, TickStopsIdle, TickServes, TickEnds,
           ReleaseHold, BackgroundBuild, LoopPass, AskToLeave, NoInput, ToggleOff, ToggleOn,
           SwitchOnReturns, Navigate, LeaveScreen, RenderOther, RemoteLinks, RemoteLost,
           stackVars, startVars, lockVars, buildVars, sceneVars, policyVars, flagVars, mainVars,
           vars
  <2> QED
    BY <2>1, <1>8
<1> QED
  BY <1>1, <1>2, <1>3, <1>4, <1>5, <1>6, <1>7, <1>8, <1>9
     DEF Next, Tick, Loop, Start, Render

LEMMA ReadsStep ==
  ASSUME Base, HeapAlone, Reads, [Next]_vars
  PROVE  Reads'
<1>s. Reads /\ HeapAlone /\ radio \in {"off", "up", "stopping"}
  BY DEF Base, TypeOK, StateOK
<1>1. CASE TickEnter \/ TickStops \/ TickStopsIdle \/ RestartIntoBook
  BY <1>s, <1>1
     DEF TickEnter, Suspend, stackVars, startVars, lockVars, buildVars, TickStops, MustStop,
         sceneVars, policyVars, TickStopsIdle, Up, RestartIntoBook, RestartDue, Busy, Reads,
         HeapAlone, TakesHeap
<1>2. CASE ToggleOff \/ Navigate
  BY <1>s, <1>2
     DEF ToggleOff, Suspend, stackVars, policyVars, startVars, lockVars, buildVars, Navigate,
         KeepsRadio, Up, sceneVars, Reads, HeapAlone, TakesHeap
<1>3. CASE StackComesUp \/ StartRolledBack
  BY <1>s, <1>3
     DEF StackComesUp, startElse, sceneVars, mainVars, lockVars, buildVars, flagVars,
         StartRolledBack, Reads, HeapAlone, TakesHeap
<1>4. CASE RenderBook \/ StartSettled \/ SettleTimedOut \/ PagePainted \/ PageNeedsBuild
           \/ AskForRoom \/ HoldForBuild
  BY <1>s, <1>4
     DEF RenderBook, LockFree, renderElse, sceneVars, policyVars, mainVars, startVars,
         stackVars, buildVars, flagsElse, StartSettled, SettleTimedOut, SettleEnds, PagePainted,
         flagVars, PageNeedsBuild, AskForRoom, AsksAgain, NotHeld, HoldForBuild, Reads,
         HeapAlone, TakesHeap
<1>5. CASE RenderCancels \/ RenderEnds \/ RadioReleased \/ RetryStop \/ StopTimedOut
           \/ ReadStatus
  BY <1>s, <1>5
     DEF RenderCancels, renderElse, sceneVars, policyVars, mainVars, startVars, stackVars,
         buildVars, flagsElse, RenderEnds, flagVars, RadioReleased, RetryStop, StopTimedOut,
         ReadStatus, Up, Reads, HeapAlone, TakesHeap
<1>6. CASE AskAgain \/ BuildRefused \/ ChapterBuilt
  BY <1>s, <1>6
     DEF AskAgain, renderElse, sceneVars, policyVars, mainVars, startVars, stackVars, buildVars,
         flagVars, BuildRefused, ChapterBuilt, Reads, HeapAlone, TakesHeap
<1>7. CASE UNCHANGED <<radio, renderPc, outlasted>>
  BY <1>s, <1>7
     DEF Reads, HeapAlone, TakesHeap
<1>8. CASE TickAsks \/ TickClaims \/ TickSpawns \/ TickServes \/ TickEnds \/ ReleaseHold
           \/ BackgroundBuild \/ LoopPass \/ AskToLeave \/ NoInput \/ ToggleOn \/ SwitchOn
           \/ SwitchOnReturns \/ LeaveScreen \/ StartCheck \/ StartTriesLock \/ StartHeapCheck
           \/ StartBegins \/ StartKept \/ StartFinishes \/ RenderOther \/ RemoteLinks
           \/ RemoteLost \/ UNCHANGED vars
  <2>1. UNCHANGED <<radio, renderPc, outlasted>>
    BY <1>8
       DEF TickAsks, TickClaims, TickSpawns, TickServes, TickEnds, ReleaseHold, BackgroundBuild,
           LoopPass, AskToLeave, NoInput, ToggleOn, SwitchOn, SwitchOnReturns, LeaveScreen,
           StartCheck, StartTriesLock, StartHeapCheck, StartBegins, StartKept, StartFinishes,
           RenderOther, RemoteLinks, RemoteLost, sceneVars, stackVars, startVars, lockVars,
           buildVars, flagVars, policyVars, startElse, mainVars, vars
  <2> QED
    BY <2>1, <1>7
<1> QED
  BY <1>1, <1>2, <1>3, <1>4, <1>5, <1>6, <1>7, <1>8
     DEF Next, Tick, Loop, Start, Render
-----------------------------------------------------------------------------
(* The restart for a heap in pieces *)

\* After the restart the memo is there and nothing wants another one.
Memo ==
  restarts \in {0, 1} /\ (restarts = 1 => heapTracker.spent /\ ~heapTracker.wanted)

LEMMA RefusedSays ==
  ASSUME heapTracker \in Trackers, NEW why, Refused(why)
  PROVE  /\ heapTracker'.spent = heapTracker.spent
         /\ heapTracker'.wanted => heapTracker.wanted \/ ~heapTracker.spent
  BY Zenon DEF Refused, Trackers

LEMMA InconclusiveSays ==
  ASSUME heapTracker \in Trackers, Inconclusive
  PROVE  heapTracker'.spent = heapTracker.spent /\ ~heapTracker'.wanted
  BY Zenon DEF Inconclusive, Trackers
LEMMA MemoStep ==
  ASSUME Base, Memo, [Next]_vars
  PROVE  Memo'
<1>s. Memo /\ heapTracker \in Trackers
  BY DEF Base, TypeOK, StateOK
<1>1. CASE RestartIntoBook
  BY <1>s, <1>1
     DEF RestartIntoBook, RestartDue, Busy, NewTracker, Memo
<1>2. CASE StartHeapCheck
  BY <1>s, <1>2, RefusedSays, InconclusiveSays
     DEF StartHeapCheck, startElse, sceneVars, mainVars, lockVars, buildVars, flagVars, Memo
<1>3. CASE StartBegins
  BY <1>s, <1>3, RefusedSays, InconclusiveSays
     DEF StartBegins, startElse, sceneVars, mainVars, lockVars, buildVars, flagVars, Memo
<1>4. CASE StackComesUp
  BY <1>s, <1>4, RefusedSays, InconclusiveSays
     DEF StackComesUp, startElse, sceneVars, mainVars, lockVars, buildVars, flagVars, Memo
<1>5. CASE StartKept
  BY <1>s, <1>5
     DEF StartKept, NewTracker, startElse, sceneVars, mainVars, lockVars, buildVars, flagVars,
         Memo
<1>6. CASE StartRolledBack
  BY <1>s, <1>6, RefusedSays, InconclusiveSays
     DEF StartRolledBack, startElse, sceneVars, mainVars, lockVars, buildVars, flagVars, Memo
<1>7. CASE UNCHANGED <<heapTracker, restarts>>
  BY <1>s, <1>7
     DEF Memo
<1>8. CASE TickEnter \/ TickStops \/ TickAsks \/ TickClaims \/ TickSpawns \/ TickStopsIdle
           \/ TickServes \/ TickEnds \/ ReleaseHold \/ BackgroundBuild \/ LoopPass \/ AskToLeave
           \/ NoInput \/ ToggleOff \/ ToggleOn \/ SwitchOn \/ SwitchOnReturns \/ Navigate
           \/ LeaveScreen \/ StartCheck \/ StartTriesLock \/ StartFinishes \/ RenderOther
           \/ RenderBook \/ StartSettled \/ SettleTimedOut \/ PagePainted \/ PageNeedsBuild
           \/ AskForRoom \/ HoldForBuild \/ RenderCancels \/ RenderEnds \/ RadioReleased
           \/ RetryStop \/ StopTimedOut \/ ReadStatus \/ AskAgain \/ BuildRefused \/ ChapterBuilt
           \/ RemoteLinks \/ RemoteLost \/ UNCHANGED vars
  <2>1. UNCHANGED <<heapTracker, restarts>>
    BY <1>8
       DEF TickEnter, TickStops, TickAsks, TickClaims, TickSpawns, TickStopsIdle, TickServes,
           TickEnds, ReleaseHold, BackgroundBuild, LoopPass, AskToLeave, NoInput, ToggleOff,
           ToggleOn, SwitchOn, SwitchOnReturns, Navigate, LeaveScreen, StartCheck,
           StartTriesLock, StartFinishes, RenderOther, RenderBook, StartSettled, SettleTimedOut,
           SettleEnds, PagePainted, PageNeedsBuild, AskForRoom, HoldForBuild, RenderCancels,
           RenderEnds, RadioReleased, RetryStop, StopTimedOut, ReadStatus, AskAgain,
           BuildRefused, ChapterBuilt, RemoteLinks, RemoteLost, stackVars, startVars, lockVars,
           buildVars, sceneVars, policyVars, flagVars, startElse, mainVars, renderElse,
           flagsElse, vars
  <2> QED
    BY <2>1, <1>7
<1> QED
  BY <1>1, <1>2, <1>3, <1>4, <1>5, <1>6, <1>7, <1>8
     DEF Next, Tick, Loop, Start, Render
-----------------------------------------------------------------------------
(* The hold of a build, and the way out of a screen *)
LEMMA HoldStep ==
  ASSUME Base, HoldHasOwner, [Next]_vars
  PROVE  HoldHasOwner'
<1>s. HoldHasOwner /\ LockHeld
  BY DEF Base
<1>1. CASE TickEnter \/ RestartIntoBook
  BY <1>s, <1>1
     DEF TickEnter, stackVars, EnterVisit, startVars, lockVars, buildVars, RestartIntoBook,
         RestartDue, Busy, HoldHasOwner, LockHeld
<1>2. CASE ReleaseHold \/ LeaveScreen
  BY <1>s, <1>2
     DEF ReleaseHold, LockFree, sceneVars, stackVars, policyVars, startVars, lockVars,
         LeaveScreen, HoldGivenBack, BookCloses, BookOpen, HoldHasOwner, LockHeld
<1>3. CASE RenderBook \/ StartSettled \/ SettleTimedOut \/ PagePainted \/ PageNeedsBuild
           \/ AskForRoom \/ HoldForBuild
  BY <1>s, <1>3
     DEF RenderBook, LockFree, renderElse, sceneVars, policyVars, mainVars, startVars,
         stackVars, buildVars, flagsElse, StartSettled, SettleTimedOut, SettleEnds, PagePainted,
         flagVars, PageNeedsBuild, AskForRoom, AsksAgain, NotHeld, HoldForBuild, HoldHasOwner,
         LockHeld
<1>4. CASE RenderCancels \/ RenderEnds \/ RadioReleased \/ RetryStop \/ StopTimedOut
           \/ ReadStatus
  BY <1>s, <1>4
     DEF RenderCancels, renderElse, sceneVars, policyVars, mainVars, startVars, stackVars,
         buildVars, flagsElse, RenderEnds, flagVars, RadioReleased, RetryStop, StopTimedOut,
         ReadStatus, Up, HoldHasOwner, LockHeld
<1>5. CASE AskAgain \/ BuildRefused \/ ChapterBuilt
  BY <1>s, <1>5
     DEF AskAgain, renderElse, sceneVars, policyVars, mainVars, startVars, stackVars, buildVars,
         flagVars, BuildRefused, ChapterBuilt, HoldHasOwner, LockHeld
<1>6. CASE UNCHANGED <<heldForBuild, radioReleasedForBuild, renderPc>>
  BY <1>s, <1>6
     DEF HoldHasOwner, LockHeld
<1>7. CASE TickStops \/ TickAsks \/ TickClaims \/ TickSpawns \/ TickStopsIdle \/ TickServes
           \/ TickEnds \/ BackgroundBuild \/ LoopPass \/ AskToLeave \/ NoInput \/ ToggleOff
           \/ ToggleOn \/ SwitchOn \/ SwitchOnReturns \/ Navigate \/ StartCheck
           \/ StartTriesLock \/ StartHeapCheck \/ StartBegins \/ StackComesUp \/ StartKept
           \/ StartRolledBack \/ StartFinishes \/ RenderOther \/ RemoteLinks \/ RemoteLost
           \/ UNCHANGED vars
  <2>1. UNCHANGED <<heldForBuild, radioReleasedForBuild, renderPc>>
    BY <1>7
       DEF TickStops, TickAsks, TickClaims, TickSpawns, TickStopsIdle, TickServes, TickEnds,
           BackgroundBuild, LoopPass, AskToLeave, NoInput, ToggleOff, ToggleOn, SwitchOn,
           SwitchOnReturns, Navigate, StartCheck, StartTriesLock, StartHeapCheck, StartBegins,
           StackComesUp, StartKept, StartRolledBack, StartFinishes, RenderOther, RemoteLinks,
           RemoteLost, stackVars, sceneVars, policyVars, startVars, lockVars, buildVars,
           flagVars, startElse, mainVars, vars
  <2> QED
    BY <2>1, <1>6
<1> QED
  BY <1>1, <1>2, <1>3, <1>4, <1>5, <1>6, <1>7
     DEF Next, Tick, Loop, Start, Render
\* A transition has a radio that is off, or that the book takes over.
Leaving ==
  mainPc = "leave" =>
    ~attemptInFlight /\ (radio = "off" \/ (homeStart /\ leaving = "Reader"))

LEMMA LeavingStep ==
  ASSUME Base, Leaving, [Next]_vars
  PROVE  Leaving'
<1>s. Leaving /\ InFlight /\ Going
  BY DEF Base
<1>1. CASE TickEnter \/ TickStops \/ TickAsks \/ TickClaims \/ TickSpawns \/ TickStopsIdle
  BY <1>s, <1>1
     DEF TickEnter, Suspend, stackVars, startVars, lockVars, buildVars, TickStops, MustStop,
         sceneVars, policyVars, TickAsks, Up, flagVars, TickClaims, TickSpawns, TickStopsIdle,
         Leaving, InFlight, Going
<1>2. CASE TickServes \/ TickEnds \/ RestartIntoBook
  BY <1>s, <1>2
     DEF TickServes, Up, sceneVars, startVars, lockVars, buildVars, TickEnds, RestartDue, Busy,
         stackVars, policyVars, flagVars, RestartIntoBook, Leaving, InFlight, Going
<1>3. CASE ReleaseHold \/ BackgroundBuild \/ LoopPass \/ AskToLeave \/ NoInput \/ ToggleOff
  BY <1>s, <1>3
     DEF ReleaseHold, LockFree, sceneVars, stackVars, policyVars, startVars, lockVars,
         BackgroundBuild, HoldsHeap, Busy, flagVars, LoopPass, buildVars, AskToLeave, Ways,
         BookOpen, NoInput, ToggleOff, Suspend, Leaving, InFlight, Going
<1>4. CASE ToggleOn \/ SwitchOn \/ SwitchOnReturns \/ Navigate \/ LeaveScreen
  BY <1>s, <1>4
     DEF ToggleOn, stackVars, policyVars, startVars, lockVars, buildVars, flagVars, SwitchOn,
         sceneVars, SwitchOnReturns, Navigate, KeepsRadio, Up, Suspend, LeaveScreen, LockFree,
         HoldGivenBack, BookCloses, BookOpen, Leaving, InFlight, Going
<1>5. CASE StackComesUp \/ StartRolledBack \/ StartFinishes
  BY <1>s, <1>5
     DEF StackComesUp, startElse, sceneVars, mainVars, lockVars, buildVars, flagVars,
         StartRolledBack, StartFinishes, policyVars, Leaving, InFlight, Going
<1>6. CASE RenderEnds
  BY <1>s, <1>6
     DEF RenderEnds, stackVars, renderElse, sceneVars, policyVars, mainVars, startVars,
         buildVars, flagVars, Leaving, InFlight, Going
<1>7. CASE UNCHANGED <<mainPc, attemptInFlight, radio, homeStart, leaving>>
  BY <1>s, <1>7
     DEF Leaving, InFlight, Going
<1>8. CASE StartCheck \/ StartTriesLock \/ StartHeapCheck \/ StartBegins \/ StartKept
           \/ RenderOther \/ RenderBook \/ StartSettled \/ SettleTimedOut \/ PagePainted
           \/ PageNeedsBuild \/ AskForRoom \/ HoldForBuild \/ RenderCancels \/ RadioReleased
           \/ RetryStop \/ StopTimedOut \/ ReadStatus \/ AskAgain \/ BuildRefused \/ ChapterBuilt
           \/ RemoteLinks \/ RemoteLost \/ UNCHANGED vars
  <2>1. UNCHANGED <<mainPc, attemptInFlight, radio, homeStart, leaving>>
    BY <1>8
       DEF StartCheck, StartTriesLock, StartHeapCheck, StartBegins, StartKept, RenderOther,
           RenderBook, StartSettled, SettleTimedOut, SettleEnds, PagePainted, PageNeedsBuild,
           AskForRoom, HoldForBuild, RenderCancels, RadioReleased, RetryStop, StopTimedOut,
           ReadStatus, AskAgain, BuildRefused, ChapterBuilt, RemoteLinks, RemoteLost, startElse,
           sceneVars, mainVars, lockVars, buildVars, flagVars, stackVars, policyVars, startVars,
           renderElse, flagsElse, vars
  <2> QED
    BY <2>1, <1>7
<1> QED
  BY <1>1, <1>2, <1>3, <1>4, <1>5, <1>6, <1>7, <1>8
     DEF Next, Tick, Loop, Start, Render
-----------------------------------------------------------------------------
(* The bonded remote *)

\* A start finds the radio off and, when it is done, knows whether it is up.
StackOwned ==
  /\ startPc = "check" => radio = "off" \/ inSync
  /\ startPc \in {"lock", "heap", "begin", "starting"} => radio = "off"
  /\ startPc = "finish" /\ Up => startOk \/ attemptCancelled
  /\ inSync => mainPc = "sync" /\ startPc # "none" /\ ~readerStartDeferred

\* A radio that is up has no start to repeat, nor one that stopped for idleness.
Deferred ==
  /\ readerStartDeferred /\ Up => attemptInFlight
  /\ mainPc = "spawn" => ~readerStartDeferred

Idle == radioIdleStopped => ~Up /\ ~attemptInFlight

\* The stack looks for the remote only while it is up and switched on.
Armed ==
  /\ armed => Up /\ ~attemptInFlight
  /\ mainPc \in {"claim", "switchOn"} \/ ~enabled => ~armed
  /\ ~enabled => mainPc \notin {"claim", "spawn", "serve"}

\* What tick() has found of the screen stays true until it returns.
Scene ==
  /\ book.id <= visit
  /\ mainPc \in {"decide", "claim", "spawn", "serve"} =>
       /\ visit = book.id /\ ~rearmRequested
       /\ leaving # "none" => lastScene = "Elsewhere"
       /\ lastScene = "Home" => screen = "Home"
       /\ lastScene = "Reader" => screen \in {"Reader", "Menu"}

\* A visit that could ask for the radio has asked before it is served.
Asked ==
  /\ mainPc \in {"claim", "spawn"} => book.attempted
  /\ /\ mainPc = "serve" /\ ~book.attempted
     /\ \/ lastScene = "Reader" /\ ~heldForBuild
        \/ lastScene = "Home" /\ homeStart
     => ~Up /\ startPc \notin {"check", "lock", "heap", "begin", "starting"}

\* A visit whose reconnect was armed: no start follows before it is rearmed,
\* so a radio that is up still looks for the remote.
Linked == visit = book.id /\ book.reconnectArmed

Served ==
  Linked =>
    /\ ~attemptInFlight /\ ~readerStartDeferred /\ (Up => armed)
    /\ mainPc \notin {"claim", "spawn", "switchOn", "sync"}
    /\ ~enabled => mainPc \in {"navigate", "leave", "tick"}
    /\ \/ lastScene = "Home" /\ homeStart /\ screen = "Home" /\ book.attempted
       \/ lastScene = "Reader" /\ screen \in {"Reader", "Menu"}

\* Why such a visit, when it may ask once more, does not ask.
Off == heldForBuild \/ ~enabled \/ leaving # "none"

Quiet ==
  Linked /\ ~book.attempted =>
    /\ renderPc \in {"cancel", "end", "stopRetry"} => Off
    /\ Off \/ radioIdleStopped \/ rearmRequested \/ (mainPc = "decide" /\ Up)

Remote == StackOwned /\ Deferred /\ Idle /\ Armed /\ Scene /\ Asked /\ Served /\ Quiet
LEMMA EnterVisitSays ==
  ASSUME TypeOK, EnterVisit
  PROVE  /\ lastScene' = Where /\ ~rearmRequested' /\ book'.id = visit
         /\ readerStartDeferred' => readerStartDeferred
         /\ radioIdleStopped' => radioIdleStopped
         /\ book'.reconnectArmed =>
              /\ visit = book.id /\ book.reconnectArmed /\ enabled
              /\ Where = "Reader" \/ (Where = "Home" /\ homeStart)
              /\ book'.attempted <=> book.attempted
              /\ heldForBuild' <=> heldForBuild
              /\ Where # "Reader" => radioIdleStopped' = radioIdleStopped
              /\ Where = "Reader" => \/ ~rearmRequested \/ radioIdleStopped
                                    \/ attemptInFlight \/ radio' = "up"
              /\ \/ radioIdleStopped' = radioIdleStopped
                 \/ attemptInFlight \/ radio' = "up"
<1> DEFINE reader == Where = "Reader"
           isEntered == reader /\ (lastScene # "Reader" \/ visit # book.id)
           over == ~(reader \/ (Where = "Home" /\ homeStart)) \/ ~enabled \/ visit # book.id
           rearm == reader /\ enabled /\ RearmWanted(isEntered, connectRequested, rearmRequested)
           again == rearm /\ ~attemptInFlight /\ radio' # "up"
           manual == connectRequested /\ reader /\ enabled
           kept == IF over THEN NewVisit(visit) ELSE book
           asking == IF again THEN Rearmed(kept) ELSE kept
           asks == asking.manualConnect \/ (manual /\ ~connected')
<1>1. kept \in Visits /\ kept.id = visit
  BY NewTyped DEF TypeOK, StateOK, NewVisit
<1>2. kept.reconnectArmed => ~over /\ kept = book
  BY DEF NewVisit
<1>3. asking \in Visits /\ asking.id = visit
  BY <1>1, RearmedTyped DEF Rearmed, Visits
<1>4. asking.reconnectArmed => ~again /\ asking = kept
  BY <1>1 DEF Rearmed, Visits
<1>5. book' = [asking EXCEPT !.manualConnect = asks]
  BY DEF EnterVisit
<1>6. /\ book'.id = visit /\ book'.reconnectArmed = asking.reconnectArmed
      /\ book'.attempted = asking.attempted
  <2> HIDE DEF asking, asks
  <2> QED
    BY <1>3, <1>5 DEF Visits
<1>7. /\ heldForBuild' = (heldForBuild /\ visit = book.id)
      /\ radioIdleStopped' = (radioIdleStopped /\ ~rearm)
      /\ readerStartDeferred' = (readerStartDeferred /\ ~again)
      /\ rearmRequested' = FALSE /\ lastScene' = Where
  BY DEF EnterVisit
<1>8. ASSUME book'.reconnectArmed PROVE ~over /\ ~again /\ asking = book
  BY <1>2, <1>4, <1>6, <1>8
<1>9. rearm => reader
  OBVIOUS
<1>10. ~over /\ reader /\ rearmRequested /\ ~radioIdleStopped => rearm
  BY DEF RearmWanted
<1> HIDE DEF asking, kept, rearm
<1> QED
  BY <1>6, <1>7, <1>8, <1>9, <1>10 DEF TypeOK, FlagsOK
LEMMA StackOwnedStep ==
  ASSUME Base, StackOwned, [Next]_vars
  PROVE  StackOwned'
<1>s. TypeOK /\ StackOwned /\ InFlight
  BY DEF Base
<1>1. CASE TickEnter
  BY <1>s, <1>1, EnterVisitSays
     DEF TickEnter, Suspend, stackVars, startVars, lockVars, buildVars, StackOwned, InFlight, Up
<1>2. CASE TickStops
  BY <1>s, <1>2
     DEF TickStops, MustStop, Suspend, stackVars, sceneVars, policyVars, startVars, lockVars,
         buildVars, StackOwned, InFlight, Up
<1>3. CASE TickAsks
  BY <1>s, <1>3
     DEF TickAsks, MustStop, Up, sceneVars, stackVars, startVars, lockVars, buildVars, flagVars,
         StackOwned, InFlight
<1>4. CASE TickClaims
  BY <1>s, <1>4
     DEF TickClaims, sceneVars, stackVars, policyVars, lockVars, buildVars, StackOwned,
         InFlight, Up
<1>5. CASE TickSpawns
  BY <1>s, <1>5
     DEF TickSpawns, Up, sceneVars, policyVars, lockVars, buildVars, StackOwned, InFlight
<1>6. CASE TickStopsIdle
  BY <1>s, <1>6
     DEF TickStopsIdle, Up, Suspend, stackVars, sceneVars, policyVars, startVars, lockVars,
         buildVars, StackOwned, InFlight
<1>7. CASE TickServes
  BY <1>s, <1>7
     DEF TickServes, Up, sceneVars, startVars, lockVars, buildVars, StackOwned, InFlight
<1>8. CASE TickEnds
  BY <1>s, <1>8
     DEF TickEnds, RestartDue, Busy, sceneVars, stackVars, policyVars, startVars, lockVars,
         buildVars, flagVars, StackOwned, InFlight, Up
<1>9. CASE RestartIntoBook
  BY <1>s, <1>9
     DEF RestartIntoBook, RestartDue, Busy, StackOwned, InFlight, Up, NewVisit
<1>10. CASE ReleaseHold \/ BackgroundBuild \/ LoopPass
  BY <1>s, <1>10
     DEF ReleaseHold, LockFree, sceneVars, stackVars, policyVars, startVars, lockVars,
         BackgroundBuild, HoldsHeap, Busy, flagVars, LoopPass, buildVars, StackOwned, InFlight,
         Up
<1>11. CASE AskToLeave \/ NoInput \/ ToggleOff
  BY <1>s, <1>11
     DEF AskToLeave, Ways, BookOpen, LockFree, stackVars, policyVars, startVars, lockVars,
         flagVars, NoInput, sceneVars, buildVars, ToggleOff, Suspend, StackOwned, InFlight, Up
<1>12. CASE ToggleOn
  BY <1>s, <1>12
     DEF ToggleOn, stackVars, policyVars, startVars, lockVars, buildVars, flagVars, StackOwned,
         InFlight, Up
<1>13. CASE SwitchOn
  BY <1>s, <1>13
     DEF SwitchOn, sceneVars, policyVars, lockVars, buildVars, StackOwned, InFlight, Up
<1>14. CASE SwitchOnReturns
  BY <1>s, <1>14
     DEF SwitchOnReturns, sceneVars, stackVars, policyVars, startVars, lockVars, buildVars,
         flagVars, StackOwned, InFlight, Up
<1>15. CASE Navigate
  BY <1>s, <1>15
     DEF Navigate, stackVars, KeepsRadio, Up, Suspend, sceneVars, policyVars, startVars,
         lockVars, buildVars, StackOwned, InFlight
<1>16. CASE LeaveScreen
  BY <1>s, <1>16
     DEF LeaveScreen, LockFree, HoldGivenBack, BookCloses, BookOpen, stackVars, policyVars,
         startVars, lockVars, StackOwned, InFlight, Up
<1>17. CASE StartCheck
  BY <1>s, <1>17
     DEF StartCheck, Up, startElse, sceneVars, mainVars, lockVars, buildVars, flagVars,
         StackOwned, InFlight
<1>18. CASE StartTriesLock
  BY <1>s, <1>18
     DEF StartTriesLock, LockFree, startElse, sceneVars, mainVars, lockVars, buildVars,
         flagVars, StackOwned, InFlight, Up
<1>19. CASE StartHeapCheck \/ StartBegins
  BY <1>s, <1>19
     DEF StartHeapCheck, startElse, sceneVars, mainVars, lockVars, buildVars, flagVars,
         StartBegins, StackOwned, InFlight, Up
<1>20. CASE StackComesUp
  BY <1>s, <1>20
     DEF StackComesUp, startElse, sceneVars, mainVars, lockVars, buildVars, flagVars,
         StackOwned, InFlight, Up
<1>21. CASE StartKept
  BY <1>s, <1>21
     DEF StartKept, startElse, sceneVars, mainVars, lockVars, buildVars, flagVars, StackOwned,
         InFlight, Up
<1>22. CASE StartRolledBack
  BY <1>s, <1>22
     DEF StartRolledBack, startElse, sceneVars, mainVars, lockVars, buildVars, flagVars,
         StackOwned, InFlight, Up
<1>23. CASE StartFinishes
  BY <1>s, <1>23
     DEF StartFinishes, sceneVars, policyVars, mainVars, lockVars, buildVars, StackOwned,
         InFlight, Up
<1>24. CASE HoldForBuild \/ RenderCancels \/ RenderEnds
  BY <1>s, <1>24
     DEF HoldForBuild, renderElse, sceneVars, policyVars, mainVars, startVars, stackVars,
         buildVars, flagsElse, RenderCancels, RenderEnds, flagVars, StackOwned, InFlight, Up
<1>25. CASE UNCHANGED <<startPc, radio, startOk, attemptCancelled, inSync, mainPc,
                        readerStartDeferred>>
  BY <1>s, <1>25
     DEF StackOwned, InFlight, Up
<1>26. CASE RenderOther \/ RenderBook \/ StartSettled \/ SettleTimedOut \/ PagePainted
            \/ PageNeedsBuild \/ AskForRoom \/ RadioReleased \/ RetryStop \/ StopTimedOut
            \/ ReadStatus \/ AskAgain \/ BuildRefused \/ ChapterBuilt \/ RemoteLinks \/ RemoteLost
            \/ UNCHANGED vars
  <2>1. UNCHANGED <<startPc, radio, startOk, attemptCancelled, inSync, mainPc,
                    readerStartDeferred>>
    BY <1>26
       DEF RenderOther, RenderBook, StartSettled, SettleTimedOut, SettleEnds, PagePainted,
           PageNeedsBuild, AskForRoom, RadioReleased, RetryStop, StopTimedOut, ReadStatus,
           AskAgain, BuildRefused, ChapterBuilt, RemoteLinks, RemoteLost, stackVars, policyVars,
           mainVars, startVars, lockVars, buildVars, flagVars, renderElse, sceneVars, flagsElse,
           vars
  <2> QED
    BY <2>1, <1>25
<1> QED
  BY <1>1, <1>2, <1>3, <1>4, <1>5, <1>6, <1>7, <1>8, <1>9, <1>10, <1>11, <1>12, <1>13, <1>14,
     <1>15, <1>16, <1>17, <1>18, <1>19, <1>20, <1>21, <1>22, <1>23, <1>24, <1>25, <1>26
     DEF Next, Tick, Loop, Start, Render
LEMMA DeferredStep ==
  ASSUME Base, StackOwned, Deferred, [Next]_vars
  PROVE  Deferred'
<1>s. TypeOK /\ Deferred /\ StackOwned /\ InFlight
  BY DEF Base
<1>1. CASE TickEnter
  BY <1>s, <1>1, EnterVisitSays
     DEF TickEnter, Suspend, stackVars, startVars, lockVars, buildVars, Deferred, StackOwned,
         InFlight, Up
<1>2. CASE TickStops
  BY <1>s, <1>2
     DEF TickStops, MustStop, Suspend, stackVars, sceneVars, policyVars, startVars, lockVars,
         buildVars, Deferred, StackOwned, InFlight, Up
<1>3. CASE TickAsks
  BY <1>s, <1>3
     DEF TickAsks, MustStop, Up, sceneVars, stackVars, startVars, lockVars, buildVars, flagVars,
         Deferred, StackOwned, InFlight
<1>4. CASE TickClaims
  BY <1>s, <1>4
     DEF TickClaims, sceneVars, stackVars, policyVars, lockVars, buildVars, Deferred,
         StackOwned, InFlight, Up
<1>5. CASE TickSpawns
  BY <1>s, <1>5
     DEF TickSpawns, Up, sceneVars, policyVars, lockVars, buildVars, Deferred, StackOwned,
         InFlight
<1>6. CASE TickStopsIdle
  BY <1>s, <1>6
     DEF TickStopsIdle, Up, Suspend, stackVars, sceneVars, policyVars, startVars, lockVars,
         buildVars, Deferred, StackOwned, InFlight
<1>7. CASE TickServes
  BY <1>s, <1>7
     DEF TickServes, Up, sceneVars, startVars, lockVars, buildVars, Deferred, StackOwned,
         InFlight
<1>8. CASE TickEnds
  BY <1>s, <1>8
     DEF TickEnds, RestartDue, Busy, sceneVars, stackVars, policyVars, startVars, lockVars,
         buildVars, flagVars, Deferred, StackOwned, InFlight, Up
<1>9. CASE RestartIntoBook
  BY <1>s, <1>9
     DEF RestartIntoBook, RestartDue, Busy, Deferred, StackOwned, InFlight, Up, NewVisit
<1>10. CASE ReleaseHold \/ BackgroundBuild \/ LoopPass
  BY <1>s, <1>10
     DEF ReleaseHold, LockFree, sceneVars, stackVars, policyVars, startVars, lockVars,
         BackgroundBuild, HoldsHeap, Busy, flagVars, LoopPass, buildVars, Deferred, StackOwned,
         InFlight, Up
<1>11. CASE AskToLeave \/ NoInput \/ ToggleOff
  BY <1>s, <1>11
     DEF AskToLeave, Ways, BookOpen, LockFree, stackVars, policyVars, startVars, lockVars,
         flagVars, NoInput, sceneVars, buildVars, ToggleOff, Suspend, Deferred, StackOwned,
         InFlight, Up
<1>12. CASE ToggleOn
  BY <1>s, <1>12
     DEF ToggleOn, stackVars, policyVars, startVars, lockVars, buildVars, flagVars, Deferred,
         StackOwned, InFlight, Up
<1>13. CASE SwitchOn
  BY <1>s, <1>13
     DEF SwitchOn, sceneVars, policyVars, lockVars, buildVars, Deferred, StackOwned, InFlight,
         Up
<1>14. CASE SwitchOnReturns
  BY <1>s, <1>14
     DEF SwitchOnReturns, sceneVars, stackVars, policyVars, startVars, lockVars, buildVars,
         flagVars, Deferred, StackOwned, InFlight, Up
<1>15. CASE Navigate
  BY <1>s, <1>15
     DEF Navigate, stackVars, KeepsRadio, Up, Suspend, sceneVars, policyVars, startVars,
         lockVars, buildVars, Deferred, StackOwned, InFlight
<1>16. CASE LeaveScreen
  BY <1>s, <1>16
     DEF LeaveScreen, LockFree, HoldGivenBack, BookCloses, BookOpen, stackVars, policyVars,
         startVars, lockVars, Deferred, StackOwned, InFlight, Up
<1>17. CASE StackComesUp
  BY <1>s, <1>17
     DEF StackComesUp, startElse, sceneVars, mainVars, lockVars, buildVars, flagVars, Deferred,
         StackOwned, InFlight, Up
<1>18. CASE StartRolledBack
  BY <1>s, <1>18
     DEF StartRolledBack, startElse, sceneVars, mainVars, lockVars, buildVars, flagVars,
         Deferred, StackOwned, InFlight, Up
<1>19. CASE StartFinishes
  BY <1>s, <1>19
     DEF StartFinishes, sceneVars, policyVars, mainVars, lockVars, buildVars, Deferred,
         StackOwned, InFlight, Up
<1>20. CASE HoldForBuild \/ RenderEnds
  BY <1>s, <1>20
     DEF HoldForBuild, renderElse, sceneVars, policyVars, mainVars, startVars, stackVars,
         buildVars, flagsElse, RenderEnds, flagVars, Deferred, StackOwned, InFlight, Up
<1>21. CASE UNCHANGED <<readerStartDeferred, radio, attemptInFlight, mainPc>>
  BY <1>s, <1>21
     DEF Deferred, StackOwned, InFlight, Up
<1>22. CASE StartCheck \/ StartTriesLock \/ StartHeapCheck \/ StartBegins \/ StartKept
            \/ RenderOther \/ RenderBook \/ StartSettled \/ SettleTimedOut \/ PagePainted
            \/ PageNeedsBuild \/ AskForRoom \/ RenderCancels \/ RadioReleased \/ RetryStop
            \/ StopTimedOut \/ ReadStatus \/ AskAgain \/ BuildRefused \/ ChapterBuilt \/ RemoteLinks
            \/ RemoteLost \/ UNCHANGED vars
  <2>1. UNCHANGED <<readerStartDeferred, radio, attemptInFlight, mainPc>>
    BY <1>22
       DEF StartCheck, StartTriesLock, StartHeapCheck, StartBegins, StartKept, RenderOther,
           RenderBook, StartSettled, SettleTimedOut, SettleEnds, PagePainted, PageNeedsBuild,
           AskForRoom, RenderCancels, RadioReleased, RetryStop, StopTimedOut, ReadStatus,
           AskAgain, BuildRefused, ChapterBuilt, RemoteLinks, RemoteLost, startElse, sceneVars,
           mainVars, lockVars, buildVars, flagVars, stackVars, policyVars, startVars, renderElse,
           flagsElse, vars
  <2> QED
    BY <2>1, <1>21
<1> QED
  BY <1>1, <1>2, <1>3, <1>4, <1>5, <1>6, <1>7, <1>8, <1>9, <1>10, <1>11, <1>12, <1>13, <1>14,
     <1>15, <1>16, <1>17, <1>18, <1>19, <1>20, <1>21, <1>22
     DEF Next, Tick, Loop, Start, Render
LEMMA IdleStep ==
  ASSUME Base, Idle, [Next]_vars
  PROVE  Idle'
<1>s. TypeOK /\ Idle /\ InFlight
  BY DEF Base
<1>1. CASE TickEnter
  BY <1>s, <1>1, EnterVisitSays
     DEF TickEnter, Suspend, stackVars, startVars, lockVars, buildVars, Idle, InFlight, Up
<1>2. CASE TickStops
  BY <1>s, <1>2
     DEF TickStops, MustStop, Suspend, stackVars, sceneVars, policyVars, startVars, lockVars,
         buildVars, Idle, InFlight, Up
<1>3. CASE TickClaims
  BY <1>s, <1>3
     DEF TickClaims, sceneVars, stackVars, policyVars, lockVars, buildVars, Idle, InFlight, Up
<1>4. CASE TickSpawns
  BY <1>s, <1>4
     DEF TickSpawns, Up, sceneVars, policyVars, lockVars, buildVars, Idle, InFlight
<1>5. CASE TickStopsIdle
  BY <1>s, <1>5
     DEF TickStopsIdle, Up, Suspend, stackVars, sceneVars, policyVars, startVars, lockVars,
         buildVars, Idle, InFlight
<1>6. CASE RestartIntoBook
  BY <1>s, <1>6
     DEF RestartIntoBook, RestartDue, Busy, Idle, InFlight, Up, NewVisit
<1>7. CASE ToggleOff
  BY <1>s, <1>7
     DEF ToggleOff, Suspend, stackVars, policyVars, startVars, lockVars, buildVars, Idle,
         InFlight, Up
<1>8. CASE SwitchOn
  BY <1>s, <1>8
     DEF SwitchOn, sceneVars, policyVars, lockVars, buildVars, Idle, InFlight, Up
<1>9. CASE Navigate
  BY <1>s, <1>9
     DEF Navigate, stackVars, KeepsRadio, Up, Suspend, sceneVars, policyVars, startVars,
         lockVars, buildVars, Idle, InFlight
<1>10. CASE StackComesUp
  BY <1>s, <1>10
     DEF StackComesUp, startElse, sceneVars, mainVars, lockVars, buildVars, flagVars, Idle,
         InFlight, Up
<1>11. CASE StartRolledBack
  BY <1>s, <1>11
     DEF StartRolledBack, startElse, sceneVars, mainVars, lockVars, buildVars, flagVars, Idle,
         InFlight, Up
<1>12. CASE StartFinishes
  BY <1>s, <1>12
     DEF StartFinishes, sceneVars, policyVars, mainVars, lockVars, buildVars, Idle, InFlight, Up
<1>13. CASE RenderEnds
  BY <1>s, <1>13
     DEF RenderEnds, stackVars, renderElse, sceneVars, policyVars, mainVars, startVars,
         buildVars, flagVars, Idle, InFlight, Up
<1>14. CASE UNCHANGED <<radioIdleStopped, radio, attemptInFlight>>
  BY <1>s, <1>14
     DEF Idle, InFlight, Up
<1>15. CASE TickAsks \/ TickServes \/ TickEnds \/ ReleaseHold \/ BackgroundBuild \/ LoopPass
            \/ AskToLeave \/ NoInput \/ ToggleOn \/ SwitchOnReturns \/ LeaveScreen \/ StartCheck
            \/ StartTriesLock \/ StartHeapCheck \/ StartBegins \/ StartKept \/ RenderOther
            \/ RenderBook \/ StartSettled \/ SettleTimedOut \/ PagePainted \/ PageNeedsBuild
            \/ AskForRoom \/ HoldForBuild \/ RenderCancels \/ RadioReleased \/ RetryStop
            \/ StopTimedOut \/ ReadStatus \/ AskAgain \/ BuildRefused \/ ChapterBuilt \/ RemoteLinks
            \/ RemoteLost \/ UNCHANGED vars
  <2>1. UNCHANGED <<radioIdleStopped, radio, attemptInFlight>>
    BY <1>15
       DEF TickAsks, TickServes, TickEnds, ReleaseHold, BackgroundBuild, LoopPass, AskToLeave,
           NoInput, ToggleOn, SwitchOnReturns, LeaveScreen, StartCheck, StartTriesLock,
           StartHeapCheck, StartBegins, StartKept, RenderOther, RenderBook, StartSettled,
           SettleTimedOut, SettleEnds, PagePainted, PageNeedsBuild, AskForRoom, HoldForBuild,
           RenderCancels, RadioReleased, RetryStop, StopTimedOut, ReadStatus, AskAgain,
           BuildRefused, ChapterBuilt, RemoteLinks, RemoteLost, sceneVars, stackVars, startVars,
           lockVars, buildVars, flagVars, policyVars, startElse, mainVars, renderElse, flagsElse,
           vars
  <2> QED
    BY <2>1, <1>14
<1> QED
  BY <1>1, <1>2, <1>3, <1>4, <1>5, <1>6, <1>7, <1>8, <1>9, <1>10, <1>11, <1>12, <1>13, <1>14,
     <1>15
     DEF Next, Tick, Loop, Start, Render
LEMMA ArmedStep ==
  ASSUME Base, Leaving, Armed, [Next]_vars
  PROVE  Armed'
<1>s. TypeOK /\ Armed /\ Leaving /\ InFlight /\ Going
  BY DEF Base
<1>1. CASE TickEnter
  BY <1>s, <1>1
     DEF TickEnter, Suspend, stackVars, startVars, lockVars, buildVars, Armed, Leaving,
         InFlight, Going, Up
<1>2. CASE TickStops
  BY <1>s, <1>2
     DEF TickStops, MustStop, Suspend, stackVars, sceneVars, policyVars, startVars, lockVars,
         buildVars, Armed, Leaving, InFlight, Going, Up
<1>3. CASE TickAsks
  BY <1>s, <1>3
     DEF TickAsks, MustStop, Up, sceneVars, stackVars, startVars, lockVars, buildVars, flagVars,
         Armed, Leaving, InFlight, Going
<1>4. CASE TickClaims
  BY <1>s, <1>4
     DEF TickClaims, sceneVars, stackVars, policyVars, lockVars, buildVars, Armed, Leaving,
         InFlight, Going, Up
<1>5. CASE TickSpawns
  BY <1>s, <1>5
     DEF TickSpawns, Up, sceneVars, policyVars, lockVars, buildVars, Armed, Leaving, InFlight,
         Going
<1>6. CASE TickStopsIdle
  BY <1>s, <1>6
     DEF TickStopsIdle, Up, Suspend, stackVars, sceneVars, policyVars, startVars, lockVars,
         buildVars, Armed, Leaving, InFlight, Going
<1>7. CASE TickServes
  BY <1>s, <1>7
     DEF TickServes, Up, sceneVars, startVars, lockVars, buildVars, Armed, Leaving, InFlight,
         Going
<1>8. CASE TickEnds
  BY <1>s, <1>8
     DEF TickEnds, RestartDue, Busy, sceneVars, stackVars, policyVars, startVars, lockVars,
         buildVars, flagVars, Armed, Leaving, InFlight, Going, Up
<1>9. CASE RestartIntoBook
  BY <1>s, <1>9
     DEF RestartIntoBook, RestartDue, Busy, Armed, Leaving, InFlight, Going, Up, NewVisit
<1>10. CASE ReleaseHold \/ BackgroundBuild \/ LoopPass
  BY <1>s, <1>10
     DEF ReleaseHold, LockFree, sceneVars, stackVars, policyVars, startVars, lockVars,
         BackgroundBuild, HoldsHeap, Busy, flagVars, LoopPass, buildVars, Armed, Leaving,
         InFlight, Going, Up
<1>11. CASE AskToLeave \/ NoInput \/ ToggleOff
  BY <1>s, <1>11
     DEF AskToLeave, Ways, BookOpen, LockFree, stackVars, policyVars, startVars, lockVars,
         flagVars, NoInput, sceneVars, buildVars, ToggleOff, Suspend, Armed, Leaving, InFlight,
         Going, Up
<1>12. CASE ToggleOn
  BY <1>s, <1>12
     DEF ToggleOn, stackVars, policyVars, startVars, lockVars, buildVars, flagVars, Armed,
         Leaving, InFlight, Going, Up
<1>13. CASE SwitchOn
  BY <1>s, <1>13
     DEF SwitchOn, sceneVars, policyVars, lockVars, buildVars, Armed, Leaving, InFlight, Going,
         Up
<1>14. CASE SwitchOnReturns
  BY <1>s, <1>14
     DEF SwitchOnReturns, sceneVars, stackVars, policyVars, startVars, lockVars, buildVars,
         flagVars, Armed, Leaving, InFlight, Going, Up
<1>15. CASE Navigate
  BY <1>s, <1>15
     DEF Navigate, stackVars, KeepsRadio, Up, Suspend, sceneVars, policyVars, startVars,
         lockVars, buildVars, Armed, Leaving, InFlight, Going
<1>16. CASE LeaveScreen
  BY <1>s, <1>16
     DEF LeaveScreen, LockFree, HoldGivenBack, BookCloses, BookOpen, stackVars, policyVars,
         startVars, lockVars, Armed, Leaving, InFlight, Going, Up
<1>17. CASE StackComesUp
  BY <1>s, <1>17
     DEF StackComesUp, startElse, sceneVars, mainVars, lockVars, buildVars, flagVars, Armed,
         Leaving, InFlight, Going, Up
<1>18. CASE StartRolledBack
  BY <1>s, <1>18
     DEF StartRolledBack, startElse, sceneVars, mainVars, lockVars, buildVars, flagVars, Armed,
         Leaving, InFlight, Going, Up
<1>19. CASE StartFinishes
  BY <1>s, <1>19
     DEF StartFinishes, sceneVars, policyVars, mainVars, lockVars, buildVars, Armed, Leaving,
         InFlight, Going, Up
<1>20. CASE RenderEnds
  BY <1>s, <1>20
     DEF RenderEnds, stackVars, renderElse, sceneVars, policyVars, mainVars, startVars,
         buildVars, flagVars, Armed, Leaving, InFlight, Going, Up
<1>21. CASE UNCHANGED <<armed, radio, attemptInFlight, mainPc, enabled>>
  BY <1>s, <1>21
     DEF Armed, Leaving, InFlight, Going, Up
<1>22. CASE StartCheck \/ StartTriesLock \/ StartHeapCheck \/ StartBegins \/ StartKept
            \/ RenderOther \/ RenderBook \/ StartSettled \/ SettleTimedOut \/ PagePainted
            \/ PageNeedsBuild \/ AskForRoom \/ HoldForBuild \/ RenderCancels \/ RadioReleased
            \/ RetryStop \/ StopTimedOut \/ ReadStatus \/ AskAgain \/ BuildRefused \/ ChapterBuilt
            \/ RemoteLinks \/ RemoteLost \/ UNCHANGED vars
  <2>1. UNCHANGED <<armed, radio, attemptInFlight, mainPc, enabled>>
    BY <1>22
       DEF StartCheck, StartTriesLock, StartHeapCheck, StartBegins, StartKept, RenderOther,
           RenderBook, StartSettled, SettleTimedOut, SettleEnds, PagePainted, PageNeedsBuild,
           AskForRoom, HoldForBuild, RenderCancels, RadioReleased, RetryStop, StopTimedOut,
           ReadStatus, AskAgain, BuildRefused, ChapterBuilt, RemoteLinks, RemoteLost, startElse,
           sceneVars, mainVars, lockVars, buildVars, flagVars, stackVars, policyVars, startVars,
           renderElse, flagsElse, vars
  <2> QED
    BY <2>1, <1>21
<1> QED
  BY <1>1, <1>2, <1>3, <1>4, <1>5, <1>6, <1>7, <1>8, <1>9, <1>10, <1>11, <1>12, <1>13, <1>14,
     <1>15, <1>16, <1>17, <1>18, <1>19, <1>20, <1>21, <1>22
     DEF Next, Tick, Loop, Start, Render
LEMMA SceneStep ==
  ASSUME Base, Scene, [Next]_vars
  PROVE  Scene'
<1>s. TypeOK /\ Scene
  BY DEF Base
<1>1. CASE TickEnter
  BY <1>s, <1>1, NumbersAssumption, EnterVisitSays
     DEF TickEnter, stackVars, startVars, lockVars, buildVars, Scene, TypeOK, StateOK, Visits,
         Where
<1>2. CASE TickStops
  BY <1>s, <1>2, NumbersAssumption
     DEF TickStops, MustStop, stackVars, sceneVars, policyVars, startVars, lockVars, buildVars,
         Scene, TypeOK, StateOK, Visits
<1>3. CASE TickAsks
  BY <1>s, <1>3, NumbersAssumption
     DEF TickAsks, MustStop, Up, sceneVars, stackVars, startVars, lockVars, buildVars, flagVars,
         Scene, TypeOK, StateOK, Visits
<1>4. CASE TickClaims \/ TickSpawns \/ TickStopsIdle
  BY <1>s, <1>4, NumbersAssumption
     DEF TickClaims, sceneVars, stackVars, policyVars, lockVars, buildVars, TickSpawns, Up,
         TickStopsIdle, startVars, Scene, TypeOK, StateOK, Visits
<1>5. CASE TickServes
  BY <1>s, <1>5, NumbersAssumption
     DEF TickServes, Up, sceneVars, startVars, lockVars, buildVars, Scene, TypeOK, StateOK,
         Visits
<1>6. CASE TickEnds
  BY <1>s, <1>6, NumbersAssumption
     DEF TickEnds, RestartDue, Busy, sceneVars, stackVars, policyVars, startVars, lockVars,
         buildVars, flagVars, Scene, TypeOK, StateOK, Visits
<1>7. CASE RestartIntoBook
  BY <1>s, <1>7, NumbersAssumption
     DEF RestartIntoBook, RestartDue, Busy, Scene, TypeOK, StateOK, Visits, NewVisit
<1>8. CASE ReleaseHold \/ BackgroundBuild \/ LoopPass \/ AskToLeave \/ NoInput \/ ToggleOff
  BY <1>s, <1>8, NumbersAssumption
     DEF ReleaseHold, LockFree, sceneVars, stackVars, policyVars, startVars, lockVars,
         BackgroundBuild, HoldsHeap, Busy, flagVars, LoopPass, buildVars, AskToLeave, Ways,
         BookOpen, NoInput, ToggleOff, Scene, TypeOK, StateOK, Visits
<1>9. CASE ToggleOn \/ SwitchOn \/ SwitchOnReturns \/ Navigate
  BY <1>s, <1>9, NumbersAssumption
     DEF ToggleOn, stackVars, policyVars, startVars, lockVars, buildVars, flagVars, SwitchOn,
         sceneVars, SwitchOnReturns, Navigate, KeepsRadio, Up, Scene, TypeOK, StateOK, Visits
<1>10. CASE LeaveScreen
  BY <1>s, <1>10, NumbersAssumption
     DEF LeaveScreen, LockFree, HoldGivenBack, BookCloses, BookOpen, stackVars, policyVars,
         startVars, lockVars, Scene, TypeOK, StateOK, Visits
<1>11. CASE UNCHANGED <<book, visit, mainPc, rearmRequested, leaving, lastScene, screen>>
  BY <1>s, <1>11
     DEF Scene, TypeOK, StateOK, Visits
<1>12. CASE StartCheck \/ StartTriesLock \/ StartHeapCheck \/ StartBegins \/ StackComesUp
            \/ StartKept \/ StartRolledBack \/ StartFinishes \/ RenderOther \/ RenderBook
            \/ StartSettled \/ SettleTimedOut \/ PagePainted \/ PageNeedsBuild \/ AskForRoom
            \/ HoldForBuild \/ RenderCancels \/ RenderEnds \/ RadioReleased \/ RetryStop
            \/ StopTimedOut \/ ReadStatus \/ AskAgain \/ BuildRefused \/ ChapterBuilt \/ RemoteLinks
            \/ RemoteLost \/ UNCHANGED vars
  <2>1. UNCHANGED <<book, visit, mainPc, rearmRequested, leaving, lastScene, screen>>
    BY <1>12
       DEF StartCheck, StartTriesLock, StartHeapCheck, StartBegins, StackComesUp, StartKept,
           StartRolledBack, StartFinishes, RenderOther, RenderBook, StartSettled, SettleTimedOut,
           SettleEnds, PagePainted, PageNeedsBuild, AskForRoom, HoldForBuild, RenderCancels,
           RenderEnds, RadioReleased, RetryStop, StopTimedOut, ReadStatus, AskAgain,
           BuildRefused, ChapterBuilt, RemoteLinks, RemoteLost, startElse, sceneVars, mainVars,
           lockVars, buildVars, flagVars, policyVars, stackVars, startVars, renderElse,
           flagsElse, vars
  <2> QED
    BY <2>1, <1>11
<1> QED
  BY <1>1, <1>2, <1>3, <1>4, <1>5, <1>6, <1>7, <1>8, <1>9, <1>10, <1>11, <1>12
     DEF Next, Tick, Loop, Start, Render
LEMMA AskedStep ==
  ASSUME Base, StackOwned, Idle, Asked, [Next]_vars
  PROVE  Asked'
<1>s. TypeOK /\ Asked /\ StackOwned /\ Idle /\ InFlight
  BY DEF Base
<1>1. CASE TickEnter
  BY <1>s, <1>1
     DEF TickEnter, Suspend, stackVars, startVars, lockVars, buildVars, Asked, StackOwned, Idle,
         InFlight, Up, TypeOK, StateOK, Visits
<1>2. CASE TickStops
  BY <1>s, <1>2
     DEF TickStops, MustStop, Suspend, stackVars, sceneVars, policyVars, startVars, lockVars,
         buildVars, Asked, StackOwned, Idle, InFlight, Up, TypeOK, StateOK, Visits
<1>3. CASE TickAsks
  BY <1>s, <1>3
     DEF TickAsks, MustStop, RetryOpen, Up, MayStart, sceneVars, stackVars, startVars, lockVars,
         buildVars, flagVars, Asked, StackOwned, Idle, InFlight, TypeOK, StateOK, Visits
<1>4. CASE TickClaims
  BY <1>s, <1>4
     DEF TickClaims, sceneVars, stackVars, policyVars, lockVars, buildVars, Asked, StackOwned,
         Idle, InFlight, Up, TypeOK, StateOK, Visits
<1>5. CASE TickSpawns
  BY <1>s, <1>5
     DEF TickSpawns, Up, sceneVars, policyVars, lockVars, buildVars, Asked, StackOwned, Idle,
         InFlight, TypeOK, StateOK, Visits
<1>6. CASE TickStopsIdle
  BY <1>s, <1>6
     DEF TickStopsIdle, Up, Suspend, stackVars, sceneVars, policyVars, startVars, lockVars,
         buildVars, Asked, StackOwned, Idle, InFlight, TypeOK, StateOK, Visits
<1>7. CASE TickServes
  BY <1>s, <1>7
     DEF TickServes, Up, sceneVars, startVars, lockVars, buildVars, Asked, StackOwned, Idle,
         InFlight, TypeOK, StateOK, Visits
<1>8. CASE TickEnds
  BY <1>s, <1>8
     DEF TickEnds, RestartDue, Busy, sceneVars, stackVars, policyVars, startVars, lockVars,
         buildVars, flagVars, Asked, StackOwned, Idle, InFlight, Up, TypeOK, StateOK, Visits
<1>9. CASE RestartIntoBook
  BY <1>s, <1>9
     DEF RestartIntoBook, RestartDue, Busy, Asked, StackOwned, Idle, InFlight, Up, TypeOK,
         StateOK, Visits, NewVisit
<1>10. CASE ReleaseHold \/ BackgroundBuild \/ LoopPass
  BY <1>s, <1>10
     DEF ReleaseHold, LockFree, sceneVars, stackVars, policyVars, startVars, lockVars,
         BackgroundBuild, HoldsHeap, Busy, flagVars, LoopPass, buildVars, Asked, StackOwned,
         Idle, InFlight, Up, TypeOK, StateOK, Visits
<1>11. CASE AskToLeave \/ NoInput \/ ToggleOff
  BY <1>s, <1>11
     DEF AskToLeave, Ways, BookOpen, LockFree, stackVars, policyVars, startVars, lockVars,
         flagVars, NoInput, sceneVars, buildVars, ToggleOff, Suspend, Asked, StackOwned, Idle,
         InFlight, Up, TypeOK, StateOK, Visits
<1>12. CASE ToggleOn
  BY <1>s, <1>12
     DEF ToggleOn, stackVars, policyVars, startVars, lockVars, buildVars, flagVars, Asked,
         StackOwned, Idle, InFlight, Up, TypeOK, StateOK, Visits
<1>13. CASE SwitchOn
  BY <1>s, <1>13
     DEF SwitchOn, sceneVars, policyVars, lockVars, buildVars, Asked, StackOwned, Idle,
         InFlight, Up, TypeOK, StateOK, Visits
<1>14. CASE SwitchOnReturns
  BY <1>s, <1>14
     DEF SwitchOnReturns, sceneVars, stackVars, policyVars, startVars, lockVars, buildVars,
         flagVars, Asked, StackOwned, Idle, InFlight, Up, TypeOK, StateOK, Visits
<1>15. CASE Navigate
  BY <1>s, <1>15
     DEF Navigate, stackVars, KeepsRadio, Up, Suspend, sceneVars, policyVars, startVars,
         lockVars, buildVars, Asked, StackOwned, Idle, InFlight, TypeOK, StateOK, Visits
<1>16. CASE LeaveScreen
  BY <1>s, <1>16
     DEF LeaveScreen, LockFree, HoldGivenBack, BookCloses, BookOpen, stackVars, policyVars,
         startVars, lockVars, Asked, StackOwned, Idle, InFlight, Up, TypeOK, StateOK, Visits
<1>17. CASE StartCheck
  BY <1>s, <1>17
     DEF StartCheck, Up, startElse, sceneVars, mainVars, lockVars, buildVars, flagVars, Asked,
         StackOwned, Idle, InFlight, TypeOK, StateOK, Visits
<1>18. CASE StartTriesLock
  BY <1>s, <1>18
     DEF StartTriesLock, LockFree, startElse, sceneVars, mainVars, lockVars, buildVars,
         flagVars, Asked, StackOwned, Idle, InFlight, Up, TypeOK, StateOK, Visits
<1>19. CASE StartHeapCheck \/ StartBegins
  BY <1>s, <1>19
     DEF StartHeapCheck, startElse, sceneVars, mainVars, lockVars, buildVars, flagVars,
         StartBegins, Asked, StackOwned, Idle, InFlight, Up, TypeOK, StateOK, Visits
<1>20. CASE StackComesUp
  BY <1>s, <1>20
     DEF StackComesUp, startElse, sceneVars, mainVars, lockVars, buildVars, flagVars, Asked,
         StackOwned, Idle, InFlight, Up, TypeOK, StateOK, Visits
<1>21. CASE StartKept
  BY <1>s, <1>21
     DEF StartKept, startElse, sceneVars, mainVars, lockVars, buildVars, flagVars, Asked,
         StackOwned, Idle, InFlight, Up, TypeOK, StateOK, Visits
<1>22. CASE StartRolledBack
  BY <1>s, <1>22
     DEF StartRolledBack, startElse, sceneVars, mainVars, lockVars, buildVars, flagVars, Asked,
         StackOwned, Idle, InFlight, Up, TypeOK, StateOK, Visits
<1>23. CASE StartFinishes
  BY <1>s, <1>23
     DEF StartFinishes, sceneVars, policyVars, mainVars, lockVars, buildVars, Asked, StackOwned,
         Idle, InFlight, Up, TypeOK, StateOK, Visits
<1>24. CASE HoldForBuild \/ RenderEnds
  BY <1>s, <1>24
     DEF HoldForBuild, renderElse, sceneVars, policyVars, mainVars, startVars, stackVars,
         buildVars, flagsElse, RenderEnds, flagVars, Asked, StackOwned, Idle, InFlight, Up,
         TypeOK, StateOK, Visits
<1>25. CASE UNCHANGED <<mainPc, book, lastScene, heldForBuild, homeStart, radio, startPc>>
  BY <1>s, <1>25
     DEF Asked, StackOwned, Idle, InFlight, Up, TypeOK, StateOK, Visits
<1>26. CASE RenderOther \/ RenderBook \/ StartSettled \/ SettleTimedOut \/ PagePainted
            \/ PageNeedsBuild \/ AskForRoom \/ RenderCancels \/ RadioReleased \/ RetryStop
            \/ StopTimedOut \/ ReadStatus \/ AskAgain \/ BuildRefused \/ ChapterBuilt \/ RemoteLinks
            \/ RemoteLost \/ UNCHANGED vars
  <2>1. UNCHANGED <<mainPc, book, lastScene, heldForBuild, homeStart, radio, startPc>>
    BY <1>26
       DEF RenderOther, RenderBook, StartSettled, SettleTimedOut, SettleEnds, PagePainted,
           PageNeedsBuild, AskForRoom, RenderCancels, RadioReleased, RetryStop, StopTimedOut,
           ReadStatus, AskAgain, BuildRefused, ChapterBuilt, RemoteLinks, RemoteLost, stackVars,
           policyVars, mainVars, startVars, lockVars, buildVars, flagVars, renderElse, sceneVars,
           flagsElse, vars
  <2> QED
    BY <2>1, <1>25
<1> QED
  BY <1>1, <1>2, <1>3, <1>4, <1>5, <1>6, <1>7, <1>8, <1>9, <1>10, <1>11, <1>12, <1>13, <1>14,
     <1>15, <1>16, <1>17, <1>18, <1>19, <1>20, <1>21, <1>22, <1>23, <1>24, <1>25, <1>26
     DEF Next, Tick, Loop, Start, Render
LEMMA ServedStep ==
  ASSUME Base, Remote, [Next]_vars
  PROVE  Served'
<1>s. TypeOK /\ InFlight /\ Served /\ Quiet /\ Scene /\ Asked /\ Deferred /\ Armed
  BY DEF Base, Remote
<1>1. CASE TickEnter
  BY <1>s, <1>1, EnterVisitSays
     DEF TickEnter, Suspend, stackVars, startVars, lockVars, buildVars, Served, Linked,
         InFlight, Up, TypeOK, StateOK, Visits, Where
<1>2. CASE TickStops
  BY <1>s, <1>2
     DEF TickStops, MustStop, Suspend, stackVars, sceneVars, policyVars, startVars, lockVars,
         buildVars, Served, Linked, InFlight, Up, TypeOK, StateOK, Visits
<1>3. CASE TickAsks
  BY <1>s, <1>3
     DEF TickAsks, MustStop, Up, sceneVars, stackVars, startVars, lockVars, buildVars, flagVars,
         Served, Linked, InFlight, TypeOK, StateOK, Visits, Scene, Quiet, Off, MayStart,
         RetryOpen
<1>4. CASE TickClaims \/ TickSpawns \/ TickStopsIdle
  BY <1>s, <1>4
     DEF TickClaims, sceneVars, stackVars, policyVars, lockVars, buildVars, TickSpawns, Up,
         TickStopsIdle, Suspend, startVars, Served, Linked, InFlight, TypeOK, StateOK, Visits
<1>5. CASE TickServes
  BY <1>s, <1>5
     DEF TickServes, Up, sceneVars, startVars, lockVars, buildVars, Served, Linked, InFlight,
         TypeOK, StateOK, Visits, Scene, Asked, Deferred, Armed
<1>6. CASE TickEnds
  BY <1>s, <1>6
     DEF TickEnds, RestartDue, Busy, sceneVars, stackVars, policyVars, startVars, lockVars,
         buildVars, flagVars, Served, Linked, InFlight, Up, TypeOK, StateOK, Visits
<1>7. CASE RestartIntoBook
  BY <1>s, <1>7
     DEF RestartIntoBook, RestartDue, Busy, Served, Linked, InFlight, Up, TypeOK, StateOK,
         Visits, NewVisit
<1>8. CASE ReleaseHold \/ BackgroundBuild \/ LoopPass \/ AskToLeave \/ NoInput \/ ToggleOff
  BY <1>s, <1>8
     DEF ReleaseHold, LockFree, sceneVars, stackVars, policyVars, startVars, lockVars,
         BackgroundBuild, HoldsHeap, Busy, flagVars, LoopPass, buildVars, AskToLeave, Ways,
         BookOpen, NoInput, ToggleOff, Suspend, Served, Linked, InFlight, Up, TypeOK, StateOK,
         Visits
<1>9. CASE ToggleOn \/ SwitchOn \/ SwitchOnReturns \/ Navigate
  BY <1>s, <1>9
     DEF ToggleOn, stackVars, policyVars, startVars, lockVars, buildVars, flagVars, SwitchOn,
         sceneVars, SwitchOnReturns, Navigate, KeepsRadio, Up, Suspend, Served, Linked,
         InFlight, TypeOK, StateOK, Visits
<1>10. CASE LeaveScreen
  BY <1>s, <1>10, NumbersAssumption
     DEF LeaveScreen, LockFree, HoldGivenBack, BookCloses, BookOpen, stackVars, policyVars,
         startVars, lockVars, Served, Linked, InFlight, Up, TypeOK, StateOK, Visits, Scene
<1>11. CASE StackComesUp \/ StartRolledBack \/ StartFinishes
  BY <1>s, <1>11
     DEF StackComesUp, startElse, sceneVars, mainVars, lockVars, buildVars, flagVars,
         StartRolledBack, StartFinishes, policyVars, Served, Linked, InFlight, Up, TypeOK,
         StateOK, Visits
<1>12. CASE HoldForBuild \/ RenderEnds
  BY <1>s, <1>12
     DEF HoldForBuild, renderElse, sceneVars, policyVars, mainVars, startVars, stackVars,
         buildVars, flagsElse, RenderEnds, flagVars, Served, Linked, InFlight, Up, TypeOK,
         StateOK, Visits
<1>13. CASE UNCHANGED <<book, visit, attemptInFlight, readerStartDeferred, radio, armed,
                        mainPc, enabled, lastScene, homeStart, screen>>
  BY <1>s, <1>13
     DEF Served, Linked, InFlight, Up, TypeOK, StateOK, Visits
<1>14. CASE StartCheck \/ StartTriesLock \/ StartHeapCheck \/ StartBegins \/ StartKept
            \/ RenderOther \/ RenderBook \/ StartSettled \/ SettleTimedOut \/ PagePainted
            \/ PageNeedsBuild \/ AskForRoom \/ RenderCancels \/ RadioReleased \/ RetryStop
            \/ StopTimedOut \/ ReadStatus \/ AskAgain \/ BuildRefused \/ ChapterBuilt \/ RemoteLinks
            \/ RemoteLost \/ UNCHANGED vars
  <2>1. UNCHANGED <<book, visit, attemptInFlight, readerStartDeferred, radio, armed, mainPc,
                    enabled, lastScene, homeStart, screen>>
    BY <1>14
       DEF StartCheck, StartTriesLock, StartHeapCheck, StartBegins, StartKept, RenderOther,
           RenderBook, StartSettled, SettleTimedOut, SettleEnds, PagePainted, PageNeedsBuild,
           AskForRoom, RenderCancels, RadioReleased, RetryStop, StopTimedOut, ReadStatus,
           AskAgain, BuildRefused, ChapterBuilt, RemoteLinks, RemoteLost, startElse, sceneVars,
           mainVars, lockVars, buildVars, flagVars, stackVars, policyVars, startVars, renderElse,
           flagsElse, vars
  <2> QED
    BY <2>1, <1>13
<1> QED
  BY <1>1, <1>2, <1>3, <1>4, <1>5, <1>6, <1>7, <1>8, <1>9, <1>10, <1>11, <1>12, <1>13, <1>14
     DEF Next, Tick, Loop, Start, Render
LEMMA QuietStep ==
  ASSUME Base, Remote, [Next]_vars
  PROVE  Quiet'
<1>s. TypeOK /\ LockHeld /\ InFlight /\ Served /\ Quiet /\ Scene /\ Asked
      /\ Deferred /\ Armed /\ Idle
  BY DEF Base, Remote
<1>1. CASE TickEnter
  BY <1>s, <1>1, EnterVisitSays
     DEF TickEnter, Suspend, stackVars, startVars, lockVars, buildVars, Quiet, Off, Linked,
         Served, LockHeld, InFlight, Up, TypeOK, StateOK, Visits, Where, Idle
<1>2. CASE TickStops
  BY <1>s, <1>2
     DEF TickStops, MustStop, Suspend, stackVars, sceneVars, policyVars, startVars, lockVars,
         buildVars, Quiet, Off, Linked, Served, LockHeld, InFlight, Up, TypeOK, StateOK, Visits
<1>3. CASE TickAsks
  BY <1>s, <1>3
     DEF TickAsks, MustStop, Up, sceneVars, stackVars, startVars, lockVars, buildVars, flagVars,
         Quiet, Off, Linked, Served, LockHeld, InFlight, TypeOK, StateOK, Visits, Scene,
         MayStart, RetryOpen
<1>4. CASE TickClaims \/ TickSpawns \/ TickStopsIdle
  BY <1>s, <1>4
     DEF TickClaims, sceneVars, stackVars, policyVars, lockVars, buildVars, TickSpawns, Up,
         TickStopsIdle, Suspend, startVars, Quiet, Off, Linked, Served, LockHeld, InFlight,
         TypeOK, StateOK, Visits
<1>5. CASE TickServes
  BY <1>s, <1>5
     DEF TickServes, Up, sceneVars, startVars, lockVars, buildVars, Quiet, Off, Linked, Served,
         LockHeld, InFlight, TypeOK, StateOK, Visits, Scene, Asked, Deferred, Armed
<1>6. CASE TickEnds
  BY <1>s, <1>6
     DEF TickEnds, RestartDue, Busy, sceneVars, stackVars, policyVars, startVars, lockVars,
         buildVars, flagVars, Quiet, Off, Linked, Served, LockHeld, InFlight, Up, TypeOK,
         StateOK, Visits
<1>7. CASE RestartIntoBook
  BY <1>s, <1>7
     DEF RestartIntoBook, RestartDue, Busy, Quiet, Off, Linked, Served, LockHeld, InFlight, Up,
         TypeOK, StateOK, Visits, NewVisit
<1>8. CASE ReleaseHold \/ BackgroundBuild \/ LoopPass \/ AskToLeave \/ NoInput \/ ToggleOff
  BY <1>s, <1>8
     DEF ReleaseHold, LockFree, sceneVars, stackVars, policyVars, startVars, lockVars,
         BackgroundBuild, HoldsHeap, Busy, flagVars, LoopPass, buildVars, AskToLeave, Ways,
         BookOpen, NoInput, ToggleOff, Suspend, Quiet, Off, Linked, Served, LockHeld, InFlight,
         Up, TypeOK, StateOK, Visits
<1>9. CASE ToggleOn \/ SwitchOn \/ SwitchOnReturns \/ Navigate
  BY <1>s, <1>9
     DEF ToggleOn, stackVars, policyVars, startVars, lockVars, buildVars, flagVars, SwitchOn,
         sceneVars, SwitchOnReturns, Navigate, KeepsRadio, Up, Suspend, Quiet, Off, Linked,
         Served, LockHeld, InFlight, TypeOK, StateOK, Visits
<1>10. CASE LeaveScreen
  BY <1>s, <1>10, NumbersAssumption
     DEF LeaveScreen, LockFree, HoldGivenBack, BookCloses, BookOpen, stackVars, policyVars,
         startVars, lockVars, Quiet, Off, Linked, Served, LockHeld, InFlight, Up, TypeOK,
         StateOK, Visits, Scene
<1>11. CASE StackComesUp \/ StartRolledBack
  BY <1>s, <1>11
     DEF StackComesUp, startElse, sceneVars, mainVars, lockVars, buildVars, flagVars,
         StartRolledBack, Quiet, Off, Linked, Served, LockHeld, InFlight, Up, TypeOK, StateOK,
         Visits
<1>12. CASE RenderBook \/ StartSettled \/ SettleTimedOut \/ PagePainted \/ PageNeedsBuild
            \/ AskForRoom \/ HoldForBuild
  BY <1>s, <1>12
     DEF RenderBook, LockFree, renderElse, sceneVars, policyVars, mainVars, startVars,
         stackVars, buildVars, flagsElse, StartSettled, SettleTimedOut, SettleEnds, PagePainted,
         flagVars, PageNeedsBuild, AskForRoom, AsksAgain, NotHeld, HoldForBuild, Quiet, Off,
         Linked, Served, LockHeld, InFlight, Up, TypeOK, StateOK, Visits
<1>13. CASE RenderCancels \/ RenderEnds \/ RadioReleased \/ RetryStop \/ StopTimedOut
            \/ ReadStatus
  BY <1>s, <1>13
     DEF RenderCancels, renderElse, sceneVars, policyVars, mainVars, startVars, stackVars,
         buildVars, flagsElse, RenderEnds, flagVars, RadioReleased, RetryStop, StopTimedOut,
         ReadStatus, Up, Quiet, Off, Linked, Served, LockHeld, InFlight, TypeOK, StateOK, Visits
<1>14. CASE AskAgain \/ BuildRefused \/ ChapterBuilt
  BY <1>s, <1>14
     DEF AskAgain, renderElse, sceneVars, policyVars, mainVars, startVars, stackVars, buildVars,
         flagVars, BuildRefused, ChapterBuilt, Quiet, Off, Linked, Served, LockHeld, InFlight,
         Up, TypeOK, StateOK, Visits
<1>15. CASE UNCHANGED <<book, visit, heldForBuild, enabled, leaving, renderPc,
                        radioIdleStopped, rearmRequested, mainPc, radio>>
  BY <1>s, <1>15
     DEF Quiet, Off, Linked, Served, LockHeld, InFlight, Up, TypeOK, StateOK, Visits
<1>16. CASE StartCheck \/ StartTriesLock \/ StartHeapCheck \/ StartBegins \/ StartKept
            \/ StartFinishes \/ RenderOther \/ RemoteLinks \/ RemoteLost \/ UNCHANGED vars
  <2>1. UNCHANGED <<book, visit, heldForBuild, enabled, leaving, renderPc, radioIdleStopped,
                    rearmRequested, mainPc, radio>>
    BY <1>16
       DEF StartCheck, StartTriesLock, StartHeapCheck, StartBegins, StartKept, StartFinishes,
           RenderOther, RemoteLinks, RemoteLost, startElse, sceneVars, mainVars, lockVars,
           buildVars, flagVars, policyVars, stackVars, startVars, vars
  <2> QED
    BY <2>1, <1>15
<1> QED
  BY <1>1, <1>2, <1>3, <1>4, <1>5, <1>6, <1>7, <1>8, <1>9, <1>10, <1>11, <1>12, <1>13, <1>14,
     <1>15, <1>16
     DEF Next, Tick, Loop, Start, Render
-----------------------------------------------------------------------------
(* The theorems *)

LEMMA RestInit == Init => HeapAlone /\ Reads /\ Memo /\ HoldHasOwner /\ Leaving /\ Remote
  BY DEF Init, HeapAlone, TakesHeap, Reads, Memo, HoldHasOwner, Leaving, Remote, StackOwned,
         Deferred, Idle, Armed, Scene, Asked, Served, Quiet, Linked, Up, NewVisit

LEMMA BaseAlways == Spec => []Base
<1>1. Init => Base
  BY BaseInit
<1>2. Base /\ [Next]_vars => Base'
  BY BaseStep
<1> QED
  BY <1>1, <1>2, PTL DEF Spec

LEMMA LeavingAlways == Spec => []Leaving
<1>1. Init => Leaving
  BY RestInit
<1>2. Base /\ Leaving /\ [Next]_vars => Leaving'
  BY LeavingStep
<1> QED
  BY <1>1, <1>2, BaseAlways, PTL DEF Spec

LEMMA RemoteStep == Base /\ Leaving /\ Remote /\ [Next]_vars => Remote'
  BY StackOwnedStep, DeferredStep, IdleStep, ArmedStep, SceneStep, AskedStep, ServedStep, QuietStep
     DEF Remote

LEMMA RemoteAlways == Spec => []Remote
<1>1. Init => Remote
  BY RestInit
<1>2. Base /\ Leaving /\ Remote /\ [Next]_vars => Remote'
  BY RemoteStep
<1> QED
  BY <1>1, <1>2, BaseAlways, LeavingAlways, PTL DEF Spec

LEMMA HeapAloneAlways == Spec => [](HeapAlone /\ Reads)
<1>1. Init => HeapAlone /\ Reads
  BY RestInit
<1>2. Base /\ HeapAlone /\ Reads /\ [Next]_vars => (HeapAlone /\ Reads)'
  BY HeapAloneStep, ReadsStep
<1> QED
  BY <1>1, <1>2, BaseAlways, PTL DEF Spec

(* Every variable keeps its type, however the three tasks interleave.        *)
THEOREM TypeCorrect == Spec => []TypeOK
<1>1. Base => TypeOK
  BY DEF Base
<1> QED
  BY <1>1, BaseAlways, PTL

(* No chapter is built beside a start that takes its heap, nor beside the    *)
(* radio unless a start outlasted the wait for it (makeRoomForChapterBuild). *)
THEOREM BuildIsAlone == Spec => []BuildRunsAlone
<1>1. HeapAlone /\ Reads => BuildRunsAlone
  BY DEF HeapAlone, Reads, BuildRunsAlone
<1> QED
  BY <1>1, HeapAloneAlways, PTL

(* A page is painted while a start takes the heap only when that start       *)
(* outlasted the wait for it (settleStart).                                 *)
THEOREM PaintIsAlone == Spec => []PaintRunsAlone
<1>1. HeapAlone => PaintRunsAlone
  BY DEF HeapAlone, PaintRunsAlone
<1> QED
  BY <1>1, HeapAloneAlways, PTL

(* A heap in pieces restarts the device once until the radio has come up.    *)
THEOREM RestartsOnce == Spec => []OneRestartPerRadioUp
<1>1. Init => Memo
  BY RestInit
<1>2. Base /\ Memo /\ [Next]_vars => Memo'
  BY MemoStep
<1>3. Memo => OneRestartPerRadioUp
  BY DEF Memo, OneRestartPerRadioUp
<1> QED
  BY <1>1, <1>2, <1>3, BaseAlways, PTL DEF Spec

(* A hold of the radio always has someone who will give it back.             *)
THEOREM HoldIsOwned == Spec => []HoldHasOwner
<1>1. Init => HoldHasOwner
  BY RestInit
<1>2. Base /\ HoldHasOwner /\ [Next]_vars => HoldHasOwner'
  BY HoldStep
<1> QED
  BY <1>1, <1>2, BaseAlways, PTL DEF Spec

(* The stack is never stopped while its start is under way by anyone but     *)
(* that start itself, though a build may outwait the start (suspend).        *)
THEOREM StartStopsItself == Spec => OnlyStartStopsItself
<1> DEFINE Stop == TakesHeap /\ Up /\ radio' # "up" => StartRolledBack
<1>1. ASSUME Base, HeapAlone, [Next]_vars PROVE Stop \/ UNCHANGED vars
  <2>s. InFlight /\ HeapAlone
    BY <1>1 DEF Base
  <2>1. CASE TickEnter \/ TickStops \/ TickStopsIdle
    BY <2>s, <2>1
       DEF TickEnter, Suspend, stackVars, RearmWanted, Rearmed, startVars, lockVars, buildVars,
           TickStops, MustStop, sceneVars, policyVars, TickStopsIdle, Up, InFlight, HeapAlone,
           TakesHeap
  <2>2. CASE RestartIntoBook
    BY <2>s, <2>2
       DEF RestartIntoBook, RestartDue, Busy, InFlight, HeapAlone, TakesHeap, Up
  <2>3. CASE ToggleOff \/ Navigate
    BY <2>s, <2>3
       DEF ToggleOff, Suspend, stackVars, policyVars, startVars, lockVars, buildVars, Navigate,
           KeepsRadio, Up, sceneVars, InFlight, HeapAlone, TakesHeap
  <2>4. CASE StackComesUp
    BY <2>s, <2>4
       DEF StackComesUp, startElse, sceneVars, mainVars, lockVars, buildVars, flagVars,
           InFlight, HeapAlone, TakesHeap, Up
  <2>5. CASE RenderEnds
    BY <2>s, <2>5
       DEF RenderEnds, stackVars, renderElse, sceneVars, policyVars, mainVars, startVars,
           buildVars, flagVars, InFlight, HeapAlone, TakesHeap, Up
  <2>6. CASE StartRolledBack
    BY <2>6
  <2>7. CASE TickAsks \/ TickClaims \/ TickSpawns \/ TickServes \/ TickEnds \/ ReleaseHold
             \/ BackgroundBuild \/ LoopPass \/ AskToLeave \/ NoInput \/ ToggleOn \/ SwitchOn
             \/ SwitchOnReturns \/ LeaveScreen \/ StartCheck \/ StartTriesLock \/ StartHeapCheck
             \/ StartBegins \/ StartKept \/ StartFinishes \/ RenderOther \/ RenderBook
             \/ StartSettled \/ SettleTimedOut \/ PagePainted \/ PageNeedsBuild \/ AskForRoom
             \/ HoldForBuild \/ RenderCancels \/ RadioReleased \/ RetryStop \/ StopTimedOut
             \/ ReadStatus \/ AskAgain \/ BuildRefused \/ ChapterBuilt \/ RemoteLinks \/ RemoteLost
    <3>1. radio' = radio
      BY <2>7
         DEF TickAsks, TickClaims, TickSpawns, TickServes, TickEnds, ReleaseHold,
             BackgroundBuild, LoopPass, AskToLeave, NoInput, ToggleOn, SwitchOn,
             SwitchOnReturns, LeaveScreen, StartCheck, StartTriesLock, StartHeapCheck,
             StartBegins, StartKept, StartFinishes, RenderOther, RenderBook, StartSettled,
             SettleTimedOut, SettleEnds, PagePainted, PageNeedsBuild, AskForRoom, HoldForBuild,
             RenderCancels, RadioReleased, RetryStop, StopTimedOut, ReadStatus, AskAgain,
             BuildRefused, ChapterBuilt, RemoteLinks, RemoteLost, sceneVars, stackVars,
             startVars, lockVars, buildVars, flagVars, policyVars, startElse, mainVars,
             renderElse, flagsElse
    <3> QED
      BY <3>1 DEF Up
  <2> QED
    BY <1>1, <2>1, <2>2, <2>3, <2>4, <2>5, <2>6, <2>7 DEF Next, Tick, Loop, Start, Render
<1>2. Spec => []Base /\ [](HeapAlone /\ Reads)
  BY BaseAlways, HeapAloneAlways
<1> QED
  BY <1>1, <1>2, PTL DEF Spec, OnlyStartStopsItself

(* The next screen comes in front with the radio off and no start in flight, *)
(* but for the book that takes over the radio of Home (beforeScreenChange).  *)
THEOREM NavigationStopsRadio == Spec => OffScreenRadioIsOff
<1> DEFINE Quits == visit' > visit => /\ ~attemptInFlight
                                      /\ radio = "off" \/ (homeStart /\ leaving = "Reader")
<1>1. ASSUME Base, Leaving, [Next]_vars PROVE Quits \/ UNCHANGED vars
  <2>s. visit \in Nat /\ Leaving
    BY <1>1, NumbersAssumption DEF Base, TypeOK, StateOK
  <2>1. CASE LeaveScreen
    BY <2>s, <2>1 DEF LeaveScreen, Leaving
  <2>2. CASE RestartIntoBook
    BY <2>s, <2>2 DEF RestartIntoBook
  <2>3. CASE TickEnter \/ TickStops \/ TickAsks \/ TickClaims \/ TickSpawns \/ TickStopsIdle
             \/ TickServes \/ TickEnds \/ ReleaseHold \/ BackgroundBuild \/ LoopPass
             \/ AskToLeave \/ NoInput \/ ToggleOff \/ ToggleOn \/ SwitchOn \/ SwitchOnReturns
             \/ Navigate \/ StartCheck \/ StartTriesLock \/ StartHeapCheck \/ StartBegins
             \/ StackComesUp \/ StartKept \/ StartRolledBack \/ StartFinishes \/ RenderOther
             \/ RenderBook \/ StartSettled \/ SettleTimedOut \/ PagePainted \/ PageNeedsBuild
             \/ AskForRoom \/ HoldForBuild \/ RenderCancels \/ RenderEnds \/ RadioReleased
             \/ RetryStop \/ StopTimedOut \/ ReadStatus \/ AskAgain \/ BuildRefused \/ ChapterBuilt
             \/ RemoteLinks \/ RemoteLost
    <3>1. visit' = visit
      BY <2>3
         DEF TickEnter, TickStops, TickAsks, TickClaims, TickSpawns, TickStopsIdle, TickServes,
             TickEnds, ReleaseHold, BackgroundBuild, LoopPass, AskToLeave, NoInput, ToggleOff,
             ToggleOn, SwitchOn, SwitchOnReturns, Navigate, StartCheck, StartTriesLock,
             StartHeapCheck, StartBegins, StackComesUp, StartKept, StartRolledBack,
             StartFinishes, RenderOther, RenderBook, StartSettled, SettleTimedOut, SettleEnds,
             PagePainted, PageNeedsBuild, AskForRoom, HoldForBuild, RenderCancels, RenderEnds,
             RadioReleased, RetryStop, StopTimedOut, ReadStatus, AskAgain, BuildRefused,
             ChapterBuilt, RemoteLinks, RemoteLost, stackVars, startVars, lockVars, buildVars,
             sceneVars, policyVars, flagVars, startElse, mainVars, renderElse, flagsElse
    <3> QED
      BY <2>s, <3>1
  <2> QED
    BY <1>1, <2>1, <2>2, <2>3 DEF Next, Tick, Loop, Start, Render
<1>2. Spec => []Base /\ []Leaving
  BY BaseAlways, LeavingAlways
<1> QED
  BY <1>1, <1>2, PTL DEF Spec, OffScreenRadioIsOff

(* Served with the radio up, the stack looks for the bonded remote, though   *)
(* its reconnect is armed only once per visit (armReconnectOnce).            *)
THEOREM ServedLooksForRemote == Spec => ServedRadioIsArmed
<1>1. ASSUME Base, Remote, TickServes, Up, ~attemptInFlight, lastScene = "Reader"
      PROVE  armed'
  <2>1. visit = book.id
    BY <1>1 DEF Remote, Scene, TickServes
  <2>2. CASE book.reconnectArmed
    BY <1>1, <2>1, <2>2 DEF Remote, Served, Linked, TickServes
  <2>3. CASE ~book.reconnectArmed
    BY <1>1, <2>3 DEF TickServes
  <2> QED
    BY <2>2, <2>3
<1>2. Spec => []Base /\ []Remote
  BY BaseAlways, RemoteAlways
<1> QED
  BY <1>1, <1>2, PTL DEF Spec, ServedRadioIsArmed
=============================================================================
