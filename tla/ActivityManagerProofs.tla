------------------------ MODULE ActivityManagerProofs ------------------------
(***************************************************************************)
(* Proofs about the activity manager, for any set of screens, any bounds   *)
(* and any interleaving of the two tasks.  Each invariant is proved one    *)
(* action at a time; Base is the part every other one rests on.            *)
(***************************************************************************)
EXTENDS ActivityManager, SequenceTheorems, TLAPS

(* Who holds the render mutex is who is between taking and giving it back. *)
MutexHeld ==
  /\ renderingMutex = "main" <=> mainPc \in {"locked", "transition"}
  /\ renderingMutex = "render" <=> renderPc \in {"draw", "signal", "release"}

(* A callback is what the main task is in exactly while an activity's code *)
(* runs, and the navigation steps are reached with work to do.             *)
Control ==
  /\ callback # "none" <=> mainPc \in {"callback", "locked", "registered", "waiting"}
  /\ mainPc \in {"blocked", "transition"} => pendingAction # "None"
  /\ mainPc = "goHome" => pendingAction = "None"

Base == TypeOK /\ MutexHeld /\ Control /\ RunningActivityIsAlive /\ PendingActionIsDoable

(* A change missing from the frame under way was a screen change with      *)
(* nothing in front of it, which leads to Home, and Home does not wait; so *)
(* a waiter that has been woken has been shown everything.                 *)
FrameCovers ==
  /\ renderPc \in {"draw", "signal", "release"} /\ unseen =>
       \/ currentActivity = NoActivity
       \/ Kind[currentActivity] = "Home" /\ callback # "setup"
  /\ mainPc \in {"registered", "waiting"} =>
       /\ callback = "setup" \/ Kind[owner] # "Home"
       /\ mainNotify => ~unseen

(* The frame under way belongs to this visit, and a visit marked painted   *)
(* has been drawn.                                                         *)
VisitPainted ==
  /\ renderPc = "draw" => renderingVisit = screenVisit
  /\ paintedVisit <= screenVisit
  /\ paintedVisit = screenVisit /\ screenVisit # 0 => shown

(* A screen that owns the card is never below another one, and while it is *)
(* in front nothing it asked for reaches the navigation loop.              *)
StorageHeld ==
  /\ \A i \in DOMAIN stackActivities : Kind[stackActivities[i]] # "Exclusive"
  /\ ExclusiveStorage =>
       /\ mainPc \in {"pending", "blocked", "transition"} => pendingAction = "None"
       /\ callback \notin {"none", "exclusive"} => pendingAction = "None"

USE DEF navVars, mainVars, renderVars, wakeVars, historyVars

-----------------------------------------------------------------------------
(* The initial state.                                                      *)
(* Init gives every variable a value of its type.                          *)
LEMMA InitTyped == Init => TypeOK
<1>. SUFFICES ASSUME Init PROVE TypeOK
  OBVIOUS
<1>1. /\ currentActivity \in MaybeActivity /\ pendingActivity \in MaybeActivity
      /\ owner \in MaybeActivity /\ ready \in SUBSET Activity
      /\ pendingAction \in {"None", "Replace"}
  BY DEF Init, MaybeActivity
<1>2. stackActivities \in Seq(Activity)
  BY DEF Init
<1>3. resultHandler \in [Activity -> MaybeActivity]
  BY DEF Init, MaybeActivity
<1>4. /\ mainPc \in {"pass", "callback"} /\ callback \in {"none", "setup"}
      /\ rendering \in MaybeActivity
  BY DEF Init, MaybeActivity
<1>5. FlagsTyped
  BY DEF Init, FlagsTyped
<1>. QED
  BY <1>1, <1>2, <1>3, <1>4, <1>5 DEF Init, TypeOK

(* Init establishes Base.                                                  *)
LEMMA InitBase == Init => Base
<1>. SUFFICES ASSUME Init PROVE Base
  OBVIOUS
<1>1. MutexHeld
  BY DEF Init, MutexHeld
<1>2. Control /\ RunningActivityIsAlive /\ PendingActionIsDoable
  BY ActivityAssumption
  DEF Init, Control, RunningActivityIsAlive, PendingActionIsDoable
<1>. QED
  BY InitTyped, <1>1, <1>2 DEF Base

-----------------------------------------------------------------------------
(* Base is inductive.                                                      *)
(* The boolean flags stay boolean.                                         *)
LEMMA FlagsStep == FlagsTyped /\ [Next]_vars => FlagsTyped'
<1>. SUFFICES ASSUME FlagsTyped, [Next]_vars PROVE FlagsTyped'
  OBVIOUS
<1>. USE DEF FlagsTyped
<1>1. CASE SuppressedRelease \/ ExclusivePass \/ LoopPass \/ HomeGesture \/
  LightPanelGesture \/ Finish \/ LockScreen \/ ExclusiveRestart \/
  RadioStillStopping \/ RadioOutOfTheWay \/ LockForTransition \/ LaunchHome \/
  NothingPending \/ RenderUnlocks \/ \E a \in Activity :
  StartActivityForResult(a) \/ PushWithoutHandler(a) \/ ReplaceActivity(a)
  BY <1>1 DEF SuppressedRelease, ExclusivePass, RunCallback, LoopPass,
    HomeGesture, LightPanelGesture, StartActivityForResult, Navigated,
    PushWithoutHandler, ReplaceActivity, Finish, LockScreen, ExclusiveRestart,
    RadioStillStopping, RadioOutOfTheWay, LockForTransition, LaunchHome,
    NothingPending, RenderUnlocks
<1>2. CASE HostRequestsUpdate
  BY <1>2 DEF HostRequestsUpdate, InPass, ExclusiveStorage
<1>3. CASE GoToSleep
  BY <1>3 DEF GoToSleep, InPass, ExclusiveStorage
<1>4. CASE RequestUpdate
  BY <1>4 DEF RequestUpdate, Acts, InCallback
<1>5. CASE RequestUpdateImmediate
  BY <1>5 DEF RequestUpdateImmediate, Acts, InCallback
<1>6. CASE ChangeAndUnlock
  BY <1>6 DEF ChangeAndUnlock
<1>7. CASE RegisterWaiter
  BY <1>7 DEF RegisterWaiter, Acts, InCallback
<1>8. CASE NotifyRenderAndBlock
  BY <1>8 DEF NotifyRenderAndBlock
<1>9. CASE WaitReturns
  BY <1>9 DEF WaitReturns
<1>10. CASE ReturnFromCallback
  BY <1>10, Zenon DEF ReturnFromCallback, InCallback
<1>11. CASE PopLast
  BY <1>11 DEF PopLast, InTransition, ScreenChanged
<1>12. CASE PopToParent
  BY <1>12 DEF PopToParent, InTransition, ScreenChanged
<1>13. CASE LaunchPending
  BY <1>13 DEF LaunchPending, InTransition, ScreenChanged
<1>14. CASE FlushRequest
  BY <1>14, Zenon DEF FlushRequest
<1>15. CASE RenderTakeNotification
  BY <1>15 DEF RenderTakeNotification
<1>16. CASE RenderLocks
  <2>1. CASE currentActivity = NoActivity
    BY <1>16, <2>1 DEF RenderLocks
  <2>2. CASE currentActivity # NoActivity
    <3>1. freshFrame' \in BOOLEAN
      <4>1. freshFrame' = (mainPc \in {"registered", "waiting"})
        BY <1>16, <2>2 DEF RenderLocks
      <4>2. (mainPc \in {"registered", "waiting"}) \in BOOLEAN
        OBVIOUS
      <4>. QED
        BY <4>1, <4>2, Zenon
    <3>. QED
      BY <1>16, <2>2, <3>1 DEF RenderLocks
  <2>. QED
    BY <2>1, <2>2
<1>17. CASE RenderPaints
  BY <1>17, Zenon DEF RenderPaints
<1>18. CASE RenderSignals
  BY <1>18, Zenon DEF RenderSignals
<1>19. CASE UNCHANGED vars
  BY <1>19 DEF vars
<1>. QED
  BY <1>1, <1>2, <1>3, <1>4, <1>5, <1>6, <1>7, <1>8, <1>9, <1>10, <1>11,
    <1>12, <1>13, <1>14, <1>15, <1>16, <1>17, <1>18, <1>19 DEF Next,
    ManagerPass, CallbackStep, NavigationStep, RenderStep, PoweredDown

(* Every variable keeps its type.                                          *)
LEMMA TypesStep == Base /\ [Next]_vars => TypeOK'
<1>. SUFFICES ASSUME Base, [Next]_vars PROVE TypeOK'
  OBVIOUS
<1>. USE DEF Base, TypeOK, MaybeActivity
<1>0. FlagsTyped'
  BY FlagsStep DEF Base, TypeOK
<1>1. CASE HostRequestsUpdate \/ RequestUpdate
  BY <1>1, <1>0 DEF HostRequestsUpdate, RequestUpdate
<1>2. CASE SuppressedRelease
  BY <1>2, <1>0 DEF SuppressedRelease, AfterPass, InPass
<1>3. CASE ExclusivePass
  BY <1>3, <1>0 DEF ExclusivePass, RunCallback, InPass, ExclusiveStorage
<1>4. CASE LoopPass
  BY <1>4, <1>0 DEF LoopPass, RunCallback, InPass, ExclusiveStorage
<1>5. CASE HomeGesture
  BY <1>5, <1>0 DEF HomeGesture, PopActivity, AfterPass, InPass,
    ExclusiveStorage
<1>6. CASE LightPanelGesture
  BY <1>6, <1>0 DEF LightPanelGesture, PushActivity, AfterPass, InPass,
    ExclusiveStorage
<1>7. CASE GoToSleep
  BY <1>7, <1>0 DEF GoToSleep, InPass, ExclusiveStorage
<1>8. ASSUME NEW a \in Activity, StartActivityForResult(a) PROVE TypeOK'
  BY <1>8, <1>0 DEF StartActivityForResult, PushActivity, Navigated,
    MayNavigate, InCallback, RunningActivityIsAlive, Control
<1>9. ASSUME NEW a \in Activity, PushWithoutHandler(a) PROVE TypeOK'
  BY <1>9, <1>0 DEF PushWithoutHandler, PushActivity, Navigated, MayNavigate,
    InCallback
<1>10. ASSUME NEW a \in Activity, ReplaceActivity(a) PROVE TypeOK'
  BY <1>10, <1>0 DEF ReplaceActivity, DeferReplace, Navigated, MayNavigate,
    InCallback
<1>11. CASE Finish
  BY <1>11, <1>0 DEF Finish, PopActivity, Navigated, MayNavigate, InCallback
<1>12. CASE RequestUpdateImmediate
  BY <1>12, <1>0 DEF RequestUpdateImmediate, Acts, InCallback,
    RunningActivityIsAlive, Control
<1>13. CASE LockScreen
  BY <1>13, <1>0 DEF LockScreen, Acts, InCallback, TakeRenderLock
<1>14. CASE ChangeAndUnlock
  BY <1>14, <1>0 DEF ChangeAndUnlock
<1>15. CASE RegisterWaiter
  BY <1>15, <1>0 DEF RegisterWaiter, Acts, InCallback, RunningActivityIsAlive,
    Control
<1>16. CASE NotifyRenderAndBlock
  BY <1>16, <1>0 DEF NotifyRenderAndBlock
<1>17. CASE WaitReturns
  BY <1>17, <1>0 DEF WaitReturns
<1>18. CASE ReturnFromCallback
  BY <1>18, <1>0 DEF ReturnFromCallback, InCallback, AfterCallback,
    RunningActivityIsAlive, Control
<1>19. CASE ExclusiveRestart
  BY <1>19, <1>0 DEF ExclusiveRestart, InCallback
<1>20. CASE RadioStillStopping
  BY <1>20, <1>0 DEF RadioStillStopping, AfterPass
<1>21. CASE RadioOutOfTheWay
  BY <1>21, <1>0 DEF RadioOutOfTheWay, CanCarryOut
<1>22. CASE LockForTransition
  BY <1>22, <1>0 DEF LockForTransition, TakeRenderLock
<1>23. CASE PopLast
  BY <1>23, <1>0 DEF PopLast, InTransition, ScreenChanged, NextVisit, Destroy,
    HandlersWithout
<1>24. CASE PopToParent
  BY <1>24, <1>0 DEF PopToParent, InTransition, ScreenChanged, NextVisit,
    HandlerTaken, HandlersWithout, WithoutTop
<1>25. CASE LaunchHome
  BY <1>25, <1>0 DEF LaunchHome, EnterNow
<1>26. CASE LaunchPending
  BY <1>26, <1>0 DEF LaunchPending, InTransition, ScreenChanged, NextVisit,
    Destroy, HandlersWithout, EnterNow, PendingActionIsDoable
<1>27. CASE NothingPending
  BY <1>27, <1>0 DEF NothingPending
<1>28. CASE FlushRequest
  BY <1>28, <1>0 DEF FlushRequest, AfterPass
<1>29. CASE RenderTakeNotification
  BY <1>29, <1>0 DEF RenderTakeNotification
<1>30. CASE RenderLocks
  BY <1>30, <1>0 DEF RenderLocks
<1>31. CASE RenderPaints
  BY <1>31, <1>0 DEF RenderPaints
<1>32. CASE RenderSignals
  BY <1>32, <1>0 DEF RenderSignals
<1>33. CASE RenderUnlocks
  BY <1>33, <1>0 DEF RenderUnlocks
<1>34. CASE UNCHANGED vars
  BY <1>34, <1>0 DEF vars
<1>. QED
  BY <1>1, <1>2, <1>3, <1>4, <1>5, <1>6, <1>7, <1>8, <1>9, <1>10, <1>11,
    <1>12, <1>13, <1>14, <1>15, <1>16, <1>17, <1>18, <1>19, <1>20, <1>21,
    <1>22, <1>23, <1>24, <1>25, <1>26, <1>27, <1>28, <1>29, <1>30, <1>31,
    <1>32, <1>33, <1>34 DEF Next, ManagerPass, CallbackStep, NavigationStep,
    RenderStep, PoweredDown

(* The mutex has the holder the two program counters say.                  *)
LEMMA ControlStep == Base /\ [Next]_vars => (MutexHeld /\ Control)'
<1>. SUFFICES ASSUME Base, [Next]_vars PROVE (MutexHeld /\ Control)'
  OBVIOUS
<1>. USE DEF Base, MutexHeld, Control
<1>1. CASE HostRequestsUpdate \/ RequestUpdate \/ RequestUpdateImmediate
  BY <1>1 DEF HostRequestsUpdate, RequestUpdate, RequestUpdateImmediate
<1>2. CASE SuppressedRelease
  BY <1>2 DEF SuppressedRelease, AfterPass, InPass
<1>3. CASE ExclusivePass
  BY <1>3 DEF ExclusivePass, RunCallback, InPass, ExclusiveStorage
<1>4. CASE LoopPass
  BY <1>4 DEF LoopPass, RunCallback, InPass, ExclusiveStorage
<1>5. CASE HomeGesture
  BY <1>5 DEF HomeGesture, PopActivity, AfterPass, InPass, ExclusiveStorage
<1>6. CASE LightPanelGesture
  BY <1>6 DEF LightPanelGesture, PushActivity, AfterPass, InPass,
    ExclusiveStorage
<1>7. CASE GoToSleep
  BY <1>7 DEF GoToSleep, InPass, ExclusiveStorage
<1>8. ASSUME NEW a \in Activity, StartActivityForResult(a) PROVE (MutexHeld /\
  Control)'
  BY <1>8 DEF StartActivityForResult, PushActivity, Navigated, MayNavigate,
    InCallback
<1>9. ASSUME NEW a \in Activity, PushWithoutHandler(a) PROVE (MutexHeld /\
  Control)'
  BY <1>9 DEF PushWithoutHandler, PushActivity, Navigated, MayNavigate,
    InCallback
<1>10. ASSUME NEW a \in Activity, ReplaceActivity(a) PROVE (MutexHeld /\
  Control)'
  BY <1>10 DEF ReplaceActivity, DeferReplace, Navigated, MayNavigate,
    InCallback
<1>11. CASE Finish
  BY <1>11 DEF Finish, PopActivity, Navigated, MayNavigate, InCallback
<1>12. CASE LockScreen
  BY <1>12 DEF LockScreen, Acts, InCallback, TakeRenderLock
<1>13. CASE ChangeAndUnlock
  BY <1>13 DEF ChangeAndUnlock
<1>14. CASE RegisterWaiter
  BY <1>14 DEF RegisterWaiter, Acts, InCallback
<1>15. CASE NotifyRenderAndBlock
  BY <1>15 DEF NotifyRenderAndBlock
<1>16. CASE WaitReturns
  BY <1>16 DEF WaitReturns
<1>17. CASE ReturnFromCallback
  BY <1>17 DEF ReturnFromCallback, InCallback, AfterCallback
<1>18. CASE ExclusiveRestart
  BY <1>18 DEF ExclusiveRestart, InCallback
<1>19. CASE RadioStillStopping
  BY <1>19 DEF RadioStillStopping, AfterPass
<1>20. CASE RadioOutOfTheWay
  BY <1>20 DEF RadioOutOfTheWay, CanCarryOut
<1>21. CASE LockForTransition
  BY <1>21 DEF LockForTransition, TakeRenderLock
<1>22. CASE PopLast
  BY <1>22 DEF PopLast, InTransition, ScreenChanged
<1>23. CASE PopToParent
  BY <1>23 DEF PopToParent, InTransition, ScreenChanged
<1>24. CASE LaunchHome
  BY <1>24 DEF LaunchHome, EnterNow
<1>25. CASE LaunchPending
  BY <1>25 DEF LaunchPending, InTransition, ScreenChanged, EnterNow
<1>26. CASE NothingPending
  BY <1>26 DEF NothingPending
<1>27. CASE FlushRequest
  BY <1>27 DEF FlushRequest, AfterPass
<1>28. CASE RenderTakeNotification
  BY <1>28 DEF RenderTakeNotification
<1>29. CASE RenderLocks
  BY <1>29 DEF RenderLocks
<1>30. CASE RenderPaints
  BY <1>30 DEF RenderPaints
<1>31. CASE RenderSignals
  BY <1>31 DEF RenderSignals
<1>32. CASE RenderUnlocks
  BY <1>32 DEF RenderUnlocks
<1>33. CASE UNCHANGED vars
  BY <1>33 DEF vars
<1>. QED
  BY <1>1, <1>2, <1>3, <1>4, <1>5, <1>6, <1>7, <1>8, <1>9, <1>10, <1>11,
    <1>12, <1>13, <1>14, <1>15, <1>16, <1>17, <1>18, <1>19, <1>20, <1>21,
    <1>22, <1>23, <1>24, <1>25, <1>26, <1>27, <1>28, <1>29, <1>30, <1>31,
    <1>32, <1>33 DEF Next, ManagerPass, CallbackStep, NavigationStep,
    RenderStep, PoweredDown

(* The screen whose code runs stays the current one.                       *)
LEMMA AliveStep == Base /\ [Next]_vars => RunningActivityIsAlive'
<1>. SUFFICES ASSUME Base, [Next]_vars PROVE RunningActivityIsAlive'
  OBVIOUS
<1>. USE DEF Base, TypeOK, MaybeActivity, RunningActivityIsAlive, Control
<1>1. CASE SuppressedRelease \/ HomeGesture \/ LightPanelGesture \/
  HostRequestsUpdate \/ GoToSleep \/ Finish \/ RequestUpdate \/
  RequestUpdateImmediate \/ LockScreen \/ ChangeAndUnlock \/ RegisterWaiter \/
  NotifyRenderAndBlock \/ WaitReturns \/ RadioStillStopping \/
  RadioOutOfTheWay \/ LockForTransition \/ NothingPending \/ FlushRequest \/
  RenderTakeNotification \/ RenderLocks \/ RenderPaints \/ RenderSignals \/
  RenderUnlocks \/ \E a \in Activity : StartActivityForResult(a) \/
  PushWithoutHandler(a) \/ ReplaceActivity(a)
  BY <1>1 DEF SuppressedRelease, HomeGesture, LightPanelGesture,
    HostRequestsUpdate, GoToSleep, StartActivityForResult, PushWithoutHandler,
    ReplaceActivity, DeferReplace, Finish, RequestUpdate,
    RequestUpdateImmediate, LockScreen, ChangeAndUnlock, RegisterWaiter,
    NotifyRenderAndBlock, WaitReturns, RadioStillStopping, RadioOutOfTheWay,
    LockForTransition, NothingPending, FlushRequest, RenderTakeNotification,
    RenderLocks, RenderPaints, RenderSignals, RenderUnlocks
<1>2. CASE ExclusivePass
  BY <1>2 DEF ExclusivePass, RunCallback, InPass, ExclusiveStorage
<1>3. CASE LoopPass
  BY <1>3 DEF LoopPass, RunCallback, InPass, ExclusiveStorage
<1>4. CASE ReturnFromCallback
  BY <1>4 DEF ReturnFromCallback, InCallback
<1>5. CASE ExclusiveRestart
  BY <1>5 DEF ExclusiveRestart, InCallback
<1>6. CASE PopLast
  BY <1>6 DEF PopLast, InTransition
<1>7. CASE PopToParent
  BY <1>7, ActivityAssumption DEF PopToParent, InTransition
<1>8. CASE LaunchHome
  BY <1>8, ActivityAssumption DEF LaunchHome, EnterNow
<1>9. CASE LaunchPending
  BY <1>9, ActivityAssumption DEF LaunchPending, InTransition, EnterNow
<1>10. CASE UNCHANGED vars
  BY <1>10 DEF vars
<1>. QED
  BY <1>1, <1>2, <1>3, <1>4, <1>5, <1>6, <1>7, <1>8, <1>9, <1>10 DEF Next,
    ManagerPass, CallbackStep, NavigationStep, RenderStep, PoweredDown

(* A pending action keeps what it needs to be carried out.                 *)
LEMMA DoableStep == Base /\ [Next]_vars => PendingActionIsDoable'
<1>. SUFFICES ASSUME Base, [Next]_vars PROVE PendingActionIsDoable'
  OBVIOUS
<1>. USE DEF Base, TypeOK, MaybeActivity, PendingActionIsDoable, Control
<1>1. CASE HostRequestsUpdate \/ RequestUpdate \/ RequestUpdateImmediate \/
  RenderTakeNotification \/ RenderLocks \/ RenderPaints \/ RenderSignals \/
  RenderUnlocks
  BY <1>1 DEF HostRequestsUpdate, RequestUpdate, RequestUpdateImmediate,
    RenderTakeNotification, RenderLocks, RenderPaints, RenderSignals,
    RenderUnlocks
<1>2. CASE SuppressedRelease
  BY <1>2 DEF SuppressedRelease, AfterPass, InPass
<1>3. CASE ExclusivePass
  BY <1>3 DEF ExclusivePass, RunCallback, InPass, ExclusiveStorage
<1>4. CASE LoopPass
  BY <1>4 DEF LoopPass, RunCallback, InPass, ExclusiveStorage
<1>5. CASE HomeGesture
  BY <1>5, ActivityAssumption DEF HomeGesture, PopActivity, AfterPass, InPass,
    ExclusiveStorage
<1>6. CASE LightPanelGesture
  BY <1>6, ActivityAssumption DEF LightPanelGesture, PushActivity, AfterPass,
    InPass, ExclusiveStorage
<1>7. CASE GoToSleep
  BY <1>7, ActivityAssumption DEF GoToSleep, InPass, ExclusiveStorage
<1>8. ASSUME NEW a \in Activity, StartActivityForResult(a) PROVE
  PendingActionIsDoable'
  BY <1>8, ActivityAssumption DEF StartActivityForResult, PushActivity,
    MayNavigate, InCallback
<1>9. ASSUME NEW a \in Activity, PushWithoutHandler(a) PROVE
  PendingActionIsDoable'
  BY <1>9, ActivityAssumption DEF PushWithoutHandler, PushActivity,
    MayNavigate, InCallback
<1>10. ASSUME NEW a \in Activity, ReplaceActivity(a) PROVE
  PendingActionIsDoable'
  BY <1>10, ActivityAssumption DEF ReplaceActivity, DeferReplace, MayNavigate,
    InCallback
<1>11. CASE Finish
  BY <1>11 DEF Finish, PopActivity, MayNavigate, InCallback
<1>12. CASE LockScreen
  BY <1>12 DEF LockScreen, Acts, InCallback
<1>13. CASE ChangeAndUnlock
  BY <1>13 DEF ChangeAndUnlock
<1>14. CASE RegisterWaiter
  BY <1>14 DEF RegisterWaiter, Acts, InCallback
<1>15. CASE NotifyRenderAndBlock
  BY <1>15 DEF NotifyRenderAndBlock
<1>16. CASE WaitReturns
  BY <1>16 DEF WaitReturns
<1>17. CASE ReturnFromCallback
  BY <1>17 DEF ReturnFromCallback, InCallback, AfterCallback
<1>18. CASE ExclusiveRestart
  BY <1>18 DEF ExclusiveRestart, InCallback
<1>19. CASE RadioStillStopping
  BY <1>19 DEF RadioStillStopping, AfterPass
<1>20. CASE RadioOutOfTheWay
  BY <1>20 DEF RadioOutOfTheWay, CanCarryOut
<1>21. CASE LockForTransition
  BY <1>21 DEF LockForTransition
<1>22. CASE PopLast
  BY <1>22 DEF PopLast, InTransition, ScreenChanged
<1>23. CASE PopToParent
  BY <1>23, ActivityAssumption DEF PopToParent, InTransition, ScreenChanged
<1>24. CASE LaunchHome
  BY <1>24, ActivityAssumption DEF LaunchHome, EnterNow
<1>25. CASE LaunchPending
  BY <1>25, ActivityAssumption DEF LaunchPending, InTransition, ScreenChanged,
    EnterNow
<1>26. CASE NothingPending
  BY <1>26 DEF NothingPending
<1>27. CASE FlushRequest
  BY <1>27 DEF FlushRequest, AfterPass
<1>28. CASE UNCHANGED vars
  BY <1>28 DEF vars
<1>. QED
  BY <1>1, <1>2, <1>3, <1>4, <1>5, <1>6, <1>7, <1>8, <1>9, <1>10, <1>11,
    <1>12, <1>13, <1>14, <1>15, <1>16, <1>17, <1>18, <1>19, <1>20, <1>21,
    <1>22, <1>23, <1>24, <1>25, <1>26, <1>27, <1>28 DEF Next, ManagerPass,
    CallbackStep, NavigationStep, RenderStep, PoweredDown

(* Base is inductive.                                                      *)
LEMMA BaseStep == Base /\ [Next]_vars => Base'
  BY TypesStep, ControlStep, AliveStep, DoableStep DEF Base

-----------------------------------------------------------------------------
(* The invariants that rest on Base.                                       *)
(* The screen being drawn stays current.                                   *)
LEMMA DrawnStep == Base /\ DrawnActivityIsCurrent /\ [Next]_vars =>
  DrawnActivityIsCurrent'
<1>. SUFFICES ASSUME Base, DrawnActivityIsCurrent, [Next]_vars PROVE
  DrawnActivityIsCurrent'
  OBVIOUS
<1>. USE DEF Base, TypeOK, MutexHeld, DrawnActivityIsCurrent
<1>1. CASE SuppressedRelease \/ ExclusivePass \/ LoopPass \/ HomeGesture \/
  LightPanelGesture \/ HostRequestsUpdate \/ GoToSleep \/ Finish \/
  RequestUpdate \/ RequestUpdateImmediate \/ LockScreen \/ ChangeAndUnlock \/
  RegisterWaiter \/ NotifyRenderAndBlock \/ WaitReturns \/ ReturnFromCallback
  \/ ExclusiveRestart \/ RadioStillStopping \/ RadioOutOfTheWay \/
  LockForTransition \/ NothingPending \/ FlushRequest \/ \E a \in Activity :
  StartActivityForResult(a) \/ PushWithoutHandler(a) \/ ReplaceActivity(a)
  BY <1>1 DEF SuppressedRelease, ExclusivePass, RunCallback, LoopPass,
    HomeGesture, LightPanelGesture, HostRequestsUpdate, GoToSleep,
    StartActivityForResult, Navigated, PushWithoutHandler, ReplaceActivity,
    DeferReplace, Finish, RequestUpdate, RequestUpdateImmediate, LockScreen,
    ChangeAndUnlock, RegisterWaiter, NotifyRenderAndBlock, WaitReturns,
    ReturnFromCallback, ExclusiveRestart, RadioStillStopping,
    RadioOutOfTheWay, LockForTransition, NothingPending, FlushRequest
<1>2. CASE PopLast
  BY <1>2 DEF PopLast, InTransition, ScreenChanged
<1>3. CASE PopToParent
  BY <1>3 DEF PopToParent, InTransition, ScreenChanged
<1>4. CASE LaunchHome
  BY <1>4 DEF LaunchHome, EnterNow, PendingActionIsDoable
<1>5. CASE LaunchPending
  BY <1>5 DEF LaunchPending, InTransition, ScreenChanged, EnterNow
<1>6. CASE RenderTakeNotification
  BY <1>6 DEF RenderTakeNotification
<1>7. CASE RenderLocks
  BY <1>7 DEF RenderLocks
<1>8. CASE RenderPaints
  BY <1>8 DEF RenderPaints
<1>9. CASE RenderSignals
  BY <1>9 DEF RenderSignals
<1>10. CASE RenderUnlocks
  BY <1>10 DEF RenderUnlocks
<1>11. CASE UNCHANGED vars
  BY <1>11 DEF vars
<1>. QED
  BY <1>1, <1>2, <1>3, <1>4, <1>5, <1>6, <1>7, <1>8, <1>9, <1>10, <1>11 DEF
    Next, ManagerPass, CallbackStep, NavigationStep, RenderStep, PoweredDown

(* A wait is registered, or woken, never both.                             *)
LEMMA WakeStep == Base /\ OneWakePerWait /\ [Next]_vars => OneWakePerWait'
<1>. SUFFICES ASSUME Base, OneWakePerWait, [Next]_vars PROVE OneWakePerWait'
  OBVIOUS
<1>. USE DEF Base, TypeOK, FlagsTyped, Control, OneWakePerWait
<1>1. CASE HostRequestsUpdate \/ GoToSleep \/ Finish \/ RequestUpdate \/
  RequestUpdateImmediate \/ RenderTakeNotification \/ RenderLocks \/
  RenderPaints \/ RenderUnlocks \/ \E a \in Activity :
  StartActivityForResult(a) \/ PushWithoutHandler(a) \/ ReplaceActivity(a)
  BY <1>1 DEF HostRequestsUpdate, GoToSleep, StartActivityForResult,
    Navigated, PushWithoutHandler, ReplaceActivity, DeferReplace, Finish,
    RequestUpdate, RequestUpdateImmediate, RenderTakeNotification,
    RenderLocks, RenderPaints, RenderUnlocks
<1>2. CASE SuppressedRelease
  BY <1>2 DEF SuppressedRelease, AfterPass, InPass
<1>3. CASE ExclusivePass
  BY <1>3 DEF ExclusivePass, RunCallback, InPass, ExclusiveStorage
<1>4. CASE LoopPass
  BY <1>4 DEF LoopPass, RunCallback, InPass, ExclusiveStorage
<1>5. CASE HomeGesture
  BY <1>5 DEF HomeGesture, AfterPass, InPass, ExclusiveStorage
<1>6. CASE LightPanelGesture
  BY <1>6 DEF LightPanelGesture, AfterPass, InPass, ExclusiveStorage
<1>7. CASE LockScreen
  BY <1>7 DEF LockScreen, Acts, InCallback
<1>8. CASE ChangeAndUnlock
  BY <1>8 DEF ChangeAndUnlock
<1>9. CASE RegisterWaiter
  BY <1>9 DEF RegisterWaiter, Acts, InCallback
<1>10. CASE NotifyRenderAndBlock
  BY <1>10 DEF NotifyRenderAndBlock
<1>11. CASE WaitReturns
  BY <1>11 DEF WaitReturns
<1>12. CASE ReturnFromCallback
  BY <1>12 DEF ReturnFromCallback, InCallback, AfterCallback
<1>13. CASE ExclusiveRestart
  BY <1>13 DEF ExclusiveRestart, InCallback
<1>14. CASE RadioStillStopping
  BY <1>14 DEF RadioStillStopping, AfterPass
<1>15. CASE RadioOutOfTheWay
  BY <1>15 DEF RadioOutOfTheWay, CanCarryOut
<1>16. CASE LockForTransition
  BY <1>16 DEF LockForTransition
<1>17. CASE PopLast
  BY <1>17 DEF PopLast, InTransition, ScreenChanged
<1>18. CASE PopToParent
  BY <1>18 DEF PopToParent, InTransition, ScreenChanged
<1>19. CASE LaunchHome
  BY <1>19 DEF LaunchHome, EnterNow
<1>20. CASE LaunchPending
  BY <1>20 DEF LaunchPending, InTransition, ScreenChanged, EnterNow
<1>21. CASE NothingPending
  BY <1>21 DEF NothingPending
<1>22. CASE FlushRequest
  BY <1>22 DEF FlushRequest, AfterPass
<1>23. CASE RenderSignals
  BY <1>23 DEF RenderSignals
<1>24. CASE UNCHANGED vars
  BY <1>24 DEF vars
<1>. QED
  BY <1>1, <1>2, <1>3, <1>4, <1>5, <1>6, <1>7, <1>8, <1>9, <1>10, <1>11,
    <1>12, <1>13, <1>14, <1>15, <1>16, <1>17, <1>18, <1>19, <1>20, <1>21,
    <1>22, <1>23, <1>24 DEF Next, ManagerPass, CallbackStep, NavigationStep,
    RenderStep, PoweredDown

(* A woken waiter has been shown every change.                             *)
LEMMA FrameStep == Base /\ OneWakePerWait /\ FrameCovers /\ [Next]_vars =>
  FrameCovers'
<1>. SUFFICES ASSUME Base, OneWakePerWait, FrameCovers, [Next]_vars PROVE
  FrameCovers'
  OBVIOUS
<1>. USE DEF Base, TypeOK, MutexHeld, Control, RunningActivityIsAlive,
  FrameCovers
<1>1. CASE HostRequestsUpdate \/ GoToSleep \/ Finish \/ RequestUpdate \/
  RequestUpdateImmediate \/ \E a \in Activity : StartActivityForResult(a) \/
  PushWithoutHandler(a) \/ ReplaceActivity(a)
  BY <1>1 DEF HostRequestsUpdate, GoToSleep, StartActivityForResult,
    Navigated, PushWithoutHandler, ReplaceActivity, DeferReplace, Finish,
    RequestUpdate, RequestUpdateImmediate
<1>2. CASE SuppressedRelease
  BY <1>2 DEF SuppressedRelease, AfterPass, InPass
<1>3. CASE ExclusivePass
  BY <1>3 DEF ExclusivePass, RunCallback, InPass, ExclusiveStorage
<1>4. CASE LoopPass
  BY <1>4 DEF LoopPass, RunCallback, InPass, ExclusiveStorage
<1>5. CASE HomeGesture
  BY <1>5 DEF HomeGesture, AfterPass, InPass, ExclusiveStorage
<1>6. CASE LightPanelGesture
  BY <1>6 DEF LightPanelGesture, AfterPass, InPass, ExclusiveStorage
<1>7. CASE LockScreen
  BY <1>7 DEF LockScreen, Acts, InCallback
<1>8. CASE ChangeAndUnlock
  BY <1>8 DEF ChangeAndUnlock
<1>9. CASE RegisterWaiter
  BY <1>9 DEF RegisterWaiter, Acts, InCallback, OneWakePerWait
<1>10. CASE NotifyRenderAndBlock
  BY <1>10 DEF NotifyRenderAndBlock
<1>11. CASE WaitReturns
  BY <1>11 DEF WaitReturns
<1>12. CASE ReturnFromCallback
  BY <1>12 DEF ReturnFromCallback, InCallback, AfterCallback
<1>13. CASE ExclusiveRestart
  BY <1>13 DEF ExclusiveRestart, InCallback
<1>14. CASE RadioStillStopping
  BY <1>14 DEF RadioStillStopping, AfterPass
<1>15. CASE RadioOutOfTheWay
  BY <1>15 DEF RadioOutOfTheWay, CanCarryOut
<1>16. CASE LockForTransition
  BY <1>16 DEF LockForTransition
<1>17. CASE PopLast
  BY <1>17 DEF PopLast, InTransition, ScreenChanged
<1>18. CASE PopToParent
  BY <1>18 DEF PopToParent, InTransition, ScreenChanged
<1>19. CASE LaunchHome
  BY <1>19 DEF LaunchHome, EnterNow, PendingActionIsDoable
<1>20. CASE LaunchPending
  BY <1>20 DEF LaunchPending, InTransition, ScreenChanged, EnterNow
<1>21. CASE NothingPending
  BY <1>21 DEF NothingPending
<1>22. CASE FlushRequest
  BY <1>22 DEF FlushRequest, AfterPass
<1>23. CASE RenderTakeNotification
  BY <1>23 DEF RenderTakeNotification
<1>24. CASE RenderLocks
  BY <1>24 DEF RenderLocks
<1>25. CASE RenderPaints
  BY <1>25 DEF RenderPaints
<1>26. CASE RenderSignals
  BY <1>26 DEF RenderSignals, OneWakePerWait
<1>27. CASE RenderUnlocks
  BY <1>27 DEF RenderUnlocks
<1>28. CASE UNCHANGED vars
  BY <1>28 DEF vars
<1>. QED
  BY <1>1, <1>2, <1>3, <1>4, <1>5, <1>6, <1>7, <1>8, <1>9, <1>10, <1>11,
    <1>12, <1>13, <1>14, <1>15, <1>16, <1>17, <1>18, <1>19, <1>20, <1>21,
    <1>22, <1>23, <1>24, <1>25, <1>26, <1>27, <1>28 DEF Next, ManagerPass,
    CallbackStep, NavigationStep, RenderStep, PoweredDown

(* A visit marked painted has been drawn.                                  *)
LEMMA VisitStep == Base /\ VisitPainted /\ [Next]_vars => VisitPainted'
<1>. SUFFICES ASSUME Base, VisitPainted, [Next]_vars PROVE VisitPainted'
  OBVIOUS
<1>. USE DEF Base, TypeOK, MutexHeld, VisitPainted
<1>1. CASE SuppressedRelease \/ ExclusivePass \/ LoopPass \/ HomeGesture \/
  LightPanelGesture \/ HostRequestsUpdate \/ GoToSleep \/ Finish \/
  RequestUpdate \/ RequestUpdateImmediate \/ LockScreen \/ ChangeAndUnlock \/
  RegisterWaiter \/ NotifyRenderAndBlock \/ WaitReturns \/ ReturnFromCallback
  \/ ExclusiveRestart \/ RadioStillStopping \/ RadioOutOfTheWay \/
  LockForTransition \/ LaunchHome \/ NothingPending \/ FlushRequest \/ \E a
  \in Activity : StartActivityForResult(a) \/ PushWithoutHandler(a) \/
  ReplaceActivity(a)
  BY <1>1 DEF SuppressedRelease, ExclusivePass, RunCallback, LoopPass,
    HomeGesture, LightPanelGesture, HostRequestsUpdate, GoToSleep,
    StartActivityForResult, Navigated, PushWithoutHandler, ReplaceActivity,
    Finish, RequestUpdate, RequestUpdateImmediate, LockScreen,
    ChangeAndUnlock, RegisterWaiter, NotifyRenderAndBlock, WaitReturns,
    ReturnFromCallback, ExclusiveRestart, RadioStillStopping,
    RadioOutOfTheWay, LockForTransition, LaunchHome, NothingPending,
    FlushRequest
<1>2. CASE PopLast
  BY <1>2 DEF PopLast, InTransition, ScreenChanged, NextVisit
<1>3. CASE PopToParent
  BY <1>3 DEF PopToParent, InTransition, ScreenChanged, NextVisit
<1>4. CASE LaunchPending
  BY <1>4 DEF LaunchPending, InTransition, ScreenChanged, NextVisit
<1>5. CASE RenderTakeNotification
  BY <1>5 DEF RenderTakeNotification
<1>6. CASE RenderLocks
  BY <1>6 DEF RenderLocks
<1>7. CASE RenderPaints
  <2>1. renderingVisit = screenVisit
    BY <1>7 DEF RenderPaints
  <2>2. shown'
    BY <1>7, <2>1, Zenon DEF RenderPaints
  <2>. QED
    BY <1>7, <2>1, <2>2 DEF RenderPaints
<1>8. CASE RenderSignals
  BY <1>8 DEF RenderSignals
<1>9. CASE RenderUnlocks
  BY <1>9 DEF RenderUnlocks
<1>10. CASE UNCHANGED vars
  BY <1>10 DEF vars
<1>. QED
  BY <1>1, <1>2, <1>3, <1>4, <1>5, <1>6, <1>7, <1>8, <1>9, <1>10 DEF Next,
    ManagerPass, CallbackStep, NavigationStep, RenderStep, PoweredDown

(* The screen that owns the card has nothing pending.                      *)
LEMMA StorageStep == Base /\ StorageHeld /\ [Next]_vars => StorageHeld'
<1>. SUFFICES ASSUME Base, StorageHeld, [Next]_vars PROVE StorageHeld'
  OBVIOUS
<1>. USE DEF Base, TypeOK, MaybeActivity, Control, RunningActivityIsAlive,
  StorageHeld, ExclusiveStorage
<1>1. CASE HostRequestsUpdate \/ RequestUpdate \/ RequestUpdateImmediate \/
  RenderTakeNotification \/ RenderLocks \/ RenderPaints \/ RenderSignals \/
  RenderUnlocks
  BY <1>1 DEF HostRequestsUpdate, RequestUpdate, RequestUpdateImmediate,
    RenderTakeNotification, RenderLocks, RenderPaints, RenderSignals,
    RenderUnlocks
<1>2. CASE SuppressedRelease
  BY <1>2 DEF SuppressedRelease, AfterPass, InPass
<1>3. CASE ExclusivePass
  BY <1>3 DEF ExclusivePass, RunCallback, InPass, ExclusiveStorage
<1>4. CASE LoopPass
  BY <1>4 DEF LoopPass, RunCallback, InPass, ExclusiveStorage
<1>5. CASE HomeGesture
  BY <1>5 DEF HomeGesture, PopActivity, AfterPass, InPass, ExclusiveStorage
<1>6. CASE LightPanelGesture
  BY <1>6 DEF LightPanelGesture, PushActivity, AfterPass, InPass,
    ExclusiveStorage
<1>7. CASE GoToSleep
  BY <1>7 DEF GoToSleep, InPass, ExclusiveStorage
<1>8. ASSUME NEW a \in Activity, StartActivityForResult(a) PROVE StorageHeld'
  BY <1>8 DEF StartActivityForResult, PushActivity, Navigated, MayNavigate,
    InCallback
<1>9. ASSUME NEW a \in Activity, PushWithoutHandler(a) PROVE StorageHeld'
  BY <1>9 DEF PushWithoutHandler, PushActivity, Navigated, MayNavigate,
    InCallback
<1>10. ASSUME NEW a \in Activity, ReplaceActivity(a) PROVE StorageHeld'
  BY <1>10 DEF ReplaceActivity, DeferReplace, Navigated, MayNavigate,
    InCallback
<1>11. CASE Finish
  BY <1>11 DEF Finish, PopActivity, Navigated, MayNavigate, InCallback
<1>12. CASE LockScreen
  BY <1>12 DEF LockScreen, Acts, InCallback
<1>13. CASE ChangeAndUnlock
  BY <1>13 DEF ChangeAndUnlock
<1>14. CASE RegisterWaiter
  BY <1>14 DEF RegisterWaiter, Acts, InCallback
<1>15. CASE NotifyRenderAndBlock
  BY <1>15 DEF NotifyRenderAndBlock
<1>16. CASE WaitReturns
  BY <1>16 DEF WaitReturns
<1>17. CASE ReturnFromCallback
  BY <1>17 DEF ReturnFromCallback, InCallback, AfterCallback
<1>18. CASE ExclusiveRestart
  BY <1>18 DEF ExclusiveRestart, InCallback
<1>19. CASE RadioStillStopping
  BY <1>19 DEF RadioStillStopping, AfterPass
<1>20. CASE RadioOutOfTheWay
  BY <1>20 DEF RadioOutOfTheWay, CanCarryOut
<1>21. CASE LockForTransition
  BY <1>21 DEF LockForTransition
<1>22. CASE PopLast
  BY <1>22 DEF PopLast, InTransition, ScreenChanged
<1>23. CASE PopToParent
  BY <1>23 DEF PopToParent, InTransition, ScreenChanged, WithoutTop
<1>24. CASE LaunchHome
  BY <1>24 DEF LaunchHome, EnterNow, PendingActionIsDoable
<1>25. CASE LaunchPending
  BY <1>25, ActivityAssumption DEF LaunchPending, InTransition, ScreenChanged,
    EnterNow, PendingActionIsDoable
<1>26. CASE NothingPending
  BY <1>26 DEF NothingPending
<1>27. CASE FlushRequest
  BY <1>27 DEF FlushRequest, AfterPass
<1>28. CASE UNCHANGED vars
  BY <1>28 DEF vars
<1>. QED
  BY <1>1, <1>2, <1>3, <1>4, <1>5, <1>6, <1>7, <1>8, <1>9, <1>10, <1>11,
    <1>12, <1>13, <1>14, <1>15, <1>16, <1>17, <1>18, <1>19, <1>20, <1>21,
    <1>22, <1>23, <1>24, <1>25, <1>26, <1>27, <1>28 DEF Next, ManagerPass,
    CallbackStep, NavigationStep, RenderStep, PoweredDown

(* What a fresh object is not.                                             *)
LEMMA FreshFacts ==
  ASSUME TypeOK, NEW a, Fresh(a)
  PROVE  /\ a \in Activity /\ a # NoActivity
         /\ a # currentActivity /\ a # pendingActivity /\ a \notin OnStack
  BY ActivityAssumption DEF Fresh, Live

(* The stack holds screens only, and its members change with it only.      *)
LEMMA StackFacts ==
  ASSUME TypeOK
  PROVE  NoActivity \notin OnStack /\ (UNCHANGED stackActivities => OnStack' = OnStack)
  BY ActivityAssumption DEF TypeOK, OnStack

(* Screens keep one owner each.                                            *)
LEMMA OwnerStep == Base /\ OneOwner /\ [Next]_vars => OneOwner'
<1>. SUFFICES ASSUME Base, OneOwner, [Next]_vars PROVE OneOwner'
  OBVIOUS
<1>. USE DEF Base, OneOwner
<1>1. CASE SuppressedRelease \/ ExclusivePass \/ LoopPass \/
  HostRequestsUpdate \/ RequestUpdate \/ RequestUpdateImmediate \/ LockScreen
  \/ ChangeAndUnlock \/ RegisterWaiter \/ NotifyRenderAndBlock \/ WaitReturns
  \/ ReturnFromCallback \/ ExclusiveRestart \/ RadioStillStopping \/
  RadioOutOfTheWay \/ LockForTransition \/ NothingPending \/ FlushRequest \/
  RenderTakeNotification \/ RenderLocks \/ RenderPaints \/ RenderSignals \/
  RenderUnlocks
  BY <1>1, StackFacts DEF SuppressedRelease, ExclusivePass, RunCallback,
    LoopPass, HostRequestsUpdate, RequestUpdate, RequestUpdateImmediate,
    LockScreen, ChangeAndUnlock, RegisterWaiter, NotifyRenderAndBlock,
    WaitReturns, ReturnFromCallback, ExclusiveRestart, RadioStillStopping,
    RadioOutOfTheWay, LockForTransition, NothingPending, FlushRequest,
    RenderTakeNotification, RenderLocks, RenderPaints, RenderSignals,
    RenderUnlocks
<1>2. CASE HomeGesture
  <2>1. CASE pendingActivity' = NoActivity
    BY <1>2, <2>1, StackFacts DEF HomeGesture, PopActivity, InPass, ExclusiveStorage
  <2>2. CASE pendingActivity' # NoActivity
    <3>1. PICK p \in Activity : Fresh(p) /\ pendingActivity' = p
      BY <1>2, <2>2 DEF HomeGesture, PopActivity, InPass, ExclusiveStorage
    <3>. QED
      BY <1>2, <3>1, FreshFacts, StackFacts
        DEF HomeGesture, PopActivity, InPass, ExclusiveStorage
  <2>. QED
    BY <2>1, <2>2
<1>3. CASE LightPanelGesture
  <2>1. PICK p \in Activity : Fresh(p) /\ pendingActivity' = p
    BY <1>3 DEF LightPanelGesture, PushActivity, InPass, ExclusiveStorage
  <2>. QED
    BY <1>3, <2>1, FreshFacts, StackFacts
      DEF LightPanelGesture, PushActivity, InPass, ExclusiveStorage
<1>4. CASE GoToSleep
  <2>1. PICK p \in Activity : Fresh(p) /\ pendingActivity' = p
    BY <1>4 DEF GoToSleep, InPass, ExclusiveStorage
  <2>. QED
    BY <1>4, <2>1, FreshFacts, StackFacts DEF GoToSleep, InPass, ExclusiveStorage
<1>5. ASSUME NEW a \in Activity, StartActivityForResult(a) PROVE OneOwner'
  <2>1. PICK p \in Activity : Fresh(p) /\ pendingActivity' = p
    BY <1>5 DEF StartActivityForResult, PushActivity, Navigated, MayNavigate, InCallback
  <2>. QED
    BY <1>5, <2>1, FreshFacts, StackFacts
      DEF StartActivityForResult, PushActivity, Navigated, MayNavigate,
        InCallback
<1>6. ASSUME NEW a \in Activity, PushWithoutHandler(a) PROVE OneOwner'
  <2>1. PICK p \in Activity : Fresh(p) /\ pendingActivity' = p
    BY <1>6 DEF PushWithoutHandler, PushActivity, Navigated, MayNavigate, InCallback
  <2>. QED
    BY <1>6, <2>1, FreshFacts, StackFacts
      DEF PushWithoutHandler, PushActivity, Navigated, MayNavigate, InCallback
<1>7. ASSUME NEW a \in Activity, ReplaceActivity(a) PROVE OneOwner'
  <2>1. PICK p \in Activity : Fresh(p) /\ pendingActivity' = p
    BY <1>7 DEF ReplaceActivity, DeferReplace, Navigated, MayNavigate, InCallback
  <2>. QED
    BY <1>7, <2>1, FreshFacts, StackFacts
      DEF ReplaceActivity, DeferReplace, Navigated, MayNavigate, InCallback
<1>8. CASE Finish
  BY <1>8, StackFacts DEF Finish, PopActivity, Navigated, MayNavigate, InCallback
<1>9. CASE PopLast
  BY <1>9 DEF PopLast, InTransition, OnStack, PendingActionIsDoable, TypeOK,
    MaybeActivity
<1>10. CASE PopToParent
  BY <1>10 DEF PopToParent, InTransition, WithoutTop, OnStack,
    PendingActionIsDoable, TypeOK, MaybeActivity
<1>11. CASE LaunchHome
  <2>1. PICK h \in Activity : Fresh(h) /\ currentActivity' = h
    BY <1>11 DEF LaunchHome, EnterNow
  <2>2. pendingActivity = NoActivity
    BY <1>11 DEF LaunchHome, Control, PendingActionIsDoable
  <2>. QED
    BY <1>11, <2>1, <2>2, FreshFacts, StackFacts DEF LaunchHome
<1>12. CASE LaunchPending
  <2>1. /\ currentActivity' = pendingActivity /\ pendingActivity' = NoActivity
        /\ pendingActivity \in Activity /\ currentActivity \in Activity
        /\ stackActivities \in Seq(Activity)
    BY <1>12, ActivityAssumption
    DEF LaunchPending, InTransition, EnterNow, TypeOK, MaybeActivity,
        PendingActionIsDoable
  <2>2. CASE pendingAction = "Push"
    <3>1. stackActivities' = Append(stackActivities, currentActivity)
      BY <1>12, <2>2 DEF LaunchPending
    <3>2. \A i \in DOMAIN stackActivities' :
            \/ i \in DOMAIN stackActivities /\ stackActivities'[i] = stackActivities[i]
            \/ i = Len(stackActivities) + 1 /\ stackActivities'[i] = currentActivity
      BY <2>1, <3>1
    <3>3. \A i \in DOMAIN stackActivities :
            stackActivities[i] # currentActivity /\ stackActivities[i] # pendingActivity
      BY <2>1, ActivityAssumption DEF OnStack
    <3>4. \A i, j \in DOMAIN stackActivities' :
            stackActivities'[i] = stackActivities'[j] => i = j
      BY <3>2, <3>3
    <3>5. pendingActivity \notin OnStack' /\ NoActivity \notin OnStack'
      BY <2>1, <3>2, <3>3, ActivityAssumption DEF OnStack, TypeOK
    <3>. QED
      BY <2>1, <3>4, <3>5, ActivityAssumption
  <2>3. CASE pendingAction # "Push"
    <3>1. stackActivities' = <<>>
      BY <1>12, <2>3 DEF LaunchPending
    <3>. QED
      BY <2>1, <3>1, ActivityAssumption DEF OnStack
  <2>. QED
    BY <2>2, <2>3
<1>13. CASE UNCHANGED vars
  BY <1>13, StackFacts DEF vars
<1>. QED
  BY <1>1, <1>2, <1>3, <1>4, <1>5, <1>6, <1>7, <1>8, <1>9, <1>10, <1>11,
    <1>12, <1>13 DEF Next, ManagerPass, CallbackStep, NavigationStep,
    RenderStep, PoweredDown

(* The main task leaves the wait by taking its notification.               *)
LEMMA WaitLeft == Base /\ [Next]_vars => (mainPc = "waiting" /\ mainPc' #
  "waiting" => mainNotify)
<1>. SUFFICES ASSUME Base, [Next]_vars PROVE (mainPc = "waiting" /\ mainPc' #
  "waiting" => mainNotify)
  OBVIOUS
<1>1. CASE HostRequestsUpdate \/ GoToSleep \/ Finish \/ RequestUpdate \/
  RequestUpdateImmediate \/ RenderTakeNotification \/ RenderLocks \/
  RenderPaints \/ RenderSignals \/ RenderUnlocks \/ \E a \in Activity :
  StartActivityForResult(a) \/ PushWithoutHandler(a) \/ ReplaceActivity(a)
  BY <1>1 DEF HostRequestsUpdate, GoToSleep, StartActivityForResult,
    PushWithoutHandler, ReplaceActivity, DeferReplace, Finish, RequestUpdate,
    RequestUpdateImmediate, RenderTakeNotification, RenderLocks, RenderPaints,
    RenderSignals, RenderUnlocks
<1>2. CASE SuppressedRelease
  BY <1>2 DEF SuppressedRelease, AfterPass, InPass
<1>3. CASE ExclusivePass
  BY <1>3 DEF ExclusivePass, RunCallback, InPass, ExclusiveStorage
<1>4. CASE LoopPass
  BY <1>4 DEF LoopPass, RunCallback, InPass, ExclusiveStorage
<1>5. CASE HomeGesture
  BY <1>5 DEF HomeGesture, AfterPass, InPass, ExclusiveStorage
<1>6. CASE LightPanelGesture
  BY <1>6 DEF LightPanelGesture, AfterPass, InPass, ExclusiveStorage
<1>7. CASE LockScreen
  BY <1>7 DEF LockScreen, Acts, InCallback
<1>8. CASE ChangeAndUnlock
  BY <1>8 DEF ChangeAndUnlock
<1>9. CASE RegisterWaiter
  BY <1>9 DEF RegisterWaiter, Acts, InCallback
<1>10. CASE NotifyRenderAndBlock
  BY <1>10 DEF NotifyRenderAndBlock
<1>11. CASE WaitReturns
  BY <1>11 DEF WaitReturns
<1>12. CASE ReturnFromCallback
  BY <1>12 DEF ReturnFromCallback, InCallback, AfterCallback
<1>13. CASE ExclusiveRestart
  BY <1>13 DEF ExclusiveRestart, InCallback
<1>14. CASE RadioStillStopping
  BY <1>14 DEF RadioStillStopping, AfterPass
<1>15. CASE RadioOutOfTheWay
  BY <1>15 DEF RadioOutOfTheWay, CanCarryOut
<1>16. CASE LockForTransition
  BY <1>16 DEF LockForTransition
<1>17. CASE PopLast
  BY <1>17 DEF PopLast, InTransition
<1>18. CASE PopToParent
  BY <1>18 DEF PopToParent, InTransition
<1>19. CASE LaunchHome
  BY <1>19 DEF LaunchHome, EnterNow
<1>20. CASE LaunchPending
  BY <1>20 DEF LaunchPending, InTransition, EnterNow
<1>21. CASE NothingPending
  BY <1>21 DEF NothingPending
<1>22. CASE FlushRequest
  BY <1>22 DEF FlushRequest, AfterPass
<1>23. CASE UNCHANGED vars
  BY <1>23 DEF vars
<1>. QED
  BY <1>1, <1>2, <1>3, <1>4, <1>5, <1>6, <1>7, <1>8, <1>9, <1>10, <1>11,
    <1>12, <1>13, <1>14, <1>15, <1>16, <1>17, <1>18, <1>19, <1>20, <1>21,
    <1>22, <1>23 DEF Next, ManagerPass, CallbackStep, NavigationStep,
    RenderStep, PoweredDown

-----------------------------------------------------------------------------
(* What Init establishes and every step keeps.                             *)
IInv ==
  /\ Base /\ DrawnActivityIsCurrent /\ OneWakePerWait /\ FrameCovers
  /\ VisitPainted /\ StorageHeld /\ OneOwner

(* Init establishes the inductive invariant.                               *)
LEMMA InitIInv == Init => IInv
<1>. SUFFICES ASSUME Init PROVE IInv
  OBVIOUS
<1>1. Base
  BY InitBase
<1>2. DrawnActivityIsCurrent /\ OneWakePerWait /\ FrameCovers /\ VisitPainted
  BY DEF Init, DrawnActivityIsCurrent, OneWakePerWait, FrameCovers, VisitPainted
<1>3. stackActivities = <<>> /\ OnStack = {}
  BY DEF Init, OnStack
<1>4. currentActivity \in Activity /\ Kind[currentActivity] # "Exclusive"
  BY DEF Init
<1>5. StorageHeld
  BY <1>3, <1>4 DEF StorageHeld, ExclusiveStorage
<1>6. currentActivity # pendingActivity
  BY ActivityAssumption DEF Init
<1>7. OneOwner
  BY <1>3, <1>6 DEF OneOwner
<1>. QED
  BY <1>1, <1>2, <1>5, <1>7 DEF IInv

(* Every step keeps the inductive invariant.                               *)
LEMMA StepIInv == IInv /\ [Next]_vars => IInv'
  BY BaseStep, DrawnStep, WakeStep, FrameStep, VisitStep, StorageStep, OwnerStep
  DEF IInv

(* So it holds in every reachable state.                                   *)
LEMMA Invariance == Spec => []IInv
  BY InitIInv, StepIInv, PTL DEF Spec

-----------------------------------------------------------------------------
(* Every variable keeps its type, for any screens and any bounds.          *)
THEOREM TypeCorrect == Spec => []TypeOK
<1>1. IInv => TypeOK
  BY DEF IInv, Base
<1>. QED
  BY Invariance, <1>1, PTL

(* No navigation destroys the screen render() is drawing: both happen      *)
(* under the render mutex (ActivityManager::renderTaskLoop and loop).      *)
THEOREM DrawnIsCurrent == Spec => []DrawnActivityIsCurrent
<1>1. IInv => DrawnActivityIsCurrent
  BY DEF IInv
<1>. QED
  BY Invariance, <1>1, PTL

(* No callback outlives its screen: what it asks for is deferred to the    *)
(* navigation loop (ActivityManager::replaceActivity).                     *)
THEOREM RunningIsAlive == Spec => []RunningActivityIsAlive
<1>1. IInv => RunningActivityIsAlive
  BY DEF IInv, Base
<1>. QED
  BY Invariance, <1>1, PTL

(* The navigation loop never spins on an action it cannot carry out        *)
(* (ActivityManager::loop).                                                *)
THEOREM PendingIsDoable == Spec => []PendingActionIsDoable
<1>1. IInv => PendingActionIsDoable
  BY DEF IInv, Base
<1>. QED
  BY Invariance, <1>1, PTL

(* Current, stacked and pending screens are never the same object.         *)
THEOREM OneOwnerEach == Spec => []OneOwner
<1>1. IInv => OneOwner
  BY DEF IInv
<1>. QED
  BY Invariance, <1>1, PTL

(* A wait is woken once and leaves no wake-up behind                       *)
(* (ActivityManager::requestUpdateAndWait and renderTaskLoop).             *)
THEOREM WokenOnce == Spec => []OneWakePerWait
<1>1. IInv => OneWakePerWait
  BY DEF IInv
<1>. QED
  BY Invariance, <1>1, PTL

(* After a screen change, Home counts as shown only when it has painted    *)
(* (ActivityManager::isForegroundHomeShown).                               *)
THEOREM HomeShownPainted == Spec => []HomeShownWasPainted
<1>1. IInv => HomeShownWasPainted
  BY DEF IInv, VisitPainted, HomeShownWasPainted, HomeShown
<1>. QED
  BY Invariance, <1>1, PTL

(* A wait that returns has shown everything changed under the lock before  *)
(* it: the lock outlives the frame and its signal.                         *)
THEOREM WaitShows == Spec => WaitShowsChange
<1>1. IInv /\ [Next]_vars =>
        [mainPc = "waiting" /\ mainPc' # "waiting" => ~unseen]_vars
  <2>. SUFFICES ASSUME IInv, Next, mainPc = "waiting", mainPc' # "waiting"
                PROVE  ~unseen
    OBVIOUS
  <2>1. mainNotify
    BY WaitLeft DEF IInv
  <2>. QED
    BY <2>1 DEF IInv, FrameCovers
<1>. QED
  BY Invariance, <1>1, PTL DEF Spec, WaitShowsChange

(* No step replaces the screen that owns the card.                         *)
LEMMA StorageStays ==
  Base /\ StorageHeld /\ [Next]_vars => (ExclusiveStorage => UNCHANGED currentActivity)
<1>. SUFFICES ASSUME Base, StorageHeld, [Next]_vars
             PROVE  ExclusiveStorage => UNCHANGED currentActivity
  OBVIOUS
<1>. USE DEF Base, Control, StorageHeld, ExclusiveStorage
<1>1. CASE SuppressedRelease \/ ExclusivePass \/ LoopPass \/ HomeGesture \/
  LightPanelGesture \/ HostRequestsUpdate \/ GoToSleep \/ Finish \/
  RequestUpdate \/ RequestUpdateImmediate \/ LockScreen \/ ChangeAndUnlock \/
  RegisterWaiter \/ NotifyRenderAndBlock \/ WaitReturns \/ ReturnFromCallback
  \/ ExclusiveRestart \/ RadioStillStopping \/ RadioOutOfTheWay \/
  LockForTransition \/ NothingPending \/ FlushRequest \/
  RenderTakeNotification \/ RenderLocks \/ RenderPaints \/ RenderSignals \/
  RenderUnlocks \/ \E a \in Activity : StartActivityForResult(a) \/
  PushWithoutHandler(a) \/ ReplaceActivity(a)
  BY <1>1 DEF SuppressedRelease, ExclusivePass, RunCallback, LoopPass,
    HomeGesture, LightPanelGesture, HostRequestsUpdate, GoToSleep,
    StartActivityForResult, PushWithoutHandler, ReplaceActivity, DeferReplace,
    Finish, RequestUpdate, RequestUpdateImmediate, LockScreen,
    ChangeAndUnlock, RegisterWaiter, NotifyRenderAndBlock, WaitReturns,
    ReturnFromCallback, ExclusiveRestart, RadioStillStopping,
    RadioOutOfTheWay, LockForTransition, NothingPending, FlushRequest,
    RenderTakeNotification, RenderLocks, RenderPaints, RenderSignals,
    RenderUnlocks
<1>2. CASE PopLast
  BY <1>2 DEF PopLast, InTransition
<1>3. CASE PopToParent
  BY <1>3 DEF PopToParent, InTransition
<1>4. CASE LaunchHome
  BY <1>4 DEF LaunchHome, EnterNow, PendingActionIsDoable
<1>5. CASE LaunchPending
  BY <1>5 DEF LaunchPending, InTransition, EnterNow
<1>6. CASE UNCHANGED vars
  BY <1>6 DEF vars
<1>. QED
  BY <1>1, <1>2, <1>3, <1>4, <1>5, <1>6 DEF Next, ManagerPass, CallbackStep,
    NavigationStep, RenderStep, PoweredDown

(* A screen that owns the SD card is never navigated away from: it leaves  *)
(* by restarting the device (ActivityManager::loop).                       *)
THEOREM StorageOwner == Spec => StorageOwnerStays
<1>1. IInv /\ [Next]_vars =>
        [ExclusiveStorage => currentActivity' = currentActivity]_vars
  BY StorageStays DEF IInv
<1>. QED
  BY Invariance, <1>1, PTL DEF Spec, StorageOwnerStays
=============================================================================
