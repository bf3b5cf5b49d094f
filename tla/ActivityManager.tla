--------------------------- MODULE ActivityManager ---------------------------
(***************************************************************************)
(* The activity manager of the firmware: src/activities/ActivityManager.    *)
(*                                                                         *)
(* Two FreeRTOS tasks of equal priority share it.  The main task (Arduino  *)
(* loop) owns the screens: it runs the callbacks of the current activity,  *)
(* which may ask for navigation or for a repaint, and then processes the   *)
(* pending navigation.  The render task sleeps on its task notification    *)
(* and paints whatever activity is current, under the one render mutex.    *)
(*                                                                         *)
(* An activity is an object with an identity, so that its life can be      *)
(* followed: it is current, on the stack, pending, or destroyed (and then  *)
(* its identity may be used for a new object).  What an activity draws is  *)
(* abstracted to "was anything changed since the last frame began".        *)
(***************************************************************************)
EXTENDS Integers, Sequences

CONSTANTS
  Activity,        \* identities of activity objects
  NoActivity,      \* a null unique_ptr
  Kind,            \* Kind[a]: what sort of screen the object a is
  Bluetooth,       \* TRUE when a page-turner radio is compiled in
  Boots,           \* how this device may start: with the splash, or directly
  MaxVisit,        \* bound: navigation stops after this many screen changes
  MaxNavigations   \* bound: navigation requests one callback makes

Kinds == {"Home", "Plain", "Panel", "Exclusive", "Boot", "Sleep"}

ASSUME ActivityAssumption == NoActivity \notin Activity
ASSUME KindAssumption == Kind \in [Activity -> Kinds]
ASSUME BluetoothAssumption == Bluetooth \in BOOLEAN
ASSUME BootsAssumption == Boots \subseteq {"splash", "direct"}
ASSUME BoundAssumption == MaxVisit \in Nat /\ MaxNavigations \in Nat

VARIABLES
  currentActivity, stackActivities, pendingActivity, pendingAction,
  resultHandler,      \* resultHandler[a]: the child a's handler was given for, or none
  screenVisit, paintedVisit,
  requestedUpdate,
  renderNotify,       \* the render task's notification count is not zero
  waitingTaskHandle,  \* the main task is registered in requestUpdateAndWait()
  mainNotify,         \* the main task's notification count is not zero
  renderingMutex,     \* who holds the render mutex
  mainPc, callback, owner, navigations,
  goingToSleep,       \* this pass is the one goToSleep() runs itself
  renderPc, rendering, renderingVisit,
  unseen,             \* history: a change made under the lock is in no frame yet
  freshFrame,         \* history: a frame was begun after the wait was registered
  shown,              \* history: a frame of this visit has been painted
  ready               \* history: objects whose onEnter() has returned or asked for a frame

navVars == <<currentActivity, stackActivities, pendingActivity, pendingAction,
             resultHandler, screenVisit>>
mainVars == <<mainPc, callback, owner, navigations, goingToSleep>>
renderVars == <<renderPc, rendering, renderingVisit, paintedVisit>>
wakeVars == <<requestedUpdate, renderNotify, waitingTaskHandle, mainNotify>>
historyVars == <<unseen, freshFrame, shown, ready>>
vars == <<navVars, mainVars, renderVars, wakeVars, renderingMutex, historyVars>>

MaybeActivity == Activity \cup {NoActivity}

FlagsTyped ==
  /\ requestedUpdate \in BOOLEAN /\ renderNotify \in BOOLEAN
  /\ waitingTaskHandle \in BOOLEAN /\ mainNotify \in BOOLEAN
  /\ goingToSleep \in BOOLEAN
  /\ unseen \in BOOLEAN /\ freshFrame \in BOOLEAN /\ shown \in BOOLEAN

TypeOK ==
  /\ currentActivity \in MaybeActivity
  /\ stackActivities \in Seq(Activity)
  /\ pendingActivity \in MaybeActivity
  /\ pendingAction \in {"None", "Push", "Pop", "Replace", "ReplaceForSleep"}
  /\ resultHandler \in [Activity -> MaybeActivity]
  /\ screenVisit \in Nat /\ paintedVisit \in Nat /\ renderingVisit \in Nat
  /\ renderingMutex \in {"free", "main", "render"}
  /\ mainPc \in {"pass", "callback", "locked", "registered", "waiting",
                 "pending", "blocked", "transition", "goHome", "flush", "down"}
  /\ callback \in {"none", "setup", "loop", "exclusive", "onEnter", "handler"}
  /\ owner \in MaybeActivity
  /\ navigations \in Nat
  /\ renderPc \in {"take", "lock", "draw", "signal", "release"}
  /\ rendering \in MaybeActivity
  /\ ready \in SUBSET Activity
  /\ FlagsTyped

OnStack == {stackActivities[i] : i \in DOMAIN stackActivities}
Live == ({currentActivity, pendingActivity} \cup OnStack) \ {NoActivity}

(* An object made by make_unique: none of the live ones, nor the one the    *)
(* render task still holds a pointer to.                                   *)
Fresh(a) == a \in Activity /\ a \notin Live /\ a # rendering

-----------------------------------------------------------------------------
(* Start-up (main.cpp, setup).  With the splash the boot screen is current *)
(* and the first real screen is a pending Replace; without it the first    *)
(* real screen is launched at once and its onEnter() is running.           *)
Init ==
  /\ \/ /\ "splash" \in Boots
        /\ \E boot \in Activity, first \in Activity :
            /\ Kind[boot] = "Boot" /\ Kind[first] \in {"Home", "Plain"}
            /\ currentActivity = boot /\ ready = {boot}
            /\ pendingActivity = first /\ pendingAction = "Replace"
            /\ mainPc = "pass" /\ callback = "none" /\ owner = NoActivity
     \/ /\ "direct" \in Boots
        /\ \E first \in Activity :
            /\ Kind[first] \in {"Home", "Plain"}
            /\ currentActivity = first /\ ready = {}
            /\ pendingActivity = NoActivity /\ pendingAction = "None"
            /\ mainPc = "callback" /\ callback = "setup" /\ owner = first
  /\ stackActivities = <<>>
  /\ resultHandler = [a \in Activity |-> NoActivity]
  /\ screenVisit = 0 /\ paintedVisit = 0 /\ renderingVisit = 0
  /\ requestedUpdate = FALSE /\ renderNotify = FALSE
  /\ waitingTaskHandle = FALSE /\ mainNotify = FALSE
  /\ renderingMutex = "free"
  /\ navigations = 0 /\ goingToSleep = FALSE
  /\ renderPc = "take" /\ rendering = NoActivity
  /\ unseen = TRUE /\ freshFrame = FALSE /\ shown = FALSE

-----------------------------------------------------------------------------
(* Navigation requests.                                                    *)

(* Mutant: replaceActivity() always launches at once.                      *)
ReplaceAtOnce(a) ==
  /\ currentActivity' = a
  /\ UNCHANGED <<pendingActivity, pendingAction, owner, callback, mainPc>>

(* replaceActivity() while an activity is current: the launch is deferred, *)
(* and whatever was pending is dropped.                                    *)
DeferReplace(a) ==
  /\ pendingActivity' = a
  /\ pendingAction' = "Replace"
  /\ UNCHANGED <<currentActivity, owner, callback, mainPc>>

(* pushActivity() and popActivity() drop a pending activity as well.       *)
PushActivity(a) ==
  /\ pendingActivity' = a
  /\ pendingAction' = "Push"

PopActivity ==
  /\ pendingActivity' = NoActivity
  /\ pendingAction' = "Pop"

(* currentActivity = newActivity; currentActivity->onEnter(), not locked.  *)
EnterNow(a) ==
  /\ currentActivity' = a
  /\ mainPc' = "callback" /\ callback' = "onEnter" /\ owner' = a /\ navigations' = 0

(* onExit() and the destructor of every object in gone.                    *)
HandlersWithout(gone) ==
  [a \in Activity |-> IF a \in gone THEN NoActivity ELSE resultHandler[a]]
Destroy(gone) == ready' = ready \ gone /\ resultHandler' = HandlersWithout(gone)

-----------------------------------------------------------------------------
(* Mutant: the lock is not waited for.                                     *)
TakeRenderLockBlindly == renderingMutex' = "main"

(* RenderLock lock; on the main task.                                      *)
TakeRenderLock == renderingMutex = "free" /\ renderingMutex' = "main"

-----------------------------------------------------------------------------
(* One pass of ActivityManager::loop().                                    *)

(* Where a return from loop() leads: the next pass, or, when goToSleep()   *)
(* made the call, powering down.                                           *)
AfterPass == IF goingToSleep THEN "down" ELSE "pass"

InPass == mainPc = "pass"
ExclusiveStorage == currentActivity # NoActivity /\ Kind[currentActivity] = "Exclusive"

(* consumeSuppressedRelease(): the pass ends before anything else.         *)
SuppressedRelease ==
  /\ InPass
  /\ mainPc' = AfterPass
  /\ UNCHANGED <<callback, owner, navigations, goingToSleep, navVars, renderVars,
                 wakeVars, renderingMutex, historyVars>>

RunCallback(in) ==
  /\ mainPc' = "callback" /\ callback' = in /\ owner' = currentActivity
  /\ navigations' = 0
  /\ UNCHANGED <<goingToSleep, navVars, renderVars, wakeVars, renderingMutex, historyVars>>

ExclusivePass == InPass /\ ExclusiveStorage /\ RunCallback("exclusive")

LoopPass == InPass /\ currentActivity # NoActivity /\ ~ExclusiveStorage /\ RunCallback("loop")

(* The home gesture ends the pass before the pending action is processed.  *)
(* The panel handles it by closing itself; other screens go home.          *)
HomeGesture ==
  /\ InPass /\ currentActivity # NoActivity /\ ~ExclusiveStorage
  /\ Kind[currentActivity] # "Home"
  /\ screenVisit < MaxVisit
  /\ IF Kind[currentActivity] = "Panel"
     THEN PopActivity
     ELSE \E h \in Activity :
            /\ Fresh(h) /\ Kind[h] = "Home"
            /\ pendingActivity' = h /\ pendingAction' = "Replace"
  /\ mainPc' = AfterPass
  /\ UNCHANGED <<currentActivity, stackActivities, resultHandler, screenVisit,
                 callback, owner, navigations, goingToSleep, renderVars, wakeVars,
                 renderingMutex, historyVars>>

(* The light panel is pushed over any screen but itself, with no handler.  *)
LightPanelGesture ==
  /\ InPass /\ currentActivity # NoActivity /\ ~ExclusiveStorage
  /\ Kind[currentActivity] # "Panel"
  /\ screenVisit < MaxVisit
  /\ \E p \in Activity : Fresh(p) /\ Kind[p] = "Panel" /\ PushActivity(p)
  /\ mainPc' = AfterPass
  /\ UNCHANGED <<currentActivity, stackActivities, resultHandler, screenVisit,
                 callback, owner, navigations, goingToSleep, renderVars, wakeVars,
                 renderingMutex, historyVars>>

(* main.cpp between passes: a USB state change repaints the battery icon,  *)
(* a remote page turn repaints the page.                                   *)
HostRequestsUpdate ==
  /\ InPass /\ ~goingToSleep /\ ~ExclusiveStorage
  /\ requestedUpdate' = TRUE
  /\ UNCHANGED <<renderNotify, waitingTaskHandle, mainNotify, navVars, mainVars,
                 renderVars, renderingMutex, historyVars>>

(* enterDeepSleep(): goToSleep() asks for the sleep screen and calls loop()*)
(* once itself; the device powers down when that call returns.             *)
GoToSleep ==
  /\ InPass /\ ~goingToSleep /\ ~ExclusiveStorage /\ currentActivity # NoActivity
  /\ screenVisit < MaxVisit
  /\ \E s \in Activity : Fresh(s) /\ Kind[s] = "Sleep" /\ pendingActivity' = s
  /\ pendingAction' = "ReplaceForSleep"
  /\ goingToSleep' = TRUE
  /\ UNCHANGED <<currentActivity, stackActivities, resultHandler, screenVisit,
                 mainPc, callback, owner, navigations, renderVars, wakeVars,
                 renderingMutex, historyVars>>

-----------------------------------------------------------------------------
(* What the code of an activity does inside a callback.                    *)

InCallback == mainPc = "callback"
Acts == InCallback /\ Kind[owner] # "Boot"  \* the boot screen only draws
(* The boot and sleep screens only draw; the USB drive's onEnter() does not *)
(* navigate either, and what its loop() asks for is never carried out.     *)
MayNavigate ==
  /\ InCallback /\ Kind[owner] \notin {"Boot", "Sleep"}
  /\ Kind[owner] = "Exclusive" => callback = "exclusive"
  /\ navigations < MaxNavigations /\ screenVisit < MaxVisit

Navigated ==
  /\ navigations' = navigations + 1
  /\ UNCHANGED <<stackActivities, screenVisit, goingToSleep, renderVars, wakeVars,
                 renderingMutex, historyVars>>

(* startActivityForResult(): the handler is stored, the child is pending.  *)
StartActivityForResult(child) ==
  /\ MayNavigate /\ Fresh(child) /\ Kind[child] = "Plain"
  /\ resultHandler' = [resultHandler EXCEPT ![owner] = child]
  /\ PushActivity(child)
  /\ UNCHANGED <<currentActivity, mainPc, callback, owner>>
  /\ Navigated

(* goToClock() and the like: a push with no handler.                       *)
PushWithoutHandler(child) ==
  /\ MayNavigate /\ Fresh(child) /\ Kind[child] = "Plain"
  /\ PushActivity(child)
  /\ UNCHANGED <<currentActivity, resultHandler, mainPc, callback, owner>>
  /\ Navigated

Finish ==
  /\ MayNavigate
  /\ PopActivity
  /\ UNCHANGED <<currentActivity, resultHandler, mainPc, callback, owner>>
  /\ Navigated

ReplaceActivity(a) ==
  /\ MayNavigate /\ Fresh(a) /\ Kind[a] \in {"Home", "Plain", "Exclusive"}
  /\ DeferReplace(a)
  /\ UNCHANGED resultHandler
  /\ Navigated

(* requestUpdate(): deferred to the end of the pass.                       *)
RequestUpdate ==
  /\ Acts
  /\ requestedUpdate' = TRUE
  /\ UNCHANGED <<renderNotify, waitingTaskHandle, mainNotify, navVars, mainVars,
                 renderVars, renderingMutex, historyVars>>

(* requestUpdate(true): the render task is notified at once.               *)
RequestUpdateImmediate ==
  /\ Acts
  /\ renderNotify' = TRUE
  /\ ready' = ready \cup {owner}
  /\ UNCHANGED <<requestedUpdate, waitingTaskHandle, mainNotify, navVars, mainVars,
                 renderVars, renderingMutex, unseen, freshFrame, shown>>

(* { RenderLock lock; state = ...; }                                       *)
LockScreen ==
  /\ Acts /\ TakeRenderLock
  /\ mainPc' = "locked"
  /\ UNCHANGED <<callback, owner, navigations, goingToSleep, navVars, renderVars,
                 wakeVars, historyVars>>
ChangeAndUnlock ==
  /\ mainPc = "locked"
  /\ unseen' = TRUE
  /\ renderingMutex' = "free" /\ mainPc' = "callback"
  /\ UNCHANGED <<callback, owner, navigations, goingToSleep, navVars, renderVars,
                 wakeVars, freshFrame, shown, ready>>

(* requestUpdateAndWait(): register as the waiter in a critical section... *)
(* Home never calls it; setup() does, for whichever screen it launched.    *)
RegisterWaiter ==
  /\ Acts
  /\ callback = "setup" \/ Kind[owner] # "Home"
  /\ waitingTaskHandle = FALSE /\ renderingMutex # "main"
  /\ waitingTaskHandle' = TRUE
  /\ mainPc' = "registered"
  /\ freshFrame' = FALSE
  /\ ready' = ready \cup {owner}
  /\ UNCHANGED <<requestedUpdate, renderNotify, mainNotify, callback, owner,
                 navigations, goingToSleep, navVars, renderVars, renderingMutex,
                 unseen, shown>>
(* Mutant: the waiter blocks without asking for a frame.                   *)
BlockWithoutNotify ==
  /\ mainPc = "registered"
  /\ mainPc' = "waiting"
  /\ UNCHANGED <<callback, owner, navigations, goingToSleep, navVars, renderVars,
                 wakeVars, renderingMutex, historyVars>>

(* ... notify the render task and block on the own notification ...        *)
NotifyRenderAndBlock ==
  /\ mainPc = "registered"
  /\ renderNotify' = TRUE /\ mainPc' = "waiting"
  /\ UNCHANGED <<requestedUpdate, waitingTaskHandle, mainNotify, callback, owner,
                 navigations, goingToSleep, navVars, renderVars, renderingMutex,
                 historyVars>>
(* ... until the render task signals the end of a frame.                   *)
WaitReturns ==
  /\ mainPc = "waiting" /\ mainNotify
  /\ mainNotify' = FALSE /\ mainPc' = "callback"
  /\ freshFrame' = FALSE
  /\ UNCHANGED <<requestedUpdate, renderNotify, waitingTaskHandle, callback, owner,
                 navigations, goingToSleep, navVars, renderVars, renderingMutex,
                 unseen, shown, ready>>

(* Mutant: no early return for an exclusive-storage screen.                *)
AfterCallbackNoReturn(in) == IF in = "setup" THEN "pass" ELSE "pending"

AfterCallback(in) ==
  IF in = "setup" THEN "pass" ELSE IF in = "exclusive" THEN "flush" ELSE "pending"

(* The callback returns to the manager.  After a result handler the parent *)
(* is repainted unless the handler navigated.                              *)
ReturnFromCallback ==
  /\ InCallback
  /\ callback' = "none" /\ owner' = NoActivity /\ navigations' = 0
  /\ mainPc' = AfterCallback(callback)
  /\ requestedUpdate' = (requestedUpdate \/ (callback = "handler" /\ pendingAction = "None"))
  /\ ready' = IF callback \in {"setup", "onEnter"} THEN ready \cup {owner} ELSE ready
  /\ UNCHANGED <<goingToSleep, navVars, renderVars, renderNotify, waitingTaskHandle,
                 mainNotify, renderingMutex, unseen, freshFrame, shown>>

(* An exclusive-storage screen leaves only by restarting the device.       *)
ExclusiveRestart ==
  /\ InCallback /\ callback = "exclusive"
  /\ mainPc' = "down" /\ callback' = "none" /\ owner' = NoActivity /\ navigations' = 0
  /\ UNCHANGED <<goingToSleep, navVars, renderVars, wakeVars,
                 renderingMutex, historyVars>>

-----------------------------------------------------------------------------
(* while (pendingAction != None): the navigation is carried out.           *)

(* beforeScreenChange() is false while the radio is still stopping: the    *)
(* pass ends with the action still pending.  The sleep screen skips it.    *)
RadioStillStopping ==
  /\ mainPc = "pending" /\ Bluetooth
  /\ pendingAction \notin {"None", "ReplaceForSleep"}
  /\ mainPc' = AfterPass
  /\ UNCHANGED <<callback, owner, navigations, goingToSleep, navVars, renderVars,
                 wakeVars, renderingMutex, historyVars>>

(* Mutant: Pop is only looked at when an activity is pending.              *)
CanCarryOutLaunch == pendingActivity # NoActivity

(* The two branches of the loop: Pop, or a pending activity to launch.     *)
CanCarryOut == pendingAction = "Pop" \/ pendingActivity # NoActivity

(* Otherwise the branch is chosen ...                                      *)
RadioOutOfTheWay ==
  /\ mainPc = "pending" /\ pendingAction # "None" /\ CanCarryOut
  /\ mainPc' = "blocked"
  /\ UNCHANGED <<callback, owner, navigations, goingToSleep, navVars, renderVars,
                 wakeVars, renderingMutex, historyVars>>

(* ... and the render lock waited for.                                     *)
LockForTransition ==
  /\ mainPc = "blocked"
  /\ TakeRenderLock
  /\ mainPc' = "transition"
  /\ UNCHANGED <<callback, owner, navigations, goingToSleep, navVars, renderVars,
                 wakeVars, historyVars>>

InTransition(actions) == mainPc = "transition" /\ pendingAction \in actions

NextVisit(visit) == visit + 1

(* stackActivities.pop_back()                                              *)
WithoutTop(stack) == SubSeq(stack, 1, Len(stack) - 1)

(* Every transition ends the visit and gives the lock back.                *)
ScreenChanged ==
  /\ screenVisit' = NextVisit(screenVisit)
  /\ pendingAction' = "None"
  /\ renderingMutex' = "free"
  /\ unseen' = TRUE /\ shown' = FALSE
  /\ UNCHANGED <<goingToSleep, renderVars, renderNotify, waitingTaskHandle,
                 mainNotify, freshFrame>>

(* Pop with nothing below: the current object is destroyed, Home is next.  *)
PopLast ==
  /\ InTransition({"Pop"}) /\ currentActivity # NoActivity /\ stackActivities = <<>>
  /\ currentActivity' = NoActivity
  /\ mainPc' = "goHome"
  /\ ScreenChanged
  /\ Destroy({currentActivity})
  /\ UNCHANGED <<stackActivities, pendingActivity, requestedUpdate, callback, owner,
                 navigations>>

(* resultHandler = nullptr after it was moved out.                         *)
HandlerTaken(parent) == [HandlersWithout({currentActivity}) EXCEPT ![parent] = NoActivity]

(* Pop to the parent: its handler, if it has one, is taken out of it and   *)
(* run without the lock.                                                   *)
PopToParent ==
  /\ InTransition({"Pop"}) /\ currentActivity # NoActivity /\ stackActivities # <<>>
  /\ LET parent == stackActivities[Len(stackActivities)]
         handled == resultHandler[parent] # NoActivity
     IN /\ currentActivity' = parent
        /\ resultHandler' = HandlerTaken(parent)
        /\ IF handled
           THEN mainPc' = "callback" /\ callback' = "handler" /\ owner' = parent
                /\ navigations' = 0 /\ UNCHANGED requestedUpdate
           ELSE mainPc' = "pending" /\ requestedUpdate' = TRUE
                /\ UNCHANGED <<callback, owner, navigations>>
  /\ stackActivities' = WithoutTop(stackActivities)
  /\ ready' = ready \ {currentActivity}
  /\ ScreenChanged
  /\ UNCHANGED pendingActivity

(* goHome() after PopLast: nothing is current, so the launch is immediate. *)
LaunchHome ==
  /\ mainPc = "goHome"
  /\ \E h \in Activity :
       Fresh(h) /\ Kind[h] = "Home" /\ EnterNow(h)
  /\ UNCHANGED <<stackActivities, pendingActivity, pendingAction, screenVisit,
                 resultHandler, goingToSleep, renderVars, wakeVars, renderingMutex,
                 historyVars>>

(* Push keeps the current object on the stack; Replace destroys it and the *)
(* whole stack.  Then the new object is current and onEnter() runs.        *)
LaunchPending ==
  /\ InTransition({"Push", "Replace", "ReplaceForSleep"}) /\ pendingActivity # NoActivity
  /\ stackActivities' = IF pendingAction = "Push"
                        THEN Append(stackActivities, currentActivity) ELSE <<>>
  /\ Destroy(IF pendingAction = "Push" THEN {} ELSE OnStack \cup {currentActivity})
  /\ EnterNow(pendingActivity)
  /\ pendingActivity' = NoActivity
  /\ ScreenChanged
  /\ UNCHANGED requestedUpdate

NothingPending ==
  /\ mainPc = "pending" /\ pendingAction = "None"
  /\ mainPc' = "flush"
  /\ UNCHANGED <<callback, owner, navigations, goingToSleep, navVars, renderVars,
                 wakeVars, renderingMutex, historyVars>>

(* Mutant: the flag is cleared but the render task is not notified.        *)
FlushWithoutNotify ==
  /\ mainPc = "flush"
  /\ requestedUpdate' = FALSE
  /\ mainPc' = AfterPass
  /\ UNCHANGED <<renderNotify, waitingTaskHandle, mainNotify, callback, owner,
                 navigations, goingToSleep, navVars, renderVars, renderingMutex,
                 historyVars>>

(* if (requestedUpdate.exchange(false)) xTaskNotify(renderTaskHandle)      *)
FlushRequest ==
  /\ mainPc = "flush"
  /\ renderNotify' = (renderNotify \/ requestedUpdate)
  /\ requestedUpdate' = FALSE
  /\ mainPc' = AfterPass
  /\ UNCHANGED <<waitingTaskHandle, mainNotify, callback, owner, navigations,
                 goingToSleep, navVars, renderVars, renderingMutex, historyVars>>

-----------------------------------------------------------------------------
(* ActivityManager::renderTaskLoop().                                      *)

RenderTakeNotification ==
  /\ renderPc = "take" /\ renderNotify
  /\ renderNotify' = FALSE /\ renderPc' = "lock"
  /\ UNCHANGED <<requestedUpdate, waitingTaskHandle, mainNotify, rendering,
                 renderingVisit, paintedVisit, navVars, mainVars, renderingMutex,
                 historyVars>>

(* RenderLock lock; if (currentActivity) render it: the frame begins.      *)
RenderLocks ==
  /\ renderPc = "lock" /\ renderingMutex = "free"
  /\ renderingMutex' = "render"
  /\ IF currentActivity = NoActivity
     THEN /\ renderPc' = "signal"
          /\ UNCHANGED <<rendering, renderingVisit, unseen, freshFrame>>
     ELSE /\ renderPc' = "draw"
          /\ rendering' = currentActivity /\ renderingVisit' = screenVisit
          /\ unseen' = FALSE
          /\ freshFrame' = (mainPc \in {"registered", "waiting"})
  /\ UNCHANGED <<paintedVisit, navVars, mainVars, wakeVars, shown, ready>>

(* Mutant: render() owns the lock and gives it back when it returns.       *)
RenderPaintsAndUnlocks ==
  /\ renderPc = "draw"
  /\ paintedVisit' = renderingVisit
  /\ shown' = (shown \/ renderingVisit = screenVisit)
  /\ rendering' = NoActivity /\ renderingVisit' = 0 /\ renderPc' = "signal"
  /\ renderingMutex' = "free"
  /\ UNCHANGED <<navVars, mainVars, wakeVars, unseen, freshFrame, ready>>

(* render() returns; the lock object lives to the end of the iteration.    *)
RenderPaints ==
  /\ renderPc = "draw"
  /\ paintedVisit' = renderingVisit
  /\ shown' = (shown \/ renderingVisit = screenVisit)
  /\ rendering' = NoActivity /\ renderingVisit' = 0 /\ renderPc' = "signal"
  /\ UNCHANGED <<navVars, mainVars, wakeVars, renderingMutex,
                 unseen, freshFrame, ready>>

(* The waiter, if there is one, is taken out and notified.                 *)
RenderSignals ==
  /\ renderPc = "signal"
  /\ waitingTaskHandle' = FALSE
  /\ mainNotify' = (mainNotify \/ waitingTaskHandle)
  /\ renderPc' = "release"
  /\ UNCHANGED <<requestedUpdate, renderNotify, rendering, renderingVisit,
                 paintedVisit, navVars, mainVars, renderingMutex, historyVars>>

(* ~RenderLock at the end of the iteration.                                *)
RenderUnlocks ==
  /\ renderPc = "release"
  /\ renderingMutex' = "free" /\ renderPc' = "take"
  /\ UNCHANGED <<rendering, renderingVisit, paintedVisit, navVars, mainVars,
                 wakeVars, historyVars>>

-----------------------------------------------------------------------------
(* Deep sleep or restart: the main task is gone for good, since waking is a *)
(* chip reset that starts a new behaviour.  The render task may still run. *)
PoweredDown == mainPc = "down" /\ UNCHANGED vars

ManagerPass ==
  \/ SuppressedRelease \/ ExclusivePass \/ LoopPass \/ HomeGesture
  \/ LightPanelGesture \/ HostRequestsUpdate \/ GoToSleep

CallbackStep ==
  \/ \E a \in Activity : \/ StartActivityForResult(a)
                         \/ PushWithoutHandler(a)
                         \/ ReplaceActivity(a)
  \/ Finish \/ RequestUpdate \/ RequestUpdateImmediate
  \/ LockScreen \/ ChangeAndUnlock
  \/ RegisterWaiter \/ NotifyRenderAndBlock \/ WaitReturns
  \/ ReturnFromCallback \/ ExclusiveRestart

NavigationStep ==
  \/ RadioStillStopping \/ RadioOutOfTheWay \/ LockForTransition \/ PopLast \/ PopToParent
  \/ LaunchHome \/ LaunchPending \/ NothingPending \/ FlushRequest

RenderStep ==
  \/ RenderTakeNotification \/ RenderLocks \/ RenderPaints
  \/ RenderSignals \/ RenderUnlocks

Next == ManagerPass \/ CallbackStep \/ NavigationStep \/ RenderStep \/ PoweredDown

Spec == Init /\ [][Next]_vars

(* Both tasks are scheduled (equal priority, time sliced); a mutex that is *)
(* free again and again is eventually taken; a callback returns; input     *)
(* does not cut every pass short; the radio does stop.                     *)
Fairness ==
  /\ WF_vars(RenderTakeNotification) /\ SF_vars(RenderLocks)
  /\ WF_vars(RenderPaints) /\ WF_vars(RenderSignals) /\ WF_vars(RenderUnlocks)
  /\ SF_vars(LoopPass) /\ WF_vars(ExclusivePass)
  /\ SF_vars(ReturnFromCallback) /\ WF_vars(ChangeAndUnlock)
  /\ WF_vars(NotifyRenderAndBlock) /\ WF_vars(WaitReturns)
  /\ SF_vars(RadioOutOfTheWay) /\ SF_vars(LockForTransition) /\ WF_vars(PopLast) /\ WF_vars(PopToParent)
  /\ WF_vars(LaunchHome) /\ WF_vars(LaunchPending)
  /\ WF_vars(NothingPending) /\ WF_vars(FlushRequest)

FairSpec == Spec /\ Fairness

-----------------------------------------------------------------------------
(* Safety.                                                                 *)

(* The object the render task is drawing is still the current one: no      *)
(* navigation destroys it under render(), which keeps the lock it is given *)
(* until it returns (renderTaskLoop's TOCTOU comment, exitActivity's "lock *)
(* must be held").                                                         *)
DrawnActivityIsCurrent ==
  renderPc = "draw" => rendering # NoActivity /\ rendering = currentActivity

(* A running callback belongs to a live, current object: replaceActivity() *)
(* defers the launch, so nothing is destroyed by its own callback (the     *)
(* "delete this" problem).                                                 *)
RunningActivityIsAlive ==
  callback # "none" => owner # NoActivity /\ owner = currentActivity

(* One owner per object: the current activity, the stack and the pending   *)
(* activity never share one (each is a unique_ptr, moved, never copied).   *)
OneOwner ==
  /\ \A i, j \in DOMAIN stackActivities :
       stackActivities[i] = stackActivities[j] => i = j
  /\ currentActivity # NoActivity => currentActivity \notin OnStack \cup {pendingActivity}
  /\ pendingActivity \notin OnStack

(* The navigation loop always finds something it can do: a pending action  *)
(* other than Pop has its activity, and outside the step from the last     *)
(* pop to Home something is current (otherwise loop() spins for ever).     *)
PendingActionIsDoable ==
  /\ pendingAction \in {"Push", "Replace", "ReplaceForSleep"} <=> pendingActivity # NoActivity
  /\ currentActivity = NoActivity <=> mainPc = "goHome"

(* requestUpdateAndWait() is woken exactly once: while the main task waits *)
(* it is either registered or has its wake-up, never both, and afterwards  *)
(* no wake-up is left over to cut the next wait short.                     *)
OneWakePerWait ==
  IF mainPc \in {"registered", "waiting"}
  THEN waitingTaskHandle # mainNotify
  ELSE ~waitingTaskHandle /\ ~mainNotify

(* When requestUpdateAndWait() returns, everything changed under the       *)
(* render lock before the call is in a frame that has been painted: the    *)
(* lock outlives render(), so a frame already under way cannot hide a      *)
(* change made before it began.                                            *)
WaitShowsChange ==
  [][mainPc = "waiting" /\ mainPc' # "waiting" => ~unseen]_vars

(* isForegroundHomeShown() -- after at least one screen change -- is true  *)
(* only if Home itself has painted a frame in this visit.                  *)
HomeShown ==
  /\ pendingAction = "None" /\ currentActivity # NoActivity
  /\ Kind[currentActivity] = "Home" /\ paintedVisit = screenVisit
HomeShownWasPainted == screenVisit # 0 /\ HomeShown => shown

(* While a screen owns the raw SD card no navigation is carried out, even  *)
(* one its own code asked for: it leaves by restarting only.               *)
StorageOwnerStays ==
  [][ExclusiveStorage => currentActivity' = currentActivity]_vars

(* A result handler runs with the result of the child it was given for.    *)
HandlerGetsOwnChild ==
  [][callback' = "handler" /\ callback # "handler"
       => resultHandler[currentActivity'] = currentActivity]_vars

-----------------------------------------------------------------------------
(* Liveness.                                                               *)

(* A repaint asked for while a screen is in front does not wait for ever:  *)
(* the screen is drawn, be it by a frame already under way, unless it      *)
(* leaves the front or the device goes down.                               *)
RequestedUpdateIsDrawn ==
  \A a \in Activity :
    requestedUpdate /\ currentActivity = a
      ~> rendering = a \/ currentActivity # a \/ mainPc = "down"

(* requestUpdateAndWait() returns.                                         *)
WaitEnds == mainPc = "waiting" ~> mainPc = "callback"

(* A navigation request is carried out or superseded, or the device goes   *)
(* down first.                                                             *)
NavigationIsServed ==
  pendingAction # "None" ~> pendingAction = "None" \/ mainPc = "down"
=============================================================================
