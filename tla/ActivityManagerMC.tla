-------------------------- MODULE ActivityManagerMC --------------------------
(* Properties of the activity manager and the small instance TLC checks.   *)
EXTENDS ActivityManager, TLC

CONSTANTS home1, home2, plain1, plain2, panel, usb, boot, sleep

MCKind == [a \in Activity |->
             CASE a \in {home1, home2}   -> "Home"
               [] a \in {plain1, plain2} -> "Plain"
               [] a = panel              -> "Panel"
               [] a = usb                -> "Exclusive"
               [] a = boot               -> "Boot"
               [] OTHER                  -> "Sleep"]

(* Objects of one kind are interchangeable.                                *)
MCSymmetry == Permutations({home1, home2}) \cup Permutations({plain1, plain2})

-----------------------------------------------------------------------------
(* What docs and comments say and the code does not keep.                  *)

(* "Trigger a render and block until it completes" (ActivityManager.h,     *)
(* requestUpdateAndWait): the frame waited for is the one the call asked   *)
(* for.  A frame already under way when the waiter registers wakes it.     *)
WaitCoversTriggeredRender ==
  [][mainPc = "waiting" /\ mainPc' # "waiting" => freshFrame]_vars

(* "MyActivity->onEnter() // init new activity", then the render task is   *)
(* notified (docs/activity-manager.md, lifecycle): an object is drawn only *)
(* after its onEnter() has returned or has itself asked for the frame.  A  *)
(* notification left from the screen before draws it earlier, since the    *)
(* lock is given back before onEnter() runs.                               *)
DrawnActivityIsReady == renderPc = "draw" => rendering \in ready

(* "Home is in front and has painted a frame of its own" (ActivityManager.h,*)
(* isForegroundHomeShown).  Both visit counters start at 0 and the launch  *)
(* in setup() does not count, so Home passes for painted before any frame. *)
HomeShownMeansPainted == HomeShown => shown

(* "Should never happen in practice" (ActivityManager.cpp, pushActivity    *)
(* and popActivity): no push or pop while an activity is pending.  A pass  *)
(* that ends early leaves the pending activity for the next callback.      *)
NoPendingAtPushOrPop ==
  [][callback # "none" /\ pendingActivity # NoActivity
       => <<pendingAction', pendingActivity'>> \in
            {<<pendingAction, pendingActivity>>, <<"None", NoActivity>>}
          \/ pendingAction' = "Replace"]_vars

(* "sleep screen must be rendered immediately, the caller will go to sleep *)
(* right after this returns" (ActivityManager.cpp, goToSleep).             *)
SleepScreenEntered ==
  mainPc = "down" /\ goingToSleep => Kind[currentActivity] = "Sleep"

(* "child->result ... Parent->resultHandler(result)"                       *)
(* (docs/activity-manager.md, push/pop): HandlerGetsOwnChild, with a       *)
(* page-turner radio in the build.                                         *)
HandlerGetsOwnChildWithRadio == HandlerGetsOwnChild
=============================================================================
