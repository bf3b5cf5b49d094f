----------------------------- MODULE PageTurnerMC -----------------------------
(* What comments of the page turner and of the reader say and the code does *)
(* not keep.                                                               *)
EXTENDS PageTurner

(* "The radio needs a steady clock while it is up or changing state"        *)
(* (main.cpp, holdFullSpeed): the radio is never on at a reduced clock.     *)
(* The render task's suspend() lets go of the clock a start has just taken. *)
CpuHeld == radio # "off" => holdsCpu

(* "the start [finishes] on its own task; neither needs the render lock     *)
(* this task holds" (EpubReaderActivity.cpp, makeRoomForChapterBuild): a    *)
(* build that waits for a start is not what that start waits for.          *)
WaitNeedsNoLock == ~(renderPc = "nap" /\ startPc = "lock")

(* "The first ask stops the radio" (EpubReaderActivity.cpp,                 *)
(* makeRoomForChapterBuild): a build that finds the radio up has asked it   *)
(* to stop.  The reader's flag outlives a visit of the menu; the hold does  *)
(* not.                                                                    *)
RefusedOnlyAfterAsking == renderPc = "nap" /\ Up => heldForBuild

(* "a start still settling, usually lets go soon after: the build waits up  *)
(* to BUILD_ROOM_WAIT_MS more, then is refused rather than run next to it"  *)
(* (EpubReaderActivity.cpp, makeRoomForChapterBuild): BuildRunsAlone with   *)
(* no exception for a start that outlasts the 3 s settleStart() waits for   *)
(* it.  status() reads running before starting, and the start may come up   *)
(* and end in between.                                                     *)
BuildNeverBesideRadio == renderPc = "build" => radio = "off"

(* A chapter's build in the background comes to its end.                   *)
BuildingSpec == FairSpec /\ SF_vars(BackgroundBuild) /\ SF_vars(ReleaseHold)

(* "the radio stops for every build and starts again once the chapter is    *)
(* built and its page is shown" (EpubReaderActivity.cpp,                    *)
(* makeRoomForChapterBuild): with the page left alone, the hold ends.  A    *)
(* start that failed as the hold began parks the build the hold waits for.  *)
HoldIsReleased == <>[](renderPc = "idle") => []<>(~heldForBuild)
=============================================================================
