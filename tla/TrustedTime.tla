------------------------------ MODULE TrustedTime ------------------------------
(* The trusted clock (lib/TrustedTime): the system clock, a floor under it   *)
(* in memory and one in flash that outlives a power-off.  note() raises both *)
(* from two tasks, the main task when the device goes to sleep or has waited *)
(* for a sync, and the network task whenever the time server has answered;   *)
(* only the floor in memory is raised under a lock.                          *)
EXTENDS Integers

CONSTANTS MinValid,     \* MIN_VALID_EPOCH, more than 0
          MaxValid,     \* MAX_VALID_EPOCH
          MaxLead,      \* MAX_RTC_LEAD_SECS
          MinAdvance,   \* MIN_ADVANCE_SECS
          MaxTime,      \* bound: the last moment of the model
          MaxFaults     \* bound: failing flash operations

VARIABLES
  clock,          \* time()
  ramFloor,
  floor,          \* the persisted floor, 0 for none
  on,             \* the device is awake and past init()
  sntp, synced,   \* SNTP runs, and has answered since it was configured
  at, now,        \* where note() is in each task, and its local
  answer,         \* the last answer of trustedNow() in this boot
  faults

note == <<at, now>>
vars == <<clock, ramFloor, floor, on, sntp, synced, note, answer, faults>>

Tasks == {"main", "lwip"}
Time  == 0 .. MaxTime
Valid(t) == t >= MinValid

Fault   == faults < MaxFaults /\ faults' = faults + 1
NoFault == UNCHANGED faults

Higher(s, t) == IF s >= t THEN s ELSE t

Init ==
  /\ clock \in Time
  /\ ramFloor = 0
  /\ floor = 0
  /\ on = FALSE
  /\ sntp = FALSE /\ synced = FALSE
  /\ at = [k \in Tasks |-> "idle"] /\ now = [k \in Tasks |-> 0]
  /\ answer = 0
  /\ faults = 0

-----------------------------------------------------------------------------
(* Boot, before there is a second task *)

\* adopt(): the newer of the system clock and a plausible battery-backed one, 0 for
\* neither; `stored` is what was read of the persisted floor.
Adopted(rtc, stored) ==
  IF \/ ~Valid(rtc) \/ rtc > MaxValid
     \/ Valid(stored) /\ rtc - stored > MaxLead
  THEN 0
  ELSE IF clock \in MinValid .. MaxValid THEN Higher(clock, rtc) ELSE rtc

\* init() then restores the persisted floor into the clock if that is behind.  A floor
\* that cannot be read is taken for none.
Boot(rtc) ==
  /\ ~on
  /\ on' = TRUE
  /\ \E lead, wear, restore \in BOOLEAN :
       LET taken    == Adopted(rtc, IF lead THEN floor ELSE 0)
           advanced == taken - (IF wear THEN floor ELSE 0) >= MinAdvance
           restored == restore /\ Valid(floor')
           time     == IF taken # 0 THEN taken ELSE clock
       IN /\ floor' \in (IF taken # 0 /\ advanced THEN {taken, floor} ELSE {floor})
          /\ IF lead /\ wear /\ restore /\ (taken # 0 /\ advanced => floor' = taken)
             THEN NoFault ELSE Fault
          /\ ramFloor' = IF restored THEN Higher(taken, floor') ELSE taken
          /\ clock' = IF restored THEN Higher(time, floor') ELSE time
  /\ answer' = 0
  /\ UNCHANGED <<sntp, synced, note>>

-----------------------------------------------------------------------------
(* note(), in either task *)

At(k, place) == at' = [at EXCEPT ![k] = place]

ReadTime(k) ==
  /\ at[k] = "time"
  /\ now' = [now EXCEPT ![k] = clock]
  /\ At(k, IF Valid(clock) THEN "raise" ELSE "idle")
  /\ UNCHANGED <<clock, ramFloor, floor, on, sntp, synced, answer, faults>>

RaiseFloor(k) ==
  /\ at[k] = "raise"
  /\ ramFloor' = Higher(ramFloor, now[k])
  /\ At(k, "compare")
  /\ UNCHANGED <<clock, floor, on, sntp, synced, now, answer, faults>>

Compare(k) ==
  /\ at[k] = "compare"
  /\ \E stored \in {floor, 0} :
       /\ IF stored = floor THEN NoFault ELSE Fault
       /\ At(k, IF now[k] - stored >= MinAdvance THEN "write" ELSE "idle")
  /\ UNCHANGED <<clock, ramFloor, floor, on, sntp, synced, now, answer>>

WriteFloor(k) ==
  /\ at[k] = "write"
  /\ \/ NoFault /\ floor' = now[k]
     \/ Fault /\ UNCHANGED floor
  /\ At(k, "idle")
  /\ UNCHANGED <<clock, ramFloor, on, sntp, synced, now, answer>>

Note(k) == ReadTime(k) \/ RaiseFloor(k) \/ Compare(k) \/ WriteFloor(k)

-----------------------------------------------------------------------------
(* The main task *)

StartSync ==
  /\ on /\ at["main"] = "idle"
  /\ sntp' = TRUE
  /\ synced' = IF sntp THEN synced ELSE FALSE
  /\ UNCHANGED <<clock, ramFloor, floor, on, note, answer, faults>>

\* syncNow() configures SNTP anew and waits for it.
SyncNow ==
  /\ on /\ at["main"] = "idle"
  /\ sntp' = TRUE
  /\ synced' = FALSE
  /\ At("main", "wait")
  /\ UNCHANGED <<clock, ramFloor, floor, on, now, answer, faults>>

SyncEnds ==
  /\ at["main"] = "wait"
  /\ At("main", IF synced THEN "time" ELSE "idle")
  /\ UNCHANGED <<clock, ramFloor, floor, on, sntp, synced, now, answer, faults>>

TrustedNow ==
  /\ on /\ at["main"] = "idle"
  /\ ramFloor' = Higher(ramFloor, IF Valid(clock) THEN clock ELSE 0)
  /\ answer' = IF Valid(ramFloor') THEN ramFloor' ELSE 0
  /\ UNCHANGED <<clock, floor, on, sntp, synced, note, faults>>

\* enterDeepSleep() notes the time first; WiFi may be up until the device sleeps.
EnterSleep ==
  /\ on /\ at["main"] = "idle"
  /\ At("main", "time")
  /\ UNCHANGED <<clock, ramFloor, floor, on, sntp, synced, now, answer, faults>>

-----------------------------------------------------------------------------
(* Time, the time server and power *)

Tick ==
  /\ clock < MaxTime
  /\ clock' = clock + 1
  /\ UNCHANGED <<ramFloor, floor, on, sntp, synced, note, answer, faults>>

\* The network task sets the clock, forward or backward, and calls note().
TimeSynced(t) ==
  /\ on /\ sntp
  /\ at["lwip"] = "idle"
  /\ clock' = t
  /\ synced' = TRUE
  /\ At("lwip", "time")
  /\ UNCHANGED <<ramFloor, floor, on, sntp, now, answer, faults>>

\* Deep sleep keeps the clock, losing power does not; memory is lost in both.
Off(t) ==
  /\ on
  /\ t \in {clock, 0}
  /\ clock' = t
  /\ ramFloor' = 0
  /\ on' = FALSE
  /\ sntp' = FALSE /\ synced' = FALSE
  /\ at' = [k \in Tasks |-> "idle"] /\ now' = [k \in Tasks |-> 0]
  /\ answer' = 0
  /\ UNCHANGED <<floor, faults>>

Next ==
  \/ \E t \in Time : Boot(t)
  \/ \E k \in Tasks : Note(k)
  \/ StartSync \/ SyncNow \/ SyncEnds \/ TrustedNow \/ EnterSleep
  \/ Tick
  \/ \E t \in Time : TimeSynced(t) \/ Off(t)

Spec == Init /\ [][Next]_vars

-----------------------------------------------------------------------------
(* Properties *)

\* "the floor never lowers again" (TrustedTime.h): what one task has persisted is not
\* overwritten with less by the other, which compared earlier.
FloorNeverLowers == [][floor' >= floor]_vars

\* "trustedNow() never reports earlier" (TrustedTime.cpp): in one boot its answers
\* never go back, whatever the time server says and whichever task raises the floor.
NeverEarlier == [][on /\ on' => answer' >= answer]_vars

\* While flash works, the time trusted in this boot is never behind what is persisted:
\* whatever note() writes in either task, trustedNow() answers no less.
TrustCoversFloor == on /\ faults = 0 /\ Valid(floor) => floor <= ramFloor
=============================================================================
