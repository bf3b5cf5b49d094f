--------------------------- MODULE TrustedTimeProofs ---------------------------
(* Proofs about TrustedTime.  The persisted floor is not monotonic (its two  *)
(* writers do not exclude each other); what the device trusts while it is on *)
(* is, because every writer has raised the floor in memory before.           *)
EXTENDS TrustedTime, TLAPS

Constants ==
  /\ {MinValid, MaxTime, MaxFaults} \subseteq Nat
  /\ {MaxValid, MaxLead, MinAdvance} \subseteq Int

Steps == {"idle", "wait", "time", "raise", "compare", "write"}

Types ==
  /\ clock \in Nat /\ ramFloor \in Nat /\ floor \in Nat /\ answer \in Nat /\ faults \in Nat
  /\ at \in [Tasks -> Steps] /\ now \in [Tasks -> Nat]

\* What trustedNow() answered is still covered by the floor in memory.
Trusted == on => answer <= ramFloor /\ (answer = 0 \/ Valid(answer))

\* Between raiseFloor() and writeFloor() the floor in memory covers the local.
Raised == \A k \in Tasks :
  /\ at[k] # "idle" => on
  /\ at[k] \in {"compare", "write"} => now[k] <= ramFloor

Inv == Types /\ Trusted /\ Raised /\ TrustCoversFloor

-----------------------------------------------------------------------------
LEMMA InitInv == ASSUME Constants PROVE Init => Inv
BY DEF Constants, Init, Inv, Types, Trusted, Raised, TrustCoversFloor, Tasks, Steps, Time

LEMMA AdoptedNat ==
  ASSUME Constants, Types, NEW rtc \in Nat, NEW stored \in Nat
  PROVE  Adopted(rtc, stored) \in Nat
BY DEF Constants, Types, Adopted, Higher, Valid

LEMMA BootInv == ASSUME Constants, Inv, NEW rtc \in Time, Boot(rtc) PROVE Inv'
<1>1. rtc \in Nat
  BY DEF Constants, Time
<1>2. PICK lead \in BOOLEAN, wear \in BOOLEAN, restore \in BOOLEAN :
        LET taken    == Adopted(rtc, IF lead THEN floor ELSE 0)
            advanced == taken - (IF wear THEN floor ELSE 0) >= MinAdvance
            restored == restore /\ Valid(floor')
            time     == IF taken # 0 THEN taken ELSE clock
        IN /\ floor' \in (IF taken # 0 /\ advanced THEN {taken, floor} ELSE {floor})
           /\ IF lead /\ wear /\ restore /\ (taken # 0 /\ advanced => floor' = taken)
              THEN NoFault ELSE Fault
           /\ ramFloor' = IF restored THEN Higher(taken, floor') ELSE taken
           /\ clock' = IF restored THEN Higher(time, floor') ELSE time
  BY DEF Boot
<1> DEFINE taken == Adopted(rtc, IF lead THEN floor ELSE 0)
           restored == restore /\ Valid(floor')
           time == IF taken # 0 THEN taken ELSE clock
<1>3. taken \in Nat
  BY <1>1, AdoptedNat DEF Inv, Types
<1>4. /\ floor' \in {taken, floor}
      /\ (restore /\ NoFault) \/ Fault
      /\ ramFloor' = IF restored THEN Higher(taken, floor') ELSE taken
      /\ clock' = IF restored THEN Higher(time, floor') ELSE time
  BY <1>2
<1>5. /\ answer' = 0 /\ on' = TRUE /\ UNCHANGED <<at, now>> /\ ~on
  BY DEF Boot, note
<1> HIDE DEF taken
<1>6. Types'
  <2>1. floor' \in Nat /\ faults' \in Nat
    BY <1>3, <1>4 DEF Inv, Types, Fault, NoFault
  <2>2. ramFloor' \in Nat /\ clock' \in Nat
    BY <1>3, <1>4, <2>1 DEF Inv, Types, Higher
  <2> QED
    BY <1>5, <2>1, <2>2 DEF Inv, Types
<1>7. Trusted'
  BY <1>5, <1>6 DEF Trusted, Types
<1>8. Raised'
  BY <1>5 DEF Inv, Raised
<1>9. TrustCoversFloor'
  <2>1. faults' = 0 => restore
    BY <1>4 DEF Inv, Types, Fault
  <2> QED
    BY <1>3, <1>4, <1>6, <2>1 DEF Types, TrustCoversFloor, Higher
<1> QED
  BY <1>6, <1>7, <1>8, <1>9 DEF Inv

LEMMA NoteInv == ASSUME Constants, Inv, NEW k \in Tasks, Note(k) PROVE Inv'
<1> USE DEF Inv
<1>1. CASE ReadTime(k)
  BY <1>1 DEF ReadTime, At, Types, Trusted, Raised, TrustCoversFloor, Steps
<1>2. CASE RaiseFloor(k)
  <2>1. ramFloor' \in Nat /\ ramFloor' >= ramFloor /\ ramFloor' >= now[k]
    BY <1>2 DEF RaiseFloor, Types, Higher
  <2>2. Types'
    BY <1>2, <2>1 DEF RaiseFloor, At, Types, Steps
  <2>3. Trusted' /\ TrustCoversFloor'
    BY <1>2, <2>1, <2>2 DEF RaiseFloor, Trusted, TrustCoversFloor, Types, Constants, Valid
  <2>4. Raised'
    BY <1>2, <2>1, <2>2 DEF RaiseFloor, Raised, At, Types
  <2> QED
    BY <2>2, <2>3, <2>4
<1>3. CASE Compare(k)
  <2>1. PICK stored \in {floor, 0} :
          /\ IF stored = floor THEN NoFault ELSE Fault
          /\ At(k, IF now[k] - stored >= MinAdvance THEN "write" ELSE "idle")
    BY <1>3 DEF Compare
  <2>2. /\ at[k] = "compare" /\ (faults' = faults \/ faults' = faults + 1)
        /\ UNCHANGED <<clock, ramFloor, floor, on, sntp, synced, now, answer>>
    BY <1>3, <2>1 DEF Compare, NoFault, Fault
  <2>3. \E place \in {"write", "idle"} : at' = [at EXCEPT ![k] = place]
    BY <2>1 DEF At
  <2>4. Types'
    BY <2>2, <2>3 DEF Types, Steps
  <2>5. Trusted' /\ TrustCoversFloor'
    BY <2>2, <2>4 DEF Trusted, TrustCoversFloor, Types
  <2>6. Raised'
    BY <2>2, <2>3, <2>4 DEF Raised, Types
  <2> QED
    BY <2>4, <2>5, <2>6
<1>4. CASE WriteFloor(k)
  <2>1. /\ at[k] = "write" /\ at' = [at EXCEPT ![k] = "idle"]
        /\ UNCHANGED <<clock, ramFloor, on, sntp, synced, now, answer>>
        /\ (floor' = now[k] /\ faults' = faults) \/ (floor' = floor /\ faults' = faults + 1)
    BY <1>4 DEF WriteFloor, At, NoFault, Fault
  <2>2. Types'
    BY <2>1 DEF Types, Steps
  <2>3. Trusted' /\ Raised'
    BY <2>1 DEF Trusted, Raised, Types
  <2>4. TrustCoversFloor'
    BY <2>1, <2>2 DEF Raised, TrustCoversFloor, Types
  <2> QED
    BY <2>2, <2>3, <2>4
<1> QED
  BY <1>1, <1>2, <1>3, <1>4 DEF Note

LEMMA StepInv == ASSUME Constants, Inv, [Next]_vars PROVE Inv'
<1> USE DEF Inv
<1>1. ASSUME NEW t \in Time, Boot(t) PROVE Inv'
  BY <1>1, BootInv
<1>2. ASSUME NEW k \in Tasks, Note(k) PROVE Inv'
  BY <1>2, NoteInv
<1>3. CASE StartSync
  BY <1>3 DEF StartSync, note, Types, Trusted, Raised, TrustCoversFloor
<1>4. CASE SyncNow
  BY <1>4 DEF SyncNow, At, Types, Trusted, Raised, TrustCoversFloor, Steps
<1>5. CASE SyncEnds
  BY <1>5 DEF SyncEnds, At, Types, Trusted, Raised, TrustCoversFloor, Steps
<1>6. CASE TrustedNow
  <2>1. /\ ramFloor' \in Nat /\ ramFloor' >= ramFloor
        /\ answer' \in {ramFloor', 0}
    BY <1>6 DEF TrustedNow, Types, Higher
  <2>2. /\ answer' = 0 \/ (answer' = ramFloor' /\ Valid(answer'))
        /\ UNCHANGED <<clock, floor, on, sntp, synced, at, now, faults>>
    BY <1>6 DEF TrustedNow, note
  <2>3. Types'
    BY <2>1, <2>2 DEF Types
  <2>4. Trusted' /\ Raised' /\ TrustCoversFloor'
    BY <2>1, <2>2, <2>3 DEF Types, Trusted, Raised, TrustCoversFloor, Constants, Valid
  <2> QED
    BY <2>3, <2>4
<1>7. CASE EnterSleep
  BY <1>7 DEF EnterSleep, At, Types, Trusted, Raised, TrustCoversFloor, Steps
<1>8. CASE Tick
  BY <1>8 DEF Tick, note, Types, Trusted, Raised, TrustCoversFloor
<1>9. ASSUME NEW t \in Time, TimeSynced(t) PROVE Inv'
  <2>1. t \in Nat
    BY <1>9 DEF Constants, Time
  <2> QED
    BY <1>9, <2>1 DEF TimeSynced, At, Types, Trusted, Raised, TrustCoversFloor, Steps
<1>10. ASSUME NEW t \in Time, Off(t) PROVE Inv'
  BY <1>10 DEF Off, Types, Trusted, Raised, TrustCoversFloor, Steps, Constants, Time
<1>11. CASE UNCHANGED vars
  BY <1>11 DEF vars, note, Types, Trusted, Raised, TrustCoversFloor
<1> QED
  BY <1>1, <1>2, <1>3, <1>4, <1>5, <1>6, <1>7, <1>8, <1>9, <1>10, <1>11 DEF Next

LEMMA NoStepBack == ASSUME Constants, Inv, [Next]_vars PROVE on /\ on' => answer' >= answer
<1> SUFFICES ASSUME on, on' PROVE answer' >= answer
  OBVIOUS
<1> USE DEF Inv, Types
<1>1. CASE TrustedNow
  <2>1. /\ ramFloor' \in Nat /\ ramFloor' >= ramFloor
        /\ answer' = IF Valid(ramFloor') THEN ramFloor' ELSE 0
    BY <1>1 DEF TrustedNow, Higher
  <2> QED
    BY <2>1 DEF Trusted, Constants, Valid
<1>2. CASE \E t \in Time : Boot(t) \/ TimeSynced(t) \/ Off(t)
  BY <1>2 DEF Boot, TimeSynced, Off
<1>3. CASE \E k \in Tasks : Note(k)
  BY <1>3 DEF Note, ReadTime, RaiseFloor, Compare, WriteFloor
<1>4. CASE StartSync \/ SyncNow \/ SyncEnds \/ EnterSleep \/ Tick \/ UNCHANGED vars
  <2>1. answer' = answer
    BY <1>4 DEF StartSync, SyncNow, SyncEnds, EnterSleep, Tick, vars
  <2> QED
    BY <2>1
<1> QED
  BY <1>1, <1>2, <1>3, <1>4 DEF Next

-----------------------------------------------------------------------------
\* In one boot the answers of trustedNow() never go back, whatever the time server
\* says and however the two tasks interleave.
THEOREM TrustNeverEarlier == ASSUME Constants PROVE Spec => NeverEarlier
<1>1. Init => Inv
  BY InitInv
<1>2. Inv /\ [Next]_vars => Inv'
  BY StepInv
<1>3. Inv /\ [Next]_vars => [on /\ on' => answer' >= answer]_vars
  BY NoStepBack
<1> QED
  BY <1>1, <1>2, <1>3, PTL DEF Spec, NeverEarlier

\* While flash works, the floor in memory is never behind a valid persisted floor, so
\* what the race on the persisted floor loses shows only after a power-off.
THEOREM TrustCovers == ASSUME Constants PROVE Spec => []TrustCoversFloor
<1>1. Init => Inv
  BY InitInv
<1>2. Inv /\ [Next]_vars => Inv'
  BY StepInv
<1>3. Inv => TrustCoversFloor
  BY DEF Inv
<1> QED
  BY <1>1, <1>2, <1>3, PTL DEF Spec
=============================================================================
