------------------------- MODULE PluginOutboxProofs -------------------------
EXTENDS PluginOutbox, SequenceTheorems, TLAPS

Walk == {"line", "stalled"} \cup Swapping

Control ==
  /\ pc \in {"emit", "append", "torn"} => n \in Events
  /\ pc \in {"append", "torn"} \cup Walk => at \in Plugins
  /\ pc \in Walk => pos <= Len(outbox[at])
  /\ pc \in Swapping => pos < Len(outbox[at]) /\ budget > 0

Base == TypeOK /\ Control

-----------------------------------------------------------------------------
(* What the operations on an outbox return. *)

LEMMA AppendedBox ==
  ASSUME NEW box \in Seq(Line), NEW l \in Line
  PROVE  /\ Append(box, l) \in Seq(Line) /\ Len(Append(box, l)) = Len(box) + 1
         /\ \A i \in 1..Len(box) : Append(box, l)[i] = box[i]
         /\ Append(box, l)[Len(box) + 1] = l
BY AppendProperties

LEMMA GluedBox ==
  ASSUME NEW box \in Seq(Line), box # << >>, NEW o \in BOOLEAN
  PROVE  /\ Glued(box, o) \in Seq(Line) /\ Len(Glued(box, o)) = Len(box)
         /\ \A i \in 1..Len(box) : /\ Glued(box, o)[i].of = box[i].of
                                   /\ Glued(box, o)[i].e = box[i].e
                                   /\ Glued(box, o)[i].whole = box[i].whole
                                   /\ i < Len(box) => Glued(box, o)[i].open = box[i].open
         /\ Glued(box, o)[Len(box)].open = o
<1> DEFINE k == Len(box)
           l == [box[k] EXCEPT !.open = o]
<1>1. k \in 1..Len(box)
  BY EmptySeq
<1>2. box[k] \in Line
  BY <1>1, ElementOfSeq
<1>3. l \in Line /\ l.of = box[k].of /\ l.e = box[k].e /\ l.whole = box[k].whole /\ l.open = o
  BY <1>2 DEF Line
<1>4. Glued(box, o) = [box EXCEPT ![k] = l]
  BY DEF Glued
<1> HIDE DEF k, l
<1>5. /\ [box EXCEPT ![k] = l] \in Seq(Line) /\ Len([box EXCEPT ![k] = l]) = Len(box)
      /\ \A j \in 1..Len(box) : [box EXCEPT ![k] = l][j] = IF j = k THEN l ELSE box[j]
  BY <1>1, <1>3, ExceptSeq
<1>6. \A i \in 1..Len(box) : /\ Glued(box, o)[i].of = box[i].of
                             /\ Glued(box, o)[i].e = box[i].e
                             /\ Glued(box, o)[i].whole = box[i].whole
                             /\ i # k => Glued(box, o)[i].open = box[i].open
  <2> TAKE i \in 1..Len(box)
  <2>1. CASE i = k
    BY <2>1, <1>3, <1>4, <1>5
  <2>2. CASE i # k
    BY <2>2, <1>4, <1>5
  <2> QED
    BY <2>1, <2>2
<1>7. Glued(box, o)[k].open = o
  BY <1>1, <1>3, <1>4, <1>5 DEF k
<1>8. Glued(box, o) \in Seq(Line) /\ Len(Glued(box, o)) = Len(box)
  BY <1>4, <1>5
<1>9. \A i \in 1..Len(box) : i < Len(box) => i # k
  BY LenProperties DEF k
<1>10. Glued(box, o)[Len(box)].open = o
  BY <1>7 DEF k
<1> QED
  BY <1>6, <1>8, <1>9, <1>10

LEMMA CutBox ==
  ASSUME NEW box \in Seq(Line)
  PROVE  /\ CutBack(box) \in Seq(Line) /\ Len(CutBack(box)) <= Len(box)
         /\ \A i \in 1..Len(CutBack(box)) : CutBack(box)[i] = box[i]
         /\ CutBack(box) = box \/ (/\ box # << >> /\ box[Len(box)].of = n
                                   /\ Len(CutBack(box)) = Len(box) - 1)
<1>1. CASE box # << >> /\ Last(box).of = n
  <2>1. Len(box) \in Nat \ {0}
    BY <1>1, EmptySeq
  <2>2. Front(box) = SubSeq(box, 1, Len(box) - 1)
    BY DEF Front
  <2>3. /\ SubSeq(box, 1, Len(box) - 1) \in Seq(Line)
        /\ Len(SubSeq(box, 1, Len(box) - 1)) = Len(box) - 1
        /\ \A i \in 1..(Len(box) - 1) : SubSeq(box, 1, Len(box) - 1)[i] = box[i]
    <3>1. \A i \in 1..(Len(box) - 1) : box[i] \in Line
      BY <2>1, ElementOfSeq
    <3> DEFINE m == Len(box) - 1
    <3>2. m \in Nat /\ m \in Int /\ 1 \in Int
      BY <2>1
    <3> HIDE DEF m
    <3>3. /\ SubSeq(box, 1, m) \in Seq(Line)
          /\ Len(SubSeq(box, 1, m)) = IF 1 <= m THEN m - 1 + 1 ELSE 0
          /\ \A i \in 1..(m - 1 + 1) : SubSeq(box, 1, m)[i] = box[1 + i - 1]
      BY <3>1, <3>2, SubSeqProperties DEF m
    <3>4. Len(SubSeq(box, 1, m)) = m /\ \A i \in 1..m : SubSeq(box, 1, m)[i] = box[i]
      BY <3>2, <3>3
    <3> QED
      BY <3>3, <3>4 DEF m
  <2> QED
    BY <1>1, <2>1, <2>2, <2>3 DEF CutBack, Last
<1>2. CASE ~ (box # << >> /\ Last(box).of = n)
  BY <1>2, LenProperties DEF CutBack
<1> QED
  BY <1>1, <1>2

LEMMA RestOfBox ==
  ASSUME NEW box \in Seq(Line), NEW k \in Nat, k <= Len(box)
  PROVE  /\ SubSeq(box, k + 1, Len(box)) \in Seq(Line)
         /\ Len(SubSeq(box, k + 1, Len(box))) = Len(box) - k
         /\ \A i \in 1..(Len(box) - k) : SubSeq(box, k + 1, Len(box))[i] = box[k + i]
<1>1. Len(box) \in Nat
  BY LenProperties
<1>2. /\ SubSeq(box, k + 1, Len(box)) \in Seq(Line)
      /\ Len(SubSeq(box, k + 1, Len(box))) = IF k + 1 <= Len(box) THEN Len(box) - (k + 1) + 1 ELSE 0
      /\ \A i \in 1..(Len(box) - (k + 1) + 1) : SubSeq(box, k + 1, Len(box))[i] = box[(k + 1) + i - 1]
  <2>1. (k + 1)..Len(box) \subseteq 1..Len(box)
    BY <1>1
  <2> QED
    BY <1>1, <2>1, SubSeqProperties
<1> QED
  BY <1>1, <1>2

-----------------------------------------------------------------------------
(* Types and control. *)

LEMMA SubscriptionsType ==
  ASSUME NEW m \in [Plugins -> Manifests \cup {Unreadable}]
  PROVE  Subscriptions(m) \in [Plugins -> [mask : SUBSET Types, connect : SUBSET Types]]
<1>1. \A p \in Plugins : m[p] # Unreadable => /\ m[p].events \in SUBSET Types
                                              /\ m[p].connect \in SUBSET Types
  BY ConstantsType DEF ManifestType
<1> QED
  BY <1>1 DEF Subscriptions, Declares, NoSlot

LEMMA BaseInit == Init => Base
<1> SUFFICES ASSUME Init PROVE Base
  OBVIOUS
<1> USE ConstantsType DEF Init, Plugins, Swapping, Walk, Events
<1>1. outbox \in [Plugins -> Seq(Line)]
  BY EmptySeq
<1>2. table \in [Plugins -> [mask : SUBSET Types, connect : SUBSET Types]]
  BY SubscriptionsType
<1>5. FlagsOK
  BY DEF FlagsOK
<1>3. TypeOK
  BY <1>1, <1>2, <1>5 DEF TypeOK
<1>4. Control
  BY DEF Control
<1> QED
  BY <1>3, <1>4 DEF Base

LEMMA FlagsStep == TypeOK /\ [Next]_vars => FlagsOK'
<1> SUFFICES ASSUME TypeOK, [Next]_vars PROVE FlagsOK'
  OBVIOUS
<1> USE DEF card, swap, queues, walk, event, bounds, FlagsOK
<1>0. FlagsOK
  BY DEF TypeOK
<1>1. CASE \/ \E p \in Plugins : Edit(p)
           \/ \E t \in Types : Emit(t)
           \/ Refresh \/ EnterSleep \/ Emitting
  BY <1>0, <1>1 DEF Edit, Emit, Refresh, EnterSleep, Emitting, EmitSkips, EmitDropsOld, EmitAppends, EmitShort,
     Truncate, EmitReturns
<1>2. CASE Drain \/ BeforeSleep \/ Draining
  BY <1>0, <1>2 DEF Drain, BeforeSleep, Draining, DrainSkips, DrainClears, DrainLoads, LineDropped, LineDelivered,
     LineRefused, LineDone, Refused, Finish, DrainReturns
<1>3. CASE Downloading
  BY <1>0, <1>3 DEF Downloading, Fetch, FetchEnds, FetchRefused, SwapBegins, Park, Commit, Restore, Clean, LineDone,
     Refused, still
<1>4. CASE DeepSleep \/ PowerCut \/ Boot
  BY <1>0, <1>4 DEF DeepSleep, PowerCut, Boot, Off
<1>5. CASE UNCHANGED vars
  BY <1>0, <1>5 DEF vars
<1> QED
  BY <1>1, <1>2, <1>3, <1>4, <1>5 DEF Next

LEMMA BaseStep == Base /\ [Next]_vars => Base'
<1> SUFFICES ASSUME Base, [Next]_vars PROVE Base'
  OBVIOUS
<1> USE ConstantsType DEF Base, Plugins, Walk, Swapping, card, swap, queues, walk, event, bounds
<1>0. FlagsOK'
  BY FlagsStep
<1>1. ASSUME NEW p \in Plugins, Edit(p) PROVE Base'
  BY <1>0, <1>1 DEF Edit, TypeOK, Control
<1>2. ASSUME NEW t \in Types, Emit(t) PROVE Base'
  BY <1>0, <1>2 DEF Emit, Begin, TypeOK, Control, Events
<1>3. CASE Refresh
  BY <1>0, <1>3, SubscriptionsType DEF Refresh, TypeOK, Control
<1>4. CASE EnterSleep
  BY <1>0, <1>4 DEF EnterSleep, Begin, TypeOK, Control, Events
<1>5. CASE EmitSkips
  BY <1>0, <1>5 DEF EmitSkips, TypeOK, Control
<1>6. CASE EmitDropsOld
  <2>1. TypeOK'
    <3>1. << >> \in Seq(Line)
      BY EmptySeq
    <3>2. /\ outbox' = [outbox EXCEPT ![at] = << >>] \/ outbox' = outbox
          /\ owed' = [owed EXCEPT ![at] = {}] \/ owed' = owed
          /\ \/ unremoved' = [unremoved EXCEPT ![at] = 0]
             \/ unremoved' = [unremoved EXCEPT ![at] = unremoved[at] + 1]
      BY <1>6 DEF EmitDropsOld
    <3>3. outbox' \in [Plugins -> Seq(Line)]
      BY <3>1, <3>2 DEF TypeOK
    <3>4. owed' \in [Plugins -> SUBSET Events]
      BY <3>2 DEF TypeOK
    <3>5. unremoved' \in [Plugins -> Nat]
      BY <3>2 DEF TypeOK
    <3>6. UNCHANGED <<manifest, dest, bak, part, table, at, pos, budget, sleeping, n, name, mishaps, cuts, edits>>
          /\ pc' = "append"
      BY <1>6 DEF EmitDropsOld
    <3> QED
      BY <1>0, <3>3, <3>4, <3>5, <3>6 DEF TypeOK
  <2>2. Control'
    BY <1>6 DEF EmitDropsOld, Subscribed, Control
  <2> QED
    BY <2>1, <2>2
<1>7. CASE EmitAppends
  <2>1. outbox' \in [Plugins -> Seq(Line)]
    <3>1. outbox[at] \in Seq(Line) /\ at \in Plugins
      BY <1>7 DEF EmitAppends, OpenToAppend, Subscribed, TypeOK
    <3>2. [of |-> n, e |-> name, whole |-> TRUE, open |-> FALSE] \in Line
      BY <1>0, <1>7 DEF EmitAppends, OpenToAppend, TypeOK, Control, Line
    <3>3. Torn(outbox[at]) => Glued(outbox[at], FALSE) \in Seq(Line)
      BY <3>1, GluedBox DEF Torn
    <3>4. Append(outbox[at], [of |-> n, e |-> name, whole |-> TRUE, open |-> FALSE]) \in Seq(Line)
      BY <3>1, <3>2, AppendedBox
    <3> QED
      BY <1>7, <3>1, <3>3, <3>4 DEF EmitAppends, TypeOK
  <2> QED
    BY <1>0, <1>7, <2>1 DEF EmitAppends, OpenToAppend, Subscribed, TypeOK, Control
<1>8. CASE EmitShort
  <2>1. outbox' \in [Plugins -> Seq(Line)]
    <3>1. outbox[at] \in Seq(Line) /\ at \in Plugins
      BY <1>8 DEF EmitShort, OpenToAppend, Subscribed, TypeOK
    <3>2. \A w \in BOOLEAN : [of |-> n, e |-> name, whole |-> w, open |-> TRUE] \in Line
      BY <1>0, <1>8 DEF EmitShort, OpenToAppend, TypeOK, Control, Line
    <3>3. Torn(outbox[at]) => Glued(outbox[at], TRUE) \in Seq(Line)
      BY <3>1, GluedBox DEF Torn
    <3>4. \A w \in BOOLEAN :
            Append(outbox[at], [of |-> n, e |-> name, whole |-> w, open |-> TRUE]) \in Seq(Line)
      BY <3>1, <3>2, AppendedBox
    <3> QED
      BY <1>8, <3>1, <3>3, <3>4 DEF EmitShort, TypeOK
  <2> QED
    BY <1>0, <1>8, <2>1 DEF EmitShort, OpenToAppend, Subscribed, TypeOK, Control
<1>9. CASE Truncate
  <2>1. outbox' \in [Plugins -> Seq(Line)]
    <3>1. CutBack(outbox[at]) \in Seq(Line)
      BY <1>0, <1>9, CutBox DEF Truncate, TypeOK, Control
    <3> QED
      BY <1>0, <1>9, <3>1 DEF Truncate, TypeOK, Control
  <2> QED
    BY <1>0, <1>9, <2>1 DEF Truncate, TypeOK, Control
<1>10. CASE EmitReturns
  BY <1>0, <1>10 DEF EmitReturns, TypeOK, Control
<1>11. CASE Drain
  BY <1>0, <1>11 DEF Drain, StartDrain, TypeOK, Control
<1>12. CASE BeforeSleep
  BY <1>0, <1>12 DEF BeforeSleep, StartDrain, TypeOK, Control
<1>13. CASE DrainSkips
  BY <1>0, <1>13 DEF DrainSkips, NextSubscriber, TypeOK, Control
<1>14. CASE DrainReturns
  BY <1>0, <1>14 DEF DrainReturns, TypeOK, Control
<1>15. CASE DrainClears
  <2>1. TypeOK'
    <3>1. << >> \in Seq(Line)
      BY EmptySeq
    <3>2. /\ outbox' = [outbox EXCEPT ![at] = << >>] \/ outbox' = outbox
          /\ owed' = [owed EXCEPT ![at] = {}] \/ owed' = owed
          /\ unremoved' = [unremoved EXCEPT ![at] = 0]
      BY <1>15 DEF DrainClears, Reads, Removed
    <3>3. outbox' \in [Plugins -> Seq(Line)] /\ owed' \in [Plugins -> SUBSET Events]
          /\ unremoved' \in [Plugins -> Nat]
      BY <3>1, <3>2 DEF TypeOK
    <3>4. UNCHANGED <<manifest, dest, bak, part, table, pos, budget, sleeping, n, name, mishaps, cuts, edits>>
          /\ at \in Plugins /\ at' = at + 1 /\ pc' = "drain"
      BY <1>15 DEF DrainClears, Opens, NextSubscriber
    <3> QED
      BY <1>0, <3>3, <3>4 DEF TypeOK
  <2>2. Control'
    BY <1>15 DEF DrainClears, NextSubscriber, Control
  <2> QED
    BY <2>1, <2>2
<1>16. CASE DrainLoads
  <2>1. Len(outbox[at]) \in Nat
    BY <1>16, LenProperties DEF DrainLoads, Opens, TypeOK
  <2> QED
    BY <1>0, <1>16, <2>1 DEF DrainLoads, Opens, Reads, TypeOK, Control
<1>17. CASE LineDropped \/ LineDelivered
  <2>1. /\ Walking /\ LineDone /\ Settled
        /\ UNCHANGED <<manifest, outbox, unmended, unremoved, swap, table, at, sleeping, event, bounds>>
    BY <1>17 DEF LineDropped, LineDelivered
  <2>2. Len(outbox[at]) \in Nat
    BY <1>0, <2>1, LenProperties DEF Walking, TypeOK, Control
  <2> QED
    BY <1>0, <2>1, <2>2 DEF Walking, LineDone, Settled, TypeOK, Control
<1>18. CASE LineRefused
  BY <1>0, <1>18 DEF LineRefused, Walking, Refused, TypeOK, Control
<1>19. CASE Finish
  <2>1. outbox' \in [Plugins -> Seq(Line)]
    <3>1. outbox[at] \in Seq(Line) /\ at \in Plugins /\ pos \in Nat /\ pos <= Len(outbox[at])
      BY <1>0, <1>19 DEF Finish, WalkOver, TypeOK, Control
    <3>2. SubSeq(outbox[at], pos + 1, Len(outbox[at])) \in Seq(Line) /\ << >> \in Seq(Line)
      BY <3>1, RestOfBox, EmptySeq
    <3> QED
      BY <1>19, <3>1, <3>2 DEF Finish, Removed, Remainder, TypeOK
  <2> QED
    BY <1>0, <1>19, <2>1 DEF Finish, WalkOver, NextSubscriber, TypeOK, Control
<1>20. CASE Fetch
  <2>1. Len(outbox[at]) \in Nat
    BY <1>0, <1>20, LenProperties DEF Fetch, Walking, TypeOK, Control
  <2> QED
    BY <1>0, <1>20, <2>1 DEF Fetch, Walking, still, TypeOK, Control
<1>21. CASE FetchEnds
  BY <1>0, <1>21 DEF FetchEnds, still, TypeOK, Control
<1>22. CASE FetchRefused
  BY <1>0, <1>22 DEF FetchRefused, Refused, still, TypeOK, Control
<1>23. CASE SwapBegins
  BY <1>0, <1>23 DEF SwapBegins, still, TypeOK, Control
<1>24. CASE Park
  BY <1>0, <1>24 DEF Park, Mishap, still, TypeOK, Control
<1>25. CASE Commit
  BY <1>0, <1>25 DEF Commit, Mishap, still, TypeOK, Control
<1>26. CASE Restore
  BY <1>0, <1>26 DEF Restore, Mishap, still, TypeOK, Control
<1>27. CASE Clean
  <2>1. Len(outbox[at]) \in Nat
    BY <1>0, <1>27, LenProperties DEF Clean, TypeOK, Control
  <2> QED
    BY <1>0, <1>27, <2>1 DEF Clean, Settled, LineDone, still, TypeOK, Control
<1>28. CASE DeepSleep
  BY <1>0, <1>28 DEF DeepSleep, Off, TypeOK, Control
<1>29. CASE PowerCut
  BY <1>0, <1>29 DEF PowerCut, Off, Mishap, TypeOK, Control
<1>30. CASE Boot
  BY <1>0, <1>30, SubscriptionsType DEF Boot, TypeOK, Control
<1>31. CASE UNCHANGED vars
  BY <1>0, <1>31 DEF vars, TypeOK, Control
<1> QED
  BY <1>1, <1>2, <1>3, <1>4, <1>5, <1>6, <1>7, <1>8, <1>9, <1>10, <1>11, <1>13, <1>15, <1>16,
     <1>17, <1>18, <1>19, <1>20, <1>21, <1>23, <1>24, <1>25, <1>26, <1>27, <1>28, <1>30, <1>31,
     <1>12, <1>14, <1>22, <1>29
  DEF Next, Emitting, Draining, Downloading

-----------------------------------------------------------------------------
(* The queues. *)

Hung(box) == box # << >> /\ box[Len(box)].open = TRUE

\* Events in the order in which they were emitted; only a last line can be open.
Ordered(box, m) ==
  \A i \in 1..Len(box) : /\ box[i].of <= m
                         /\ i < Len(box) => box[i].open = FALSE
                         /\ \A j \in 1..i : box[j].of <= box[i].of

\* The events S are in the box, past its first k lines.
Holds(box, k, S) ==
  \A e \in S : \E i \in 1..Len(box) : i > k /\ box[i].of = e /\ box[i].whole = TRUE

Past(p) == IF p = at /\ pc \in Walk THEN pos ELSE 0

Lines == \A p \in Plugins : Ordered(outbox[p], n)

Tears == \A p \in Plugins : Hung(outbox[p]) =>
           unmended = TRUE \/ (pc = "torn" /\ p = at /\ outbox[p][Len(outbox[p])].of = n)

Ahead == \A p \in Plugins : Holds(outbox[p], Past(p), owed[p])

Fresh == \A p \in Plugins : \A e \in owed[p] :
           e <= n /\ (pc \in {"emit", "append", "torn"} /\ p >= at => e # n)

Queues == Lines /\ Tears /\ Fresh /\ Ahead

LEMMA BoxSteps ==
  ASSUME [Next]_vars
  PROVE  \/ EmitDropsOld \/ EmitAppends \/ EmitShort \/ Truncate \/ DrainClears \/ Finish
         \/ UNCHANGED outbox
<1> USE DEF card, queues, still
<1>1. CASE \/ \E p \in Plugins : Edit(p)
           \/ \E t \in Types : Emit(t)
           \/ Refresh \/ EnterSleep \/ Emitting \/ Drain \/ BeforeSleep
  BY <1>1 DEF Edit, Emit, Refresh, EnterSleep, Emitting, EmitSkips, EmitReturns, Drain, BeforeSleep
<1>2. CASE Draining \/ Downloading
  BY <1>2 DEF Draining, DrainSkips, DrainLoads, LineDropped, LineDelivered, LineRefused, DrainReturns,
     Downloading, Fetch, FetchEnds, FetchRefused, SwapBegins, Park, Commit, Restore, Clean
<1>3. CASE DeepSleep \/ PowerCut \/ Boot
  BY <1>3 DEF DeepSleep, PowerCut, Boot
<1>4. CASE UNCHANGED vars
  BY <1>4 DEF vars
<1> QED
  BY <1>1, <1>2, <1>3, <1>4 DEF Next

LEMMA CountSteps == Base /\ [Next]_vars => n' \in Int /\ n <= n'
<1> SUFFICES ASSUME Base, [Next]_vars PROVE n' \in Int /\ n <= n'
  OBVIOUS
<1> USE DEF event
<1>0. n \in Int
  BY ConstantsType DEF Base, TypeOK
<1>1. CASE \/ \E t \in Types : Emit(t)
           \/ EnterSleep
  BY <1>0, <1>1 DEF Emit, EnterSleep, Begin
<1>2. CASE \/ \E p \in Plugins : Edit(p)
           \/ Refresh \/ Drain \/ BeforeSleep
  BY <1>0, <1>2 DEF Edit, Refresh, Drain, BeforeSleep
<1>6. CASE Emitting
  <2>1. UNCHANGED event
    BY <1>6 DEF Emitting, EmitSkips, EmitDropsOld, EmitAppends, EmitShort, Truncate, EmitReturns
  <2> QED
    BY <1>0, <2>1
<1>3. CASE Draining \/ Downloading
  BY <1>0, <1>3 DEF Draining, DrainSkips, DrainClears, DrainLoads, LineDropped, LineDelivered, LineRefused, Finish,
     DrainReturns, Downloading, Fetch, FetchEnds, FetchRefused, SwapBegins, Park, Commit, Restore, Clean, still
<1>4. CASE DeepSleep \/ PowerCut \/ Boot
  BY <1>0, <1>4 DEF DeepSleep, PowerCut, Boot
<1>5. CASE UNCHANGED vars
  BY <1>0, <1>5 DEF vars
<1> QED
  BY <1>1, <1>2, <1>3, <1>4, <1>5, <1>6 DEF Next

LEMMA OneBoxReadable ==
  ASSUME OutboxReadable, outbox \in [Plugins -> Seq(Line)], at \in Plugins, UNCHANGED unremoved,
         NEW X, Len(X) <= Cap + 1 + unremoved[at], outbox' = [outbox EXCEPT ![at] = X]
  PROVE  OutboxReadable'
<1>1. ASSUME NEW p \in Plugins PROVE Len(outbox'[p]) <= Cap + 1 + unremoved'[p]
  <2>1. CASE p = at
    <3>1. outbox'[p] = X
      BY <2>1
    <3> QED
      BY <2>1, <3>1
  <2>2. CASE p # at
    <3>1. outbox'[p] = outbox[p]
      BY <2>2
    <3> QED
      BY <3>1 DEF OutboxReadable
  <2> QED
    BY <2>1, <2>2
<1> QED
  BY <1>1 DEF OutboxReadable

\* What leads to an append after a removal, and what counts the removals.
LEMMA AppendSteps ==
  ASSUME [Next]_vars
  PROVE  /\ EmitDropsOld \/ DrainClears \/ DrainLoads \/ UNCHANGED unremoved
         /\ EmitDropsOld \/ UNCHANGED vars \/ pc' # "append"
<1> USE DEF queues, still
<1>1. CASE \/ \E p \in Plugins : Edit(p)
           \/ \E t \in Types : Emit(t)
           \/ Refresh \/ EnterSleep \/ Drain \/ BeforeSleep
  BY <1>1 DEF Edit, Emit, Refresh, EnterSleep, Begin, Drain, BeforeSleep, StartDrain
<1>2. CASE Emitting
  BY <1>2 DEF Emitting, EmitSkips, EmitAppends, EmitShort, Truncate, EmitReturns
<1>3. CASE Draining
  BY <1>3 DEF Draining, DrainSkips, DrainClears, DrainLoads, NextSubscriber, LineDropped, LineDelivered, LineRefused,
     LineDone, Refused, Walking, Finish, DrainReturns
<1>4. CASE Downloading
  BY <1>4 DEF Downloading, Fetch, FetchEnds, FetchRefused, Refused, SwapBegins, Park, Commit, Restore, Clean, LineDone
<1>5. CASE DeepSleep \/ PowerCut \/ Boot
  BY <1>5 DEF DeepSleep, PowerCut, Boot, Off
<1>6. CASE UNCHANGED vars
  BY <1>6 DEF vars
<1> QED
  BY <1>1, <1>2, <1>3, <1>4, <1>5, <1>6 DEF Next

\* After a removal, done or failed, one more line fits.
Roomy == pc = "append" => Len(outbox[at]) <= Cap + unremoved[at]

Bounded == OutboxReadable /\ Roomy

LEMMA RoomyStep == Base /\ Bounded /\ [Next]_vars => Roomy'
<1> SUFFICES ASSUME Base, Bounded, [Next]_vars, pc' = "append" PROVE Len(outbox'[at']) <= Cap + unremoved'[at']
  BY DEF Roomy
<1>1. CASE EmitDropsOld
  <2>1. /\ outbox \in [Plugins -> Seq(Line)] /\ unremoved \in [Plugins -> Nat] /\ Cap \in Nat
        /\ at \in Plugins /\ at' = at
    BY <1>1, ConstantsType DEF Base, TypeOK, EmitDropsOld, Subscribed, walk
  <2>2. Len(outbox[at]) \in Nat /\ Len(outbox[at]) <= Cap + 1 + unremoved[at] /\ unremoved[at] \in Nat
    BY <2>1, LenProperties DEF Bounded, OutboxReadable
  <2>3. CASE outbox' = [outbox EXCEPT ![at] = << >>] /\ unremoved' = [unremoved EXCEPT ![at] = 0]
    <3>1. outbox'[at'] = << >> /\ unremoved'[at'] = 0
      BY <2>1, <2>3
    <3> QED
      BY <2>1, <3>1, EmptySeq
  <2>4. CASE unremoved' = [unremoved EXCEPT ![at] = @ + 1] /\ UNCHANGED outbox
    <3>1. outbox'[at'] = outbox[at] /\ unremoved'[at'] = unremoved[at] + 1
      BY <2>1, <2>4
    <3> QED
      BY <2>1, <2>2, <3>1
  <2> QED
    BY <1>1, <2>3, <2>4 DEF EmitDropsOld
<1>2. CASE UNCHANGED vars
  BY <1>2 DEF vars, card, walk, Bounded, Roomy
<1> QED
  BY <1>1, <1>2, AppendSteps

LEMMA ReadableStep == Base /\ Bounded /\ [Next]_vars => OutboxReadable'
<1> SUFFICES ASSUME Base, Bounded, [Next]_vars PROVE OutboxReadable'
  OBVIOUS
<1>a. /\ outbox \in [Plugins -> Seq(Line)] /\ at \in Int /\ pos \in Nat /\ name \in Types
      /\ Control /\ Cap \in Nat /\ unremoved \in [Plugins -> Nat] /\ OutboxReadable
  BY ConstantsType DEF Base, TypeOK, Plugins, Bounded
<1>b. \A p \in Plugins : /\ outbox[p] \in Seq(Line) /\ Len(outbox[p]) \in Nat /\ unremoved[p] \in Nat
                         /\ Len(outbox[p]) <= Cap + 1 + unremoved[p]
  BY <1>a, LenProperties DEF OutboxReadable
<1>c. \A p \in Plugins : Len(<< >>) <= Cap + 1 + unremoved[p]
  BY <1>a, EmptySeq
<1>1. CASE EmitDropsOld \/ DrainClears \/ DrainLoads
  <2>1. /\ at \in Plugins
        /\ outbox' = [outbox EXCEPT ![at] = << >>] \/ UNCHANGED outbox
        /\ \/ unremoved' = [unremoved EXCEPT ![at] = 0] /\ (outbox' = outbox => Len(outbox[at]) <= Cap + 1)
           \/ unremoved' = [unremoved EXCEPT ![at] = unremoved[at] + 1]
    <3>1. CASE EmitDropsOld
      BY <1>a, <3>1, EmptySeq DEF EmitDropsOld, Subscribed
    <3>2. CASE DrainClears \/ DrainLoads
      BY <1>a, <1>b, <3>2 DEF DrainClears, DrainLoads, Removed, Reads, Opens, Readable
    <3> QED
      BY <1>1, <3>1, <3>2
  <2>2. ASSUME NEW p \in Plugins PROVE Len(outbox'[p]) <= Cap + 1 + unremoved'[p]
    <3>1. CASE p # at
      <4>1. outbox'[p] = outbox[p] /\ unremoved'[p] = unremoved[p]
        BY <1>a, <2>1, <3>1
      <4> QED
        BY <1>b, <4>1
    <3>2. CASE p = at
      <4>1. CASE outbox' = [outbox EXCEPT ![at] = << >>]
        <5>1. outbox'[p] = << >> /\ unremoved'[p] \in Nat
          BY <1>a, <1>b, <2>1, <3>2, <4>1
        <5> QED
          BY <1>a, <5>1, EmptySeq
      <4>2. CASE UNCHANGED outbox
        <5>1. outbox'[p] = outbox[p]
          BY <4>2
        <5>2. \/ unremoved'[p] = 0 /\ Len(outbox[p]) <= Cap + 1
              \/ unremoved'[p] = unremoved[p] + 1
          BY <1>a, <2>1, <3>2, <4>2
        <5> QED
          BY <1>a, <1>b, <5>1, <5>2
      <4> QED
        BY <2>1, <4>1, <4>2
    <3> QED
      BY <3>1, <3>2
  <2> QED
    BY <2>2 DEF OutboxReadable
<1>2. CASE EmitAppends
  <2>0. UNCHANGED unremoved
    BY <1>2 DEF EmitAppends
  <2>1. at \in Plugins /\ Len(outbox[at]) <= Cap + unremoved[at] /\ outbox[at] \in Seq(Line)
    BY <1>a, <1>b, <1>2 DEF EmitAppends, OpenToAppend, Subscribed, OverCap, Bounded, Roomy
  <2>2. [of |-> n, e |-> name, whole |-> TRUE, open |-> FALSE] \in Line
    BY <1>a, <1>2 DEF EmitAppends, OpenToAppend, Control, Line
  <2>3. Len(Append(outbox[at], [of |-> n, e |-> name, whole |-> TRUE, open |-> FALSE])) = Len(outbox[at]) + 1
    BY <2>1, <2>2, AppendedBox
  <2>4. Torn(outbox[at]) => Len(Glued(outbox[at], FALSE)) = Len(outbox[at])
    BY <2>1, GluedBox DEF Torn
  <2>5. \/ Torn(outbox[at]) /\ outbox' = [outbox EXCEPT ![at] = Glued(outbox[at], FALSE)]
        \/ outbox' = [outbox EXCEPT ![at] = Append(outbox[at], [of |-> n, e |-> name, whole |-> TRUE, open |-> FALSE])]
    BY <1>2 DEF EmitAppends
  <2>6. CASE outbox' = [outbox EXCEPT ![at] = Glued(outbox[at], FALSE)] /\ Torn(outbox[at])
    <3>1. Len(Glued(outbox[at], FALSE)) <= Cap + 1 + unremoved[at]
      BY <1>b, <2>1, <2>4, <2>6
    <3> QED
      BY <1>a, <2>0, <2>1, <2>6, <3>1, OneBoxReadable
  <2>7. CASE outbox' = [outbox EXCEPT ![at] = Append(outbox[at], [of |-> n, e |-> name, whole |-> TRUE, open |-> FALSE])]
    <3>1. Len(Append(outbox[at], [of |-> n, e |-> name, whole |-> TRUE, open |-> FALSE])) <= Cap + 1 + unremoved[at]
      BY <1>a, <1>b, <2>1, <2>3
    <3> QED
      BY <1>a, <2>0, <2>1, <2>7, <3>1, OneBoxReadable
  <2> QED
    BY <2>5, <2>6, <2>7
<1>3. CASE EmitShort
  <2>0. UNCHANGED unremoved
    BY <1>3 DEF EmitShort
  <2>1. at \in Plugins /\ Len(outbox[at]) <= Cap + unremoved[at] /\ outbox[at] \in Seq(Line)
    BY <1>a, <1>b, <1>3 DEF EmitShort, OpenToAppend, Subscribed, OverCap, Bounded, Roomy
  <2>2. \A w \in BOOLEAN : [of |-> n, e |-> name, whole |-> w, open |-> TRUE] \in Line
    BY <1>a, <1>3 DEF EmitShort, OpenToAppend, Control, Line
  <2>3. \A w \in BOOLEAN :
          Len(Append(outbox[at], [of |-> n, e |-> name, whole |-> w, open |-> TRUE])) = Len(outbox[at]) + 1
    BY <2>1, <2>2, AppendedBox
  <2>4. Torn(outbox[at]) => Len(Glued(outbox[at], TRUE)) = Len(outbox[at])
    BY <2>1, GluedBox DEF Torn
  <2>5. \/ UNCHANGED outbox
        \/ Torn(outbox[at]) /\ outbox' = [outbox EXCEPT ![at] = Glued(outbox[at], TRUE)]
        \/ \E w \in BOOLEAN :
             outbox' = [outbox EXCEPT ![at] = Append(outbox[at], [of |-> n, e |-> name, whole |-> w, open |-> TRUE])]
    BY <1>3 DEF EmitShort
  <2>6. CASE outbox' = [outbox EXCEPT ![at] = Glued(outbox[at], TRUE)] /\ Torn(outbox[at])
    <3>1. Len(Glued(outbox[at], TRUE)) <= Cap + 1 + unremoved[at]
      BY <1>b, <2>1, <2>4, <2>6
    <3> QED
      BY <1>a, <2>0, <2>1, <2>6, <3>1, OneBoxReadable
  <2>7. ASSUME NEW w \in BOOLEAN,
               outbox' = [outbox EXCEPT ![at] = Append(outbox[at], [of |-> n, e |-> name, whole |-> w, open |-> TRUE])]
        PROVE  OutboxReadable'
    <3>1. Len(Append(outbox[at], [of |-> n, e |-> name, whole |-> w, open |-> TRUE])) <= Cap + 1 + unremoved[at]
      BY <1>a, <1>b, <2>1, <2>3
    <3> QED
      BY <1>a, <2>0, <2>1, <2>7, <3>1, OneBoxReadable
  <2>8. CASE UNCHANGED outbox
    BY <1>a, <2>0, <2>8 DEF OutboxReadable
  <2> QED
    BY <2>5, <2>6, <2>7, <2>8
<1>4. CASE Truncate
  <2>0. UNCHANGED unremoved
    BY <1>4 DEF Truncate
  <2>1. at \in Plugins /\ CutBack(outbox[at]) \in Seq(Line) /\ Len(CutBack(outbox[at])) <= Len(outbox[at])
    BY <1>a, <1>b, <1>4, CutBox DEF Truncate, Control
  <2>2. Len(CutBack(outbox[at])) \in Nat
    BY <2>1, LenProperties
  <2>3. outbox' = [outbox EXCEPT ![at] = CutBack(outbox[at])] \/ UNCHANGED outbox
    BY <1>4 DEF Truncate
  <2>4. CASE outbox' = [outbox EXCEPT ![at] = CutBack(outbox[at])]
    <3>1. Len(CutBack(outbox[at])) <= Cap + 1 + unremoved[at]
      BY <1>a, <1>b, <2>1, <2>2
    <3> QED
      BY <1>a, <2>0, <2>1, <2>4, <3>1, OneBoxReadable
  <2>5. CASE UNCHANGED outbox
    BY <1>a, <2>0, <2>5 DEF OutboxReadable
  <2> QED
    BY <2>3, <2>4, <2>5
<1>5. CASE Finish
  <2>0. UNCHANGED unremoved
    BY <1>5 DEF Finish
  <2>1. at \in Plugins /\ pos \in Nat /\ pos <= Len(outbox[at])
    BY <1>a, <1>5 DEF Finish, WalkOver, Control, Walk
  <2>2. Len(SubSeq(outbox[at], pos + 1, Len(outbox[at]))) = Len(outbox[at]) - pos
    BY <1>a, <1>b, <2>1, RestOfBox
  <2>3. \/ UNCHANGED outbox
        \/ outbox' = [outbox EXCEPT ![at] = << >>]
        \/ outbox' = [outbox EXCEPT ![at] = SubSeq(outbox[at], pos + 1, Len(outbox[at]))]
    BY <1>5 DEF Finish, Removed, Remainder
  <2>4. CASE outbox' = [outbox EXCEPT ![at] = << >>]
    BY <1>a, <2>0, <1>c, <2>1, <2>4, OneBoxReadable
  <2>5. CASE outbox' = [outbox EXCEPT ![at] = SubSeq(outbox[at], pos + 1, Len(outbox[at]))]
    <3>1. Len(SubSeq(outbox[at], pos + 1, Len(outbox[at]))) <= Cap + 1 + unremoved[at]
      BY <1>a, <1>b, <2>1, <2>2
    <3> QED
      BY <1>a, <2>0, <2>1, <2>5, <3>1, OneBoxReadable
  <2>6. CASE UNCHANGED outbox
    BY <1>a, <2>0, <2>6 DEF OutboxReadable
  <2> QED
    BY <2>3, <2>4, <2>5, <2>6
<1>6. CASE UNCHANGED <<outbox, unremoved>>
  BY <1>a, <1>6 DEF OutboxReadable
<1> QED
  BY <1>1, <1>2, <1>3, <1>4, <1>5, <1>6, AppendSteps, BoxSteps

-----------------------------------------------------------------------------
(* The order of the lines. *)

LEMMA LineTypes ==
  /\ \A l \in Line : l.of \in Int /\ l.whole \in BOOLEAN /\ l.open \in BOOLEAN
  /\ \A box \in Seq(Line) : \A i \in 1..Len(box) : box[i] \in Line /\ box[i].of \in Int
<1>1. \A l \in Line : l.of \in Int /\ l.whole \in BOOLEAN /\ l.open \in BOOLEAN
  BY ConstantsType DEF Line, Events
<1>2. \A box \in Seq(Line) : \A i \in 1..Len(box) : box[i] \in Line
  BY ElementOfSeq
<1> QED
  BY <1>1, <1>2

LEMMA OrderedGrows ==
  ASSUME NEW box \in Seq(Line), NEW m \in Int, NEW k \in Int, m <= k, Ordered(box, m)
  PROVE  Ordered(box, k)
<1>1. \A i \in 1..Len(box) : box[i].of \in Int
  BY LineTypes
<1> QED
  BY <1>1 DEF Ordered

LEMMA OrderedAppend ==
  ASSUME NEW box \in Seq(Line), NEW l \in Line, Ordered(box, l.of), ~ Hung(box)
  PROVE  Ordered(Append(box, l), l.of)
<1> DEFINE b == Append(box, l)
<1>1. /\ Len(box) \in Nat /\ Len(b) = Len(box) + 1 /\ b[Len(box) + 1] = l
      /\ \A i \in 1..Len(box) : b[i] = box[i]
  BY AppendedBox, LenProperties
<1>2. box # << >> => box[Len(box)].open = FALSE
  <2>1. box # << >> => box[Len(box)] \in Line
    BY ElementOfSeq, EmptySeq, <1>1
  <2> QED
    BY <2>1 DEF Hung, Line
<1>3. \A i \in 1..Len(box) : box[i].open = FALSE
  BY <1>1, <1>2, EmptySeq DEF Ordered
<1>4. l.of \in Int /\ \A i \in 1..Len(box) : box[i].of \in Int
  BY LineTypes
<1> HIDE DEF b
<1>5. ASSUME NEW i \in 1..Len(b)
      PROVE  /\ b[i].of <= l.of
             /\ i < Len(b) => b[i].open = FALSE
             /\ \A j \in 1..i : b[j].of <= b[i].of
  <2>1. CASE i = Len(box) + 1
    BY <1>1, <1>4, <2>1 DEF Ordered
  <2>2. CASE i \in 1..Len(box)
    BY <1>1, <1>3, <2>2 DEF Ordered
  <2>3. i = Len(box) + 1 \/ i \in 1..Len(box)
    BY <1>1
  <2> QED
    BY <2>1, <2>2, <2>3
<1> QED
  BY <1>5 DEF Ordered, b

LEMMA OrderedGlued ==
  ASSUME NEW box \in Seq(Line), NEW m, Ordered(box, m), box # << >>, NEW o \in BOOLEAN
  PROVE  Ordered(Glued(box, o), m)
<1> DEFINE b == Glued(box, o)
<1>1. /\ Len(b) = Len(box)
      /\ \A i \in 1..Len(box) : b[i].of = box[i].of /\ (i < Len(box) => b[i].open = box[i].open)
  BY GluedBox
<1> HIDE DEF b
<1>2. Ordered(b, m)
  BY <1>1, LenProperties DEF Ordered
<1> QED
  BY <1>2 DEF b

LEMMA OrderedCut ==
  ASSUME NEW box \in Seq(Line), NEW m, Ordered(box, m)
  PROVE  Ordered(CutBack(box), m)
<1> DEFINE b == CutBack(box)
<1>1. /\ b \in Seq(Line) /\ Len(b) <= Len(box)
      /\ \A i \in 1..Len(b) : b[i] = box[i]
  BY CutBox
<1>2. Len(b) \in Nat /\ Len(box) \in Nat
  BY <1>1, LenProperties
<1> HIDE DEF b
<1>3. Ordered(b, m)
  BY <1>1, <1>2 DEF Ordered
<1> QED
  BY <1>3 DEF b

LEMMA OrderedRest ==
  ASSUME NEW box \in Seq(Line), NEW m, Ordered(box, m), NEW k \in Nat, k <= Len(box)
  PROVE  Ordered(SubSeq(box, k + 1, Len(box)), m)
<1> DEFINE b == SubSeq(box, k + 1, Len(box))
<1>1. /\ Len(box) \in Nat /\ Len(b) = Len(box) - k
      /\ \A i \in 1..(Len(box) - k) : b[i] = box[k + i]
  BY RestOfBox, LenProperties
<1> HIDE DEF b
<1>2. ASSUME NEW i \in 1..Len(b)
      PROVE  /\ b[i].of <= m
             /\ i < Len(b) => b[i].open = FALSE
             /\ \A j \in 1..i : b[j].of <= b[i].of
  <2>1. k + i \in 1..Len(box) /\ b[i] = box[k + i] /\ (i < Len(b) => k + i < Len(box))
    BY <1>1
  <2>2. ASSUME NEW j \in 1..i PROVE k + j \in 1..(k + i) /\ b[j] = box[k + j]
    BY <1>1
  <2>3. /\ box[k + i].of <= m
        /\ k + i < Len(box) => box[k + i].open = FALSE
        /\ \A j \in 1..(k + i) : box[j].of <= box[k + i].of
    BY <2>1 DEF Ordered
  <2>4. ASSUME NEW j \in 1..i PROVE b[j].of <= b[i].of
    BY <2>1, <2>2, <2>3
  <2> QED
    BY <2>1, <2>3, <2>4
<1> QED
  BY <1>2 DEF Ordered, b

LEMMA HungIsTorn ==
  ASSUME NEW box \in Seq(Line)
  PROVE  Torn(box) <=> Hung(box)
<1>1. box # << >> => box[Len(box)] \in Line
  BY ElementOfSeq, EmptySeq, LenProperties
<1> QED
  BY <1>1 DEF Torn, Hung, Line, Last

LEMMA BoxChange ==
  ASSUME Base, [Next]_vars, NEW p \in Plugins
  PROVE  \/ outbox'[p] = outbox[p] \/ outbox'[p] = << >>
         \/ /\ pc \in {"emit", "append"} /\ p = at /\ Hung(outbox[p])
            /\ \E o \in BOOLEAN : outbox'[p] = Glued(outbox[p], o)
         \/ /\ pc \in {"emit", "append"} /\ p = at /\ ~ Hung(outbox[p])
            /\ \E l \in Line : /\ l.of = n /\ l.e = name /\ outbox'[p] = Append(outbox[p], l)
                               /\ l.open = TRUE => pc' = "torn" /\ at' = at /\ n' = n
         \/ pc = "torn" /\ p = at /\ outbox'[p] = CutBack(outbox[p])
         \/ pc \in Walk /\ p = at /\ outbox'[p] = SubSeq(outbox[p], pos + 1, Len(outbox[p]))
<1>a. outbox \in [Plugins -> Seq(Line)] /\ name \in Types /\ Control
  BY DEF Base, TypeOK
<1>b. \A o : Torn(outbox[p]) /\ p = at => Torn(outbox[at])
  OBVIOUS
<1>c. pc \in {"emit", "append", "torn"} => \A w, o \in BOOLEAN : [of |-> n, e |-> name, whole |-> w, open |-> o] \in Line
  BY <1>a DEF Control, Line
<1>d. Torn(outbox[p]) <=> Hung(outbox[p])
  BY <1>a, HungIsTorn
<1>1. CASE EmitDropsOld \/ DrainClears
  BY <1>a, <1>1 DEF EmitDropsOld, DrainClears, Removed
<1>2. CASE EmitAppends
  <2>1. CASE p = at /\ Torn(outbox[p])
    BY <1>a, <1>d, <1>2, <2>1 DEF EmitAppends, OpenToAppend
  <2>2. CASE p = at /\ ~ Torn(outbox[p])
    BY <1>a, <1>c, <1>d, <1>2, <2>2 DEF EmitAppends, OpenToAppend
  <2>3. CASE p # at
    BY <1>a, <1>2, <2>3 DEF EmitAppends, OpenToAppend
  <2> QED
    BY <2>1, <2>2, <2>3
<1>3. CASE EmitShort
  <2>1. CASE p = at /\ Torn(outbox[p])
    BY <1>a, <1>d, <1>3, <2>1 DEF EmitShort, OpenToAppend
  <2>2. CASE p = at /\ ~ Torn(outbox[p])
    BY <1>a, <1>c, <1>d, <1>3, <2>2 DEF EmitShort, OpenToAppend, walk, event
  <2>3. CASE p # at
    BY <1>a, <1>3, <2>3 DEF EmitShort, OpenToAppend
  <2> QED
    BY <2>1, <2>2, <2>3
<1>4. CASE Truncate
  BY <1>a, <1>4 DEF Truncate
<1>5. CASE Finish
  BY <1>a, <1>5 DEF Finish, WalkOver, Removed, Remainder, Walk
<1>6. CASE UNCHANGED outbox
  BY <1>6
<1> QED
  BY <1>1, <1>2, <1>3, <1>4, <1>5, <1>6, BoxSteps

LEMMA LinesStep == Base /\ Lines /\ [Next]_vars => Lines'
<1> SUFFICES ASSUME Base, Lines, [Next]_vars, NEW p \in Plugins PROVE Ordered(outbox'[p], n')
  BY DEF Lines
<1>1. /\ outbox[p] \in Seq(Line) /\ Len(outbox[p]) \in Nat /\ outbox'[p] \in Seq(Line)
      /\ n \in Int /\ n' \in Int /\ n <= n'
      /\ pos \in Nat /\ (pc \in Walk => pos <= Len(outbox[at]))
  <2>1. outbox'[p] \in Seq(Line)
    BY BaseStep DEF Base, TypeOK
  <2>2. outbox[p] \in Seq(Line) /\ n \in Int /\ pos \in Nat /\ Control
    BY ConstantsType DEF Base, TypeOK
  <2> QED
    BY <2>1, <2>2, CountSteps, LenProperties DEF Control
<1>2. Ordered(outbox[p], n)
  BY DEF Lines
<1>3. Ordered(outbox'[p], n)
  <2>1. CASE outbox'[p] = outbox[p]
    BY <1>2, <2>1
  <2>2. CASE outbox'[p] = << >>
    BY <2>2, EmptySeq DEF Ordered
  <2>3. CASE Hung(outbox[p]) /\ \E o \in BOOLEAN : outbox'[p] = Glued(outbox[p], o)
    BY <1>1, <1>2, <2>3, OrderedGlued DEF Hung
  <2>4. CASE outbox'[p] = CutBack(outbox[p])
    BY <1>1, <1>2, <2>4, OrderedCut
  <2>5. CASE pc \in Walk /\ p = at /\ outbox'[p] = SubSeq(outbox[p], pos + 1, Len(outbox[p]))
    BY <1>1, <1>2, <2>5, OrderedRest
  <2>6. CASE ~ Hung(outbox[p]) /\ \E l \in Line : l.of = n /\ outbox'[p] = Append(outbox[p], l)
    BY <1>1, <1>2, <2>6, OrderedAppend
  <2>7. \/ outbox'[p] = outbox[p] \/ outbox'[p] = << >>
        \/ Hung(outbox[p]) /\ \E o \in BOOLEAN : outbox'[p] = Glued(outbox[p], o)
        \/ ~ Hung(outbox[p]) /\ \E l \in Line : l.of = n /\ outbox'[p] = Append(outbox[p], l)
        \/ outbox'[p] = CutBack(outbox[p])
        \/ pc \in Walk /\ p = at /\ outbox'[p] = SubSeq(outbox[p], pos + 1, Len(outbox[p]))
    BY BoxChange
  <2> QED
    BY <2>1, <2>2, <2>3, <2>4, <2>5, <2>6, <2>7
<1> QED
  BY <1>1, <1>3, OrderedGrows

-----------------------------------------------------------------------------
(* Torn lines. *)

LEMMA CutShortens ==
  ASSUME NEW box \in Seq(Line), box # << >>, box[Len(box)].of = n
  PROVE  CutBack(box) # box
<1>1. Len(box) \in Nat \ {0}
  BY EmptySeq, LenProperties
<1>2. CutBack(box) = SubSeq(box, 1, Len(box) - 1)
  BY DEF CutBack, Last, Front
<1> DEFINE m == Len(box) - 1
<1>3. m \in Nat /\ m \in Int /\ 1 \in Int /\ \A i \in 1..m : box[i] \in Line
  BY <1>1, ElementOfSeq
<1> HIDE DEF m
<1>4. Len(SubSeq(box, 1, m)) = IF 1 <= m THEN m - 1 + 1 ELSE 0
  BY <1>3, SubSeqProperties
<1>5. Len(SubSeq(box, 1, m)) = m
  BY <1>3, <1>4
<1> QED
  BY <1>1, <1>2, <1>5 DEF m

LEMMA HungCut ==
  ASSUME NEW box \in Seq(Line), NEW m, Ordered(box, m), Hung(CutBack(box))
  PROVE  Hung(box) /\ box[Len(box)].of # n
<1> DEFINE b == CutBack(box)
<1>1. /\ b \in Seq(Line) /\ Len(b) <= Len(box) /\ Len(b) \in Nat /\ Len(box) \in Nat
      /\ \A i \in 1..Len(b) : b[i] = box[i]
      /\ b = box \/ (box # << >> /\ box[Len(box)].of = n /\ Len(b) = Len(box) - 1)
  BY CutBox, LenProperties
<1>2. Len(b) \in 1..Len(box) /\ b[Len(b)].open = TRUE /\ b[Len(b)] = box[Len(b)]
  BY <1>1, EmptySeq DEF Hung
<1>3. ~ Len(b) < Len(box)
  BY <1>1, <1>2 DEF Ordered
<1>4. b = box /\ box # << >>
  BY <1>1, <1>3, EmptySeq DEF Hung
<1>5. Len(box) \in 1..Len(box) /\ box[Len(box)].open = TRUE
  BY <1>2, <1>4
<1>6. box[Len(box)].of # n
  BY <1>1, <1>4, CutShortens
<1> QED
  BY <1>4, <1>5, <1>6 DEF Hung

LEMMA HungRest ==
  ASSUME NEW box \in Seq(Line), NEW k \in Nat, k <= Len(box), Hung(SubSeq(box, k + 1, Len(box)))
  PROVE  Hung(box) /\ SubSeq(box, k + 1, Len(box))[Len(SubSeq(box, k + 1, Len(box)))] = box[Len(box)]
<1> DEFINE b == SubSeq(box, k + 1, Len(box))
<1>1. /\ Len(box) \in Nat /\ Len(b) = Len(box) - k /\ b \in Seq(Line)
      /\ \A i \in 1..(Len(box) - k) : b[i] = box[k + i]
  BY RestOfBox, LenProperties
<1>2. Len(b) # 0 /\ b[Len(b)].open = TRUE
  BY <1>1, EmptySeq DEF Hung
<1> HIDE DEF b
<1>3. b[Len(b)] = box[k + (Len(box) - k)] /\ k + (Len(box) - k) = Len(box) /\ Len(box) # 0
  BY <1>1, <1>2
<1> QED
  BY <1>2, <1>3, EmptySeq DEF Hung, b

LEMMA TornSteps ==
  ASSUME [Next]_vars
  PROVE  /\ unmended = TRUE => unmended' = TRUE
         /\ pc = "torn" => Truncate \/ (PowerCut /\ unmended' = TRUE) \/ UNCHANGED vars
<1> USE DEF card, queues, still
<1>1. CASE \/ \E p \in Plugins : Edit(p)
           \/ \E t \in Types : Emit(t)
           \/ Refresh \/ EnterSleep \/ Emitting
  BY <1>1 DEF Edit, Emit, Refresh, EnterSleep, Emitting, EmitSkips, EmitDropsOld, EmitAppends, OpenToAppend,
     EmitShort, Truncate, EmitReturns
<1>2. CASE Drain \/ BeforeSleep \/ Draining
  BY <1>2 DEF Drain, BeforeSleep, Draining, DrainSkips, DrainClears, DrainLoads, Opens, LineDropped, LineDelivered,
     LineRefused, Walking, WalkOver, Finish, DrainReturns
<1>3. CASE Downloading
  BY <1>3 DEF Downloading, Fetch, Walking, FetchEnds, FetchRefused, SwapBegins, Park, Commit, Restore, Clean
<1>4. CASE DeepSleep \/ PowerCut \/ Boot
  BY <1>4 DEF DeepSleep, PowerCut, Boot
<1>5. CASE UNCHANGED vars
  BY <1>5 DEF vars
<1> QED
  BY <1>1, <1>2, <1>3, <1>4, <1>5 DEF Next

LEMMA TearsStep == Base /\ Lines /\ Tears /\ [Next]_vars => Tears'
<1> SUFFICES ASSUME Base, Lines, Tears, [Next]_vars, NEW p \in Plugins, Hung(outbox'[p])
             PROVE  \/ unmended' = TRUE
                    \/ pc' = "torn" /\ p = at' /\ outbox'[p][Len(outbox'[p])].of = n'
  BY DEF Tears
<1>1. /\ outbox[p] \in Seq(Line) /\ Len(outbox[p]) \in Nat /\ pos \in Nat
      /\ pc \in Walk => pos <= Len(outbox[at])
  BY LenProperties DEF Base, TypeOK, Control
<1>2. Ordered(outbox[p], n)
  BY DEF Lines
<1>3. Hung(outbox[p]) => unmended = TRUE \/ (pc = "torn" /\ p = at /\ outbox[p][Len(outbox[p])].of = n)
  BY DEF Tears
<1>4. CASE pc = "torn"
  <2>1. CASE Truncate /\ unmended' # TRUE
    <3>1. outbox'[p] = (IF p = at THEN CutBack(outbox[p]) ELSE outbox[p])
      BY <2>1 DEF Truncate, Base, TypeOK
    <3> QED
      BY <1>1, <1>2, <1>3, <3>1, <2>1, HungCut, TornSteps
  <2>2. CASE UNCHANGED vars
    BY <1>3, <2>2 DEF vars, card, walk, event, Tears
  <2> QED
    BY <1>4, <2>1, <2>2, TornSteps
<1>5. CASE pc # "torn"
  <2>1. Hung(outbox[p]) => unmended' = TRUE
    BY <1>3, <1>5, TornSteps
  <2>2. CASE outbox'[p] = outbox[p]
    BY <2>1, <2>2
  <2>3. CASE outbox'[p] = << >>
    BY <2>3 DEF Hung
  <2>4. CASE /\ p = at /\ ~ Hung(outbox[p])
             /\ \E l \in Line : /\ l.of = n /\ outbox'[p] = Append(outbox[p], l)
                                /\ l.open = TRUE => pc' = "torn" /\ at' = at /\ n' = n
    <3>1. PICK l \in Line : /\ l.of = n /\ outbox'[p] = Append(outbox[p], l)
                            /\ l.open = TRUE => pc' = "torn" /\ at' = at /\ n' = n
      BY <2>4
    <3>2. outbox'[p][Len(outbox'[p])] = l
      BY <1>1, <3>1, AppendedBox
    <3> QED
      BY <2>4, <3>1, <3>2 DEF Hung
  <2>5. CASE pc \in Walk /\ p = at /\ outbox'[p] = SubSeq(outbox[p], pos + 1, Len(outbox[p]))
    BY <1>1, <2>1, <2>5, HungRest
  <2>6. CASE Hung(outbox[p])
    BY <2>1, <2>6
  <2>7. \/ outbox'[p] = outbox[p] \/ outbox'[p] = << >> \/ Hung(outbox[p])
        \/ /\ p = at /\ ~ Hung(outbox[p])
           /\ \E l \in Line : /\ l.of = n /\ outbox'[p] = Append(outbox[p], l)
                              /\ l.open = TRUE => pc' = "torn" /\ at' = at /\ n' = n
        \/ pc \in Walk /\ p = at /\ outbox'[p] = SubSeq(outbox[p], pos + 1, Len(outbox[p]))
    BY <1>5, BoxChange
  <2> QED
    BY <2>2, <2>3, <2>4, <2>5, <2>6, <2>7
<1> QED
  BY <1>4, <1>5

-----------------------------------------------------------------------------
(* The events that are owed. *)

\* How each step but the ones on an outbox, or past a line, moves the walk.
LEMMA WalkSteps ==
  ASSUME [Next]_vars
  PROVE  \/ EmitDropsOld \/ EmitAppends \/ EmitShort \/ Truncate \/ DrainClears \/ Finish
         \/ Settled /\ LineDone /\ pc \in Walk /\ UNCHANGED <<outbox, at, event>>
         \/ /\ UNCHANGED <<outbox, owed>>
            /\ pc' \notin Walk \/ pos' = 0 \/ (pc \in Walk /\ UNCHANGED <<at, pos>>)
<1> USE DEF card, queues, event, walk, still, Walk, Swapping
<1>1. CASE \/ \E p \in Plugins : Edit(p)
           \/ \E t \in Types : Emit(t)
           \/ Refresh \/ EnterSleep
  BY <1>1 DEF Edit, Emit, Refresh, EnterSleep, Begin
<1>2. CASE Emitting \/ Drain \/ BeforeSleep
  BY <1>2 DEF Emitting, EmitSkips, EmitReturns, Drain, BeforeSleep, StartDrain
<1>3. CASE Draining
  BY <1>3 DEF Draining, DrainSkips, DrainLoads, NextSubscriber, LineDropped, LineDelivered, LineRefused, Refused,
     Walking, DrainReturns
<1>4. CASE Downloading
  BY <1>4 DEF Downloading, Fetch, Walking, FetchEnds, FetchRefused, Refused, SwapBegins, Park, Commit, Restore, Clean
<1>5. CASE DeepSleep \/ PowerCut \/ Boot
  BY <1>5 DEF DeepSleep, PowerCut, Boot, Off
<1>6. CASE UNCHANGED vars
  BY <1>6 DEF vars
<1> QED
  BY <1>1, <1>2, <1>3, <1>4, <1>5, <1>6 DEF Next

LEMMA EmitSteps ==
  ASSUME Base, [Next]_vars, pc' \in {"emit", "append", "torn"}
  PROVE  n' = n + 1 \/ (pc \in {"emit", "append", "torn"} /\ n' = n /\ at <= at')
<1> USE DEF event, walk, still
<1>0. at \in Int
  BY ConstantsType DEF Base, TypeOK
<1>1. CASE \/ \E p \in Plugins : Edit(p)
           \/ \E t \in Types : Emit(t)
           \/ Refresh \/ EnterSleep \/ Drain \/ BeforeSleep
  BY <1>0, <1>1 DEF Edit, Emit, Refresh, EnterSleep, Begin, Drain, BeforeSleep, StartDrain
<1>2. CASE Emitting
  <2>1. CASE EmitSkips \/ EmitAppends \/ Truncate
    <3>1. at' = at + 1 /\ UNCHANGED event /\ pc \in {"emit", "append", "torn"}
      BY <2>1 DEF EmitSkips, EmitAppends, OpenToAppend, Truncate
    <3> QED
      BY <1>0, <3>1
  <2>2. CASE EmitDropsOld \/ EmitShort
    <3>1. UNCHANGED walk /\ UNCHANGED event /\ pc \in {"emit", "append"}
      BY <2>2 DEF EmitDropsOld, EmitShort, OpenToAppend
    <3> QED
      BY <1>0, <3>1
  <2>3. CASE EmitReturns
    BY <2>3 DEF EmitReturns
  <2> QED
    BY <1>2, <2>1, <2>2, <2>3 DEF Emitting
<1>3. CASE Draining
  BY <1>3 DEF Draining, DrainSkips, DrainLoads, DrainClears, NextSubscriber, LineDropped, LineDelivered, LineRefused,
     LineDone, Refused, Finish, Walking, DrainReturns
<1>4. CASE Downloading
  BY <1>4 DEF Downloading, Fetch, FetchEnds, FetchRefused, Refused, SwapBegins, Park, Commit, Restore, Clean, LineDone
<1>5. CASE DeepSleep \/ PowerCut \/ Boot
  BY <1>5 DEF DeepSleep, PowerCut, Boot, Off
<1>6. CASE UNCHANGED vars
  BY <1>0, <1>6 DEF vars
<1> QED
  BY <1>1, <1>2, <1>3, <1>4, <1>5, <1>6 DEF Next

LEMMA OwedGrows ==
  ASSUME Base, [Next]_vars, NEW p \in Plugins
  PROVE  \/ owed'[p] \subseteq owed[p]
         \/ /\ pc \in {"emit", "append"} /\ pc' = "emit" /\ p = at /\ at' = at + 1 /\ n' = n
            /\ owed'[p] = owed[p] \cup {n}
<1>0. owed \in [Plugins -> SUBSET Events]
  BY DEF Base, TypeOK
<1> USE DEF queues, event, still
<1>1. CASE EmitAppends
  BY <1>0, <1>1 DEF EmitAppends, OpenToAppend
<1>2. CASE EmitDropsOld \/ DrainClears
  BY <1>0, <1>2 DEF EmitDropsOld, DrainClears
<1>3. CASE EmitShort \/ Truncate \/ Finish
  BY <1>3 DEF EmitShort, Truncate, Finish
<1>4. CASE Settled
  BY <1>0, <1>4 DEF Settled
<1>5. CASE UNCHANGED owed
  BY <1>5
<1> QED
  BY <1>1, <1>2, <1>3, <1>4, <1>5, WalkSteps

LEMMA FreshStep == Base /\ Fresh /\ [Next]_vars => Fresh'
<1> SUFFICES ASSUME Base, Fresh, [Next]_vars, NEW p \in Plugins, NEW e \in owed'[p]
             PROVE  e <= n' /\ (pc' \in {"emit", "append", "torn"} /\ p >= at' => e # n')
  BY DEF Fresh
<1>1. n \in Int /\ n' \in Int /\ n <= n' /\ at \in Int /\ at' \in Int /\ p \in Int
  <2>1. at \in Int /\ p \in Int
    BY ConstantsType DEF Base, TypeOK, Plugins
  <2>2. at' \in Int
    BY BaseStep, ConstantsType DEF Base, TypeOK
  <2>3. n \in Int
    BY ConstantsType DEF Base, TypeOK
  <2> QED
    BY <2>1, <2>2, <2>3, CountSteps
<1>2. e \in Int
  <2>1. Base'
    BY BaseStep
  <2> QED
    BY <2>1, ConstantsType DEF Base, TypeOK, Events
<1>3. CASE e \in owed[p]
  <2>1. e <= n /\ (pc \in {"emit", "append", "torn"} /\ p >= at => e # n)
    BY <1>3 DEF Fresh
  <2>2. CASE pc' \in {"emit", "append", "torn"} /\ p >= at'
    BY <1>1, <1>2, <2>1, <2>2, EmitSteps
  <2>3. CASE ~ (pc' \in {"emit", "append", "torn"} /\ p >= at')
    BY <1>1, <1>2, <2>1, <2>3
  <2> QED
    BY <2>2, <2>3
<1>4. CASE e \notin owed[p]
  <2>1. e = n /\ n' = n /\ p = at /\ at' = at + 1
    BY <1>4, OwedGrows
  <2> QED
    BY <1>1, <2>1
<1> QED
  BY <1>3, <1>4

LEMMA HoldsLess ==
  ASSUME NEW box \in Seq(Line), NEW k \in Int, NEW j \in Int, j <= k, NEW S, NEW T \in SUBSET S, Holds(box, k, S)
  PROVE  Holds(box, j, T)
BY LenProperties DEF Holds

LEMMA HoldsAppend ==
  ASSUME NEW box \in Seq(Line), NEW S, NEW l \in Line, Holds(box, 0, S)
  PROVE  /\ Holds(Append(box, l), 0, S)
         /\ l.whole = TRUE => Holds(Append(box, l), 0, S \cup {l.of})
<1> DEFINE b == Append(box, l)
<1>1. /\ Len(box) \in Nat /\ Len(b) = Len(box) + 1 /\ b[Len(box) + 1] = l
      /\ \A i \in 1..Len(box) : b[i] = box[i]
  BY AppendedBox, LenProperties
<1> HIDE DEF b
<1>2. Holds(b, 0, S)
  BY <1>1 DEF Holds
<1>3. l.whole = TRUE => Len(box) + 1 > 0 /\ b[Len(box) + 1].of = l.of /\ b[Len(box) + 1].whole = TRUE
  BY <1>1
<1>4. l.whole = TRUE => Holds(b, 0, S \cup {l.of})
  BY <1>1, <1>2, <1>3 DEF Holds
<1> QED
  BY <1>2, <1>4 DEF b

LEMMA HoldsGlued ==
  ASSUME NEW box \in Seq(Line), box # << >>, NEW o \in BOOLEAN, NEW S, Holds(box, 0, S)
  PROVE  Holds(Glued(box, o), 0, S)
<1> DEFINE b == Glued(box, o)
<1>1. Len(b) = Len(box) /\ \A i \in 1..Len(box) : b[i].of = box[i].of /\ b[i].whole = box[i].whole
  BY GluedBox
<1> HIDE DEF b
<1>2. Holds(b, 0, S)
  BY <1>1 DEF Holds
<1> QED
  BY <1>2 DEF b

LEMMA HoldsCut ==
  ASSUME NEW box \in Seq(Line), NEW S, n \notin S, Holds(box, 0, S)
  PROVE  Holds(CutBack(box), 0, S)
<1> DEFINE b == CutBack(box)
<1>1. /\ Len(b) \in Nat /\ Len(box) \in Nat /\ \A i \in 1..Len(b) : b[i] = box[i]
      /\ b = box \/ (box[Len(box)].of = n /\ Len(b) = Len(box) - 1)
  BY CutBox, LenProperties
<1> HIDE DEF b
<1>2. ASSUME NEW e \in S PROVE \E i \in 1..Len(b) : i > 0 /\ b[i].of = e /\ b[i].whole = TRUE
  <2>1. PICK i \in 1..Len(box) : i > 0 /\ box[i].of = e /\ box[i].whole = TRUE
    BY DEF Holds
  <2>2. i \in 1..Len(b)
    BY <1>1, <2>1
  <2> QED
    BY <1>1, <2>1, <2>2
<1> QED
  BY <1>2 DEF Holds, b

LEMMA HoldsRest ==
  ASSUME NEW box \in Seq(Line), NEW k \in Nat, k <= Len(box), NEW S, Holds(box, k, S)
  PROVE  Holds(SubSeq(box, k + 1, Len(box)), 0, S)
<1> DEFINE b == SubSeq(box, k + 1, Len(box))
<1>1. /\ Len(box) \in Nat /\ Len(b) = Len(box) - k
      /\ \A i \in 1..(Len(box) - k) : b[i] = box[k + i]
  BY RestOfBox, LenProperties
<1> HIDE DEF b
<1>2. ASSUME NEW e \in S PROVE \E i \in 1..Len(b) : i > 0 /\ b[i].of = e /\ b[i].whole = TRUE
  <2>1. PICK i \in 1..Len(box) : i > k /\ box[i].of = e /\ box[i].whole = TRUE
    BY DEF Holds
  <2>2. i - k \in 1..Len(b) /\ i - k > 0 /\ k + (i - k) = i /\ i - k \in 1..(Len(box) - k)
    BY <1>1, <2>1
  <2>3. b[i - k] = box[i]
    BY <1>1, <2>2
  <2> QED
    BY <2>1, <2>2, <2>3
<1> QED
  BY <1>2 DEF Holds, b

LEMMA HoldsNext ==
  ASSUME NEW box \in Seq(Line), NEW k \in Nat, NEW S, Holds(box, k, S)
  PROVE  Holds(box, k + 1, S \ {box[k + 1].of})
<1>1. Len(box) \in Nat
  BY LenProperties
<1>2. ASSUME NEW e \in S, e # box[k + 1].of
      PROVE  \E i \in 1..Len(box) : i > k + 1 /\ box[i].of = e /\ box[i].whole = TRUE
  <2>1. PICK i \in 1..Len(box) : i > k /\ box[i].of = e /\ box[i].whole = TRUE
    BY DEF Holds
  <2>2. i # k + 1
    BY <1>2, <2>1
  <2> QED
    BY <1>1, <2>1, <2>2
<1> QED
  BY <1>2 DEF Holds

LEMMA AheadStep == Base /\ Tears /\ Fresh /\ Ahead /\ [Next]_vars => Ahead'
<1> SUFFICES ASSUME Base, Tears, Fresh, Ahead, [Next]_vars, NEW p \in Plugins
             PROVE  Holds(outbox'[p], Past(p)', owed'[p])
  BY DEF Ahead
<1>1. /\ outbox \in [Plugins -> Seq(Line)] /\ owed \in [Plugins -> SUBSET Events]
      /\ outbox[p] \in Seq(Line) /\ owed[p] \in SUBSET Events /\ Len(outbox[p]) \in Nat
      /\ pos \in Nat /\ Past(p) \in Nat /\ name \in Types
      /\ pc \in {"emit", "append", "torn"} => n \in Events
      /\ pc \in Walk => at \in Plugins /\ pos <= Len(outbox[at])
  <2>1. Control /\ outbox \in [Plugins -> Seq(Line)] /\ owed \in [Plugins -> SUBSET Events] /\ pos \in Nat /\ name \in Types
    BY DEF Base, TypeOK
  <2> QED
    BY <2>1, LenProperties DEF Control, Past
<1>2. Holds(outbox[p], Past(p), owed[p])
  BY DEF Ahead
<1>3. Holds(outbox[p], 0, owed[p])
  BY <1>1, <1>2, HoldsLess
<1>4. \A S : Holds(outbox[p], 0, S) => \A T \in SUBSET S : Holds(outbox[p], 0, T)
  BY <1>1, HoldsLess
<1>5. CASE EmitDropsOld \/ DrainClears
  <2>1. Past(p)' = 0
    BY <1>5 DEF EmitDropsOld, DrainClears, NextSubscriber, Past, Walk, Swapping
  <2>2. p = at => owed'[p] = {} \/ UNCHANGED <<outbox, owed>>
    BY <1>1, <1>5 DEF EmitDropsOld, DrainClears
  <2>3. p # at => outbox'[p] = outbox[p] /\ owed'[p] = owed[p]
    BY <1>1, <1>5 DEF EmitDropsOld, DrainClears, Removed
  <2>4. CASE p = at /\ owed'[p] = {}
    BY <2>4 DEF Holds
  <2>6. CASE UNCHANGED <<outbox, owed>>
    BY <1>3, <2>1, <2>6
  <2>5. CASE p # at
    BY <1>3, <2>1, <2>3, <2>5
  <2> QED
    BY <2>2, <2>4, <2>5, <2>6
<1>6. CASE EmitAppends
  <2>1. Past(p)' = 0
    BY <1>6 DEF EmitAppends, Past, Walk, Swapping
  <2>2. CASE p # at
    <3>1. outbox'[p] = outbox[p] /\ owed'[p] = owed[p]
      BY <1>1, <1>6, <2>2 DEF EmitAppends
    <3> QED
      BY <1>3, <2>1, <3>1
  <2>3. CASE p = at /\ Torn(outbox[at])
    <3>1. Hung(outbox[p])
      BY <1>1, <2>3, HungIsTorn
    <3>2. unmended = TRUE
      BY <1>6, <3>1 DEF Tears, EmitAppends, OpenToAppend
    <3>3. outbox'[p] = Glued(outbox[p], FALSE) /\ owed'[p] = owed[p] /\ outbox[p] # << >>
      BY <1>1, <1>6, <2>3, <3>2 DEF EmitAppends, Torn
    <3> QED
      BY <1>1, <1>3, <2>1, <3>3, HoldsGlued
  <2>4. CASE p = at /\ ~ Torn(outbox[at])
    <3> DEFINE l == [of |-> n, e |-> name, whole |-> TRUE, open |-> FALSE]
    <3>1. outbox'[p] = Append(outbox[p], l) /\ owed'[p] = owed[p] \cup {n}
      BY <1>1, <1>6, <2>4 DEF EmitAppends
    <3>2. l \in Line /\ l.of = n /\ l.whole = TRUE
      BY <1>1, <1>6 DEF Line, EmitAppends, OpenToAppend
    <3> HIDE DEF l
    <3>3. Holds(Append(outbox[p], l), 0, owed[p] \cup {l.of})
      BY <1>1, <1>3, <3>2, HoldsAppend
    <3> QED
      BY <2>1, <3>1, <3>2, <3>3
  <2> QED
    BY <2>2, <2>3, <2>4
<1>7. CASE EmitShort
  <2>1. Past(p)' = 0 /\ owed'[p] = owed[p]
    BY <1>7 DEF EmitShort, Past, Walk, Swapping
  <2>2. CASE outbox'[p] = outbox[p]
    BY <1>3, <2>1, <2>2
  <2>3. CASE p = at /\ Torn(outbox[at]) /\ outbox' = [outbox EXCEPT ![at] = Glued(@, TRUE)]
    <3>1. outbox'[p] = Glued(outbox[p], TRUE) /\ outbox[p] # << >>
      BY <1>1, <2>3 DEF Torn
    <3> QED
      BY <1>1, <1>3, <2>1, <3>1, HoldsGlued
  <2>4. CASE p = at /\ \E whole \in BOOLEAN :
               outbox' = [outbox EXCEPT ![at] = Append(@, [of |-> n, e |-> name, whole |-> whole, open |-> TRUE])]
    <3>1. PICK w \in BOOLEAN :
            outbox' = [outbox EXCEPT ![at] = Append(@, [of |-> n, e |-> name, whole |-> w, open |-> TRUE])]
      BY <2>4
    <3>2. [of |-> n, e |-> name, whole |-> w, open |-> TRUE] \in Line
      BY <1>1, <1>7 DEF Line, EmitShort, OpenToAppend
    <3>3. outbox'[p] = Append(outbox[p], [of |-> n, e |-> name, whole |-> w, open |-> TRUE])
      BY <1>1, <2>4, <3>1
    <3> QED
      BY <1>1, <1>3, <2>1, <3>2, <3>3, HoldsAppend
  <2> QED
    BY <1>1, <1>7, <2>2, <2>3, <2>4 DEF EmitShort
<1>8. CASE Truncate
  <2>1. Past(p)' = 0 /\ owed'[p] = owed[p]
    BY <1>8 DEF Truncate, Past, Walk, Swapping
  <2>2. CASE outbox'[p] = outbox[p]
    BY <1>3, <2>1, <2>2
  <2>3. CASE p = at /\ outbox'[p] = CutBack(outbox[p])
    <3>1. n \notin owed[p]
      <4>1. p >= at
        BY <2>3 DEF Plugins
      <4> QED
        BY <1>8, <4>1 DEF Fresh, Truncate
    <3> QED
      BY <1>1, <1>3, <2>1, <2>3, <3>1, HoldsCut
  <2> QED
    BY <1>1, <1>8, <2>2, <2>3 DEF Truncate
<1>9. CASE Finish
  <2>1. Past(p)' = 0 /\ owed'[p] = owed[p] /\ pc \in Walk
    BY <1>9 DEF Finish, WalkOver, NextSubscriber, Past, Walk, Swapping
  <2>2. CASE outbox'[p] = outbox[p]
    BY <1>3, <2>1, <2>2
  <2>3. CASE p = at
    <3>1. Past(p) = pos /\ pos <= Len(outbox[p])
      BY <1>1, <2>1, <2>3 DEF Past
    <3>2. CASE outbox'[p] = SubSeq(outbox[p], pos + 1, Len(outbox[p]))
      BY <1>1, <1>2, <2>1, <3>1, <3>2, HoldsRest
    <3>3. CASE pos >= Len(outbox[p])
      <4>1. owed[p] = {}
        BY <1>1, <1>2, <3>1, <3>3 DEF Holds
      <4> QED
        BY <2>1, <4>1 DEF Holds
    <3> QED
      BY <1>1, <1>9, <2>2, <2>3, <3>2, <3>3 DEF Finish, Remainder
  <2> QED
    BY <1>1, <1>9, <2>2, <2>3 DEF Finish, Removed, Remainder
<1>10. CASE Settled /\ LineDone /\ pc \in Walk /\ UNCHANGED <<outbox, at, event>>
  <2>1. CASE p = at
    <3>1. Past(p) = pos /\ Past(p)' = pos + 1 /\ owed'[p] = owed[p] \ {outbox[p][pos + 1].of}
      BY <1>1, <1>10, <2>1 DEF Past, Walk, Settled, LineDone, Current
    <3> QED
      BY <1>1, <1>2, <1>10, <3>1, HoldsNext
  <2>2. CASE p # at
    <3>1. Past(p)' = 0 /\ owed'[p] = owed[p]
      BY <1>1, <1>10, <2>2 DEF Past, Settled
    <3> QED
      BY <1>3, <1>10, <3>1
  <2> QED
    BY <2>1, <2>2
<1>11. CASE /\ UNCHANGED <<outbox, owed>>
            /\ pc' \notin Walk \/ pos' = 0 \/ (pc \in Walk /\ UNCHANGED <<at, pos>>)
  <2>1. Past(p)' = 0 \/ Past(p)' = Past(p)
    BY <1>11 DEF Past
  <2> QED
    BY <1>2, <1>3, <1>11, <2>1
<1> QED
  BY <1>5, <1>6, <1>7, <1>8, <1>9, <1>10, <1>11, WalkSteps

\* How a step can take an event off the list.
LEMMA OwedShrinks ==
  ASSUME Base, [Next]_vars, NEW p \in Plugins
  PROVE  \/ owed[p] \subseteq owed'[p] \/ owed'[p] = {}
         \/ pc \in Walk /\ p = at /\ owed'[p] = owed[p] \ {outbox[p][pos + 1].of}
<1>0. owed \in [Plugins -> SUBSET Events]
  BY DEF Base, TypeOK
<1> USE DEF queues, still
<1>1. CASE EmitAppends
  BY <1>0, <1>1 DEF EmitAppends
<1>2. CASE EmitDropsOld \/ DrainClears
  BY <1>0, <1>2 DEF EmitDropsOld, DrainClears
<1>3. CASE EmitShort \/ Truncate \/ Finish
  BY <1>3 DEF EmitShort, Truncate, Finish
<1>4. CASE Settled /\ pc \in Walk
  BY <1>0, <1>4 DEF Settled, Current
<1>5. CASE UNCHANGED owed
  BY <1>5
<1> QED
  BY <1>1, <1>2, <1>3, <1>4, <1>5, WalkSteps

LEMMA OrderStep ==
  ASSUME Base, Lines, Ahead, [Next]_vars
  PROVE  \A p \in Plugins : \A e \in owed[p] \ owed'[p] : \A f \in owed[p] : f < e => f \notin owed'[p]
<1> SUFFICES ASSUME NEW p \in Plugins, NEW e \in owed[p], e \notin owed'[p], NEW f \in owed[p], f < e,
                    f \in owed'[p]
             PROVE  FALSE
  OBVIOUS
<1>1. pc \in Walk /\ p = at /\ owed'[p] = owed[p] \ {outbox[p][pos + 1].of}
  BY OwedShrinks
<1>2. outbox[p] \in Seq(Line) /\ pos \in Nat /\ Len(outbox[p]) \in Nat
  BY LenProperties DEF Base, TypeOK
<1>3. e = outbox[p][pos + 1].of
  BY <1>1
<1>4. PICK i \in 1..Len(outbox[p]) : i > pos /\ outbox[p][i].of = f
  BY <1>1 DEF Ahead, Holds, Past
<1>5. pos + 1 \in 1..i /\ pos + 1 \in 1..Len(outbox[p])
  BY <1>2, <1>4
<1>6. outbox[p][pos + 1].of <= outbox[p][i].of
  BY <1>5, <1>4 DEF Lines, Ordered
<1>7. e \in Int /\ f \in Int
  BY <1>2, <1>3, <1>4, <1>5, LineTypes
<1> QED
  BY <1>3, <1>4, <1>6, <1>7

-----------------------------------------------------------------------------
(* The event of deep sleep. *)

\* The lines of the last event carry its name.
Named == \A p \in Plugins : \A i \in 1..Len(outbox[p]) : outbox[p][i].of = n => outbox[p][i].e = name

\* Who is owed the event that is being emitted subscribes to it.
OwedSubscribe == \A p \in Plugins : n \in owed[p] => name \in table[p].mask

\* From the decision to sleep to that about the network the event is sleep.enter,
\* and the subscribers are those it was queued for.
Asleep ==
  /\ \A p \in Plugins : SleepEnter \in table[p].mask => SleepEnter \in table[p].connect
  /\ sleeping = "entering" => pc \notin {"idle", "off"}
  /\ pc \in {"emit", "append", "torn"} => OwedSubscribe
  /\ pc \in {"emit", "append", "torn"} /\ sleeping = "entering" => name = SleepEnter
  /\ pc = "decide" /\ anySubscriber(SleepEnter) => name = SleepEnter /\ OwedSubscribe

\* The number and the name of the event change together, when the outboxes do not.
LEMMA EventSteps ==
  ASSUME Base, [Next]_vars
  PROVE  UNCHANGED event \/ (n' = n + 1 /\ UNCHANGED outbox)
<1> USE DEF card, event, queues, still
<1>1. CASE \/ \E p \in Plugins : Edit(p)
           \/ \E t \in Types : Emit(t)
           \/ Refresh \/ EnterSleep
  BY <1>1 DEF Edit, Emit, Refresh, EnterSleep, Begin
<1>2. CASE Emitting
  BY <1>2 DEF Emitting, EmitSkips, EmitDropsOld, EmitAppends, EmitShort, Truncate, EmitReturns
<1>3. CASE Drain \/ BeforeSleep \/ Draining
  BY <1>3 DEF Drain, BeforeSleep, Draining, DrainSkips, DrainClears, DrainLoads, LineDropped, LineDelivered,
     LineRefused, Finish, DrainReturns
<1>4. CASE Downloading
  BY <1>4 DEF Downloading, Fetch, FetchEnds, FetchRefused, SwapBegins, Park, Commit, Restore, Clean
<1>5. CASE DeepSleep \/ PowerCut \/ Boot
  BY <1>5 DEF DeepSleep, PowerCut, Boot
<1>6. CASE UNCHANGED vars
  BY <1>6 DEF vars
<1> QED
  BY <1>1, <1>2, <1>3, <1>4, <1>5, <1>6 DEF Next

LEMMA NamedStep == Base /\ Lines /\ Named /\ [Next]_vars => Named'
<1> SUFFICES ASSUME Base, Lines, Named, [Next]_vars, NEW p \in Plugins,
                    NEW i \in 1..Len(outbox'[p]), outbox'[p][i].of = n'
             PROVE  outbox'[p][i].e = name'
  BY DEF Named
<1>1. /\ outbox[p] \in Seq(Line) /\ Len(outbox[p]) \in Nat /\ n \in Int
      /\ pos \in Nat /\ (pc \in Walk => pos <= Len(outbox[at]))
      /\ \A j \in 1..Len(outbox[p]) : outbox[p][j].of \in Int /\ outbox[p][j].of <= n
  BY ConstantsType, LenProperties, LineTypes DEF Base, TypeOK, Control, Lines, Ordered
<1>2. CASE n' = n + 1 /\ UNCHANGED outbox
  BY <1>1, <1>2
<1>3. CASE UNCHANGED event
  <2>1. n' = n /\ name' = name
    BY <1>3 DEF event
  <2>2. CASE outbox'[p] = outbox[p]
    BY <2>1, <2>2 DEF Named
  <2>3. CASE outbox'[p] = << >>
    BY <2>3, EmptySeq
  <2>4. CASE Hung(outbox[p]) /\ \E o \in BOOLEAN : outbox'[p] = Glued(outbox[p], o)
    BY <1>1, <2>1, <2>4, GluedBox DEF Hung, Named
  <2>5. CASE \E l \in Line : l.e = name /\ outbox'[p] = Append(outbox[p], l)
    <3>1. PICK l \in Line : l.e = name /\ outbox'[p] = Append(outbox[p], l)
      BY <2>5
    <3>2. i \in 1..Len(outbox[p]) \/ i = Len(outbox[p]) + 1
      BY <1>1, <3>1, AppendedBox
    <3> QED
      BY <1>1, <2>1, <3>1, <3>2, AppendedBox DEF Named
  <2>6. CASE outbox'[p] = CutBack(outbox[p])
    <3>1. i \in 1..Len(outbox[p]) /\ outbox'[p][i] = outbox[p][i]
      BY <1>1, <2>6, CutBox, LenProperties
    <3> QED
      BY <2>1, <3>1 DEF Named
  <2>7. CASE pc \in Walk /\ p = at /\ outbox'[p] = SubSeq(outbox[p], pos + 1, Len(outbox[p]))
    <3>1. pos + i \in 1..Len(outbox[p]) /\ outbox'[p][i] = outbox[p][pos + i]
      BY <1>1, <2>7, RestOfBox
    <3> QED
      BY <2>1, <3>1 DEF Named
  <2>8. \/ outbox'[p] = outbox[p] \/ outbox'[p] = << >>
        \/ Hung(outbox[p]) /\ \E o \in BOOLEAN : outbox'[p] = Glued(outbox[p], o)
        \/ \E l \in Line : l.e = name /\ outbox'[p] = Append(outbox[p], l)
        \/ outbox'[p] = CutBack(outbox[p])
        \/ pc \in Walk /\ p = at /\ outbox'[p] = SubSeq(outbox[p], pos + 1, Len(outbox[p]))
    BY BoxChange
  <2> QED
    BY <2>2, <2>3, <2>4, <2>5, <2>6, <2>7, <2>8
<1> QED
  BY <1>2, <1>3, EventSteps

\* sleep.enter implies "connect".
LEMMA SleepConnects ==
  ASSUME NEW m
  PROVE  \A p \in Plugins : SleepEnter \in Subscriptions(m)[p].mask => SleepEnter \in Subscriptions(m)[p].connect
BY DEF Subscriptions, NoSlot

LEMMA AsleepStep == Base /\ Fresh /\ Asleep /\ [Next]_vars => Asleep'
<1> SUFFICES ASSUME Base, Fresh, Asleep, [Next]_vars PROVE Asleep'
  OBVIOUS
<1> USE DEF card, event, queues, still
<1>0. \A p \in Plugins : n + 1 \notin owed[p]
  <2>1. \A p \in Plugins : \A e \in owed[p] : e \in Int /\ e <= n
    BY ConstantsType DEF Base, TypeOK, Events, Fresh
  <2> QED
    BY <2>1, ConstantsType DEF Base, TypeOK
<1>1. CASE \E p \in Plugins : Edit(p)
  BY <1>1 DEF Edit, Asleep
<1>2. CASE Refresh \/ Boot
  <2>1. /\ table' = Subscriptions(manifest) /\ pc \in {"idle", "off"} /\ pc' = "idle"
        /\ sleeping' = sleeping
    BY <1>2 DEF Refresh, Boot
  <2>2. \A p \in Plugins : SleepEnter \in table'[p].mask => SleepEnter \in table'[p].connect
    BY <2>1, SleepConnects
  <2> QED
    BY <2>1, <2>2 DEF Asleep
<1>3. CASE (\E t \in Types : Emit(t)) \/ EnterSleep
  <2>1. /\ UNCHANGED <<table, owed>> /\ pc = "idle"
        /\ sleeping' = "entering" => sleeping = "entering" \/ (EnterSleep /\ sleeping = "no")
    BY <1>3 DEF Emit, EnterSleep
  <2>2. \/ n' = n + 1 /\ pc' = "emit" /\ (EnterSleep => name' = SleepEnter)
        \/ EnterSleep /\ ~ anySubscriber(SleepEnter) /\ pc' = "decide"
    BY <1>3 DEF Emit, EnterSleep, Begin
  <2>3. CASE n' = n + 1 /\ pc' = "emit" /\ (EnterSleep => name' = SleepEnter)
    BY <1>0, <2>1, <2>3 DEF Asleep, OwedSubscribe
  <2>4. CASE ~ anySubscriber(SleepEnter) /\ pc' = "decide"
    BY <2>1, <2>4 DEF Asleep, anySubscriber
  <2> QED
    BY <2>2, <2>3, <2>4
<1>4. CASE Emitting
  <2>1. /\ UNCHANGED <<table, event, sleeping>> /\ pc \in {"emit", "append", "torn"}
        /\ pc' \in {"emit", "append", "torn"} \/ (sleeping = "entering" /\ pc' = "decide")
           \/ (sleeping # "entering" /\ pc' = "idle")
    BY <1>4 DEF Emitting, EmitSkips, EmitDropsOld, EmitAppends, EmitShort, OpenToAppend, Truncate, EmitReturns, walk
  <2>2. OwedSubscribe'
    <3> SUFFICES ASSUME NEW p \in Plugins, n \in owed'[p] PROVE name \in table[p].mask
      BY <2>1 DEF OwedSubscribe
    <3>1. CASE n \in owed[p]
      BY <2>1, <3>1 DEF Asleep, OwedSubscribe
    <3>2. CASE n \notin owed[p]
      <4>1. p = at /\ EmitAppends
        <5>1. owed \in [Plugins -> SUBSET Events]
          BY DEF Base, TypeOK
        <5>2. CASE EmitSkips \/ EmitShort \/ Truncate \/ EmitReturns
          BY <3>2, <5>2 DEF EmitSkips, EmitShort, Truncate, EmitReturns
        <5>3. CASE EmitDropsOld
          BY <3>2, <5>1, <5>3 DEF EmitDropsOld
        <5>4. CASE EmitAppends
          BY <3>2, <5>1, <5>4 DEF EmitAppends
        <5> QED
          BY <1>4, <5>2, <5>3, <5>4 DEF Emitting
      <4> QED
        BY <4>1 DEF EmitAppends, OpenToAppend, Subscribed
    <3> QED
      BY <3>1, <3>2
  <2> QED
    BY <2>1, <2>2 DEF Asleep
<1>5. CASE Drain \/ BeforeSleep
  <2>1. UNCHANGED table /\ pc' \in {"drain", "idle"} /\ (pc' = "idle" => sleeping' = "closing")
    BY <1>5 DEF Drain, BeforeSleep, StartDrain
  <2> QED
    BY <2>1 DEF Asleep
<1>6. CASE Draining
  <2>1. UNCHANGED table /\ (pc' \in {"drain", "line", "stalled"} \/ (pc' = "idle" /\ sleeping' # "entering"))
    <3>1. CASE DrainSkips \/ DrainClears \/ DrainLoads
      BY <3>1 DEF DrainSkips, DrainClears, DrainLoads, NextSubscriber
    <3>2. CASE LineDropped \/ LineDelivered \/ LineRefused
      BY <3>2 DEF LineDropped, LineDelivered, LineRefused, LineDone, Refused
    <3>3. CASE Finish \/ DrainReturns
      BY <3>3 DEF Finish, DrainReturns, NextSubscriber
    <3> QED
      BY <1>6, <3>1, <3>2, <3>3 DEF Draining
  <2> QED
    BY <2>1 DEF Asleep
<1>7. CASE Downloading
  <2>1. UNCHANGED table /\ pc' \in {"stalled", "line"} \cup Swapping
    BY <1>7 DEF Downloading, Fetch, FetchEnds, FetchRefused, Refused, SwapBegins, Park, Commit, Restore, Clean,
       LineDone, Swapping
  <2> QED
    BY <2>1 DEF Asleep, Swapping
<1>8. CASE DeepSleep \/ PowerCut
  <2>1. UNCHANGED table /\ pc' = "off" /\ sleeping' = "no"
    BY <1>8 DEF DeepSleep, PowerCut, Off
  <2> QED
    BY <2>1 DEF Asleep
<1>9. CASE UNCHANGED vars
  BY <1>9 DEF vars, Asleep, OwedSubscribe, anySubscriber
<1> QED
  BY <1>1, <1>2, <1>3, <1>4, <1>5, <1>6, <1>7, <1>8, <1>9 DEF Next

LEMMA SleepJoins == Base /\ OutboxReadable /\ Ahead /\ Named /\ Asleep => SleepEventJoins
<1> SUFFICES ASSUME Base, OutboxReadable, Ahead, Named, Asleep, pc = "decide", anySubscriber(SleepEnter),
                    NEW p \in Plugins, n \in owed[p], unremoved[p] = 0
             PROVE  wantsConnectAny
  BY DEF SleepEventJoins
<1>1. outbox[p] \in Seq(Line) /\ Len(outbox[p]) \in Nat /\ Len(outbox[p]) <= Cap + 1
  BY ConstantsType, LenProperties DEF Base, TypeOK, OutboxReadable
<1>2. PICK i \in 1..Len(outbox[p]) : outbox[p][i].of = n
  BY DEF Ahead, Holds
<1>3. outbox[p][i].e = SleepEnter /\ SleepEnter \in table[p].connect
  BY <1>2 DEF Named, Asleep, OwedSubscribe
<1>4. Readable(outbox[p]) /\ i \in DOMAIN outbox[p]
  BY <1>1, <1>2, ConstantsType, LenProperties DEF Readable
<1> QED
  BY <1>3, <1>4 DEF wantsConnectAny

-----------------------------------------------------------------------------
(* The files of a download. *)

Files ==
  /\ DestIsWhole
  /\ pc \in {"park", "commit"} => part = "whole"
  /\ pc \in {"park", "clean"} => dest = "whole"
  /\ pc = "park" => hadDest = TRUE
  /\ pc = "restore" => mishaps # 0
  /\ had = FALSE => dest = "none" /\ bak = "none"
  /\ had = TRUE /\ mishaps = 0 /\ pc = "commit" => hadDest = TRUE /\ bak = "whole"
  /\ had = TRUE /\ mishaps = 0 /\ pc # "commit" => dest = "whole"
  /\ had = TRUE /\ mishaps = 1 /\ pc = "restore" => bak = "whole"
  /\ had = TRUE /\ mishaps = 1 /\ pc \notin {"restore", "commit"} => "whole" \in {dest, bak}

LEMMA FileSteps ==
  ASSUME [Next]_vars
  PROVE  \/ Downloading \/ PowerCut \/ UNCHANGED vars
         \/ /\ UNCHANGED <<dest, bak, part, had, mishaps>>
            /\ pc \notin {"park", "commit", "restore", "clean"}
            /\ pc' \notin {"park", "commit", "restore", "clean"}
<1> USE DEF card, swap
<1>1. CASE \/ \E p \in Plugins : Edit(p)
           \/ \E t \in Types : Emit(t)
           \/ Refresh \/ EnterSleep
  BY <1>1 DEF Edit, Emit, Refresh, EnterSleep, Begin
<1>2. CASE Emitting
  BY <1>2 DEF Emitting, EmitSkips, EmitDropsOld, EmitAppends, EmitShort, OpenToAppend, Truncate, EmitReturns
<1>3. CASE Drain \/ BeforeSleep \/ Draining
  BY <1>3 DEF Drain, BeforeSleep, StartDrain, Draining, DrainSkips, DrainLoads, DrainClears, Opens, NextSubscriber,
     LineDropped, LineDelivered, LineRefused, LineDone, Refused, Walking, WalkOver, Finish, DrainReturns
<1>4. CASE DeepSleep \/ Boot
  BY <1>4 DEF DeepSleep, Boot, Off
<1> QED
  BY <1>1, <1>2, <1>3, <1>4 DEF Next

LEMMA FilesStep == Base /\ Files /\ [Next]_vars => Files'
<1> SUFFICES ASSUME Base, Files, [Next]_vars PROVE Files'
  OBVIOUS
<1>0. mishaps \in 0..2 /\ FlagsOK
  BY DEF Base, TypeOK
<1> USE DEF DestIsWhole, still
<1>1. CASE Fetch
  BY <1>1 DEF Fetch, Walking, Files
<1>2. CASE FetchEnds
  BY <1>2 DEF FetchEnds, Files
<1>3. CASE FetchRefused
  BY <1>3 DEF FetchRefused, Refused, Files
<1>4. CASE SwapBegins
  BY <1>4 DEF SwapBegins, Accepted, Files
<1>5. CASE Park
  <2>0. pc = "park" /\ part = "whole" /\ dest = "whole" /\ had' = had /\ hadDest = TRUE
    BY <1>5 DEF Park, Files
  <2>1. CASE bak = "none" /\ bak' = dest /\ dest' = "none" /\ pc' = "commit" /\ UNCHANGED <<part, hadDest, mishaps>>
    BY <2>0, <2>1 DEF Files
  <2>2. CASE Mishap /\ pc' = "stalled" /\ UNCHANGED <<dest, bak>>
    <3>1. mishaps' = 1 \/ mishaps' = 2
      BY <1>0, <2>2 DEF Mishap
    <3> QED
      BY <2>0, <2>2, <3>1 DEF Files
  <2> QED
    BY <1>5, <2>1, <2>2 DEF Park
<1>6. CASE Commit
  <2>0. pc = "commit" /\ part = "whole" /\ UNCHANGED bak
    BY <1>6 DEF Commit, Files
  <2>1. CASE dest' = part /\ pc' = "clean" /\ UNCHANGED mishaps
    <3>1. had' = TRUE
      BY <1>6, <2>0, <2>1 DEF Commit
    <3> QED
      BY <2>0, <2>1, <3>1 DEF Files
  <2>2. CASE Mishap /\ pc' = (IF hadDest THEN "restore" ELSE "stalled") /\ UNCHANGED dest
    <3>1. had' = (had \/ dest # "none")
      BY <1>6, <2>2 DEF Commit
    <3>2. CASE mishaps = 0 /\ had = TRUE
      <4>1. mishaps' = 1
        BY <2>2, <3>2 DEF Mishap
      <4>2. had' = TRUE
        BY <3>1, <3>2
      <4>3. mishaps' = 1 /\ had' = TRUE
        BY <4>1, <4>2
      <4>4. hadDest = TRUE /\ bak = "whole"
        BY <2>0, <3>2 DEF Files
      <4> QED
        BY <2>0, <2>2, <4>3, <4>4 DEF Files
    <3>3. CASE mishaps = 0 /\ had = FALSE
      <4>1. mishaps' = 1
        BY <2>2, <3>3 DEF Mishap
      <4>2. dest = "none" /\ bak = "none"
        BY <3>3 DEF Files
      <4>3. had' = FALSE
        BY <3>1, <3>3, <4>2
      <4>4. mishaps' = 1 /\ had' = FALSE /\ dest = "none" /\ bak = "none"
        BY <4>1, <4>2, <4>3
      <4>5. pc' = "restore" \/ pc' = "stalled"
        BY <2>2
      <4> QED
        BY <2>0, <2>2, <4>4, <4>5 DEF Files
    <3>4. CASE mishaps # 0
      <4>1. mishaps' = 2
        BY <1>0, <2>2, <3>4 DEF Mishap
      <4>2. had = FALSE \/ had' = TRUE
        BY <1>0, <3>1 DEF FlagsOK
      <4>3. had = FALSE => dest = "none" /\ bak = "none"
        BY DEF Files
      <4>4. pc' = "restore" \/ pc' = "stalled"
        BY <2>2
      <4> QED
        BY <2>0, <2>2, <4>1, <4>2, <4>3, <4>4 DEF Files
    <3> QED
      BY <1>0, <3>2, <3>4, <3>3 DEF FlagsOK
  <2> QED
    BY <1>6, <2>1, <2>2 DEF Commit
<1>7. CASE Restore
  BY <1>0, <1>7 DEF Restore, Mishap, Files
<1>8. CASE Clean
  BY <1>8 DEF Clean, LineDone, Files
<1>9. CASE PowerCut
  BY <1>0, <1>9 DEF PowerCut, Off, Mishap, Files, card, Swapping
<1>10. CASE UNCHANGED vars
  BY <1>10 DEF vars, card, Files
<1>11. CASE /\ UNCHANGED <<dest, bak, part, had, mishaps>>
            /\ pc \notin {"park", "commit", "restore", "clean"}
            /\ pc' \notin {"park", "commit", "restore", "clean"}
  BY <1>11 DEF Files
<1> QED
  BY <1>1, <1>2, <1>3, <1>4, <1>5, <1>6, <1>7, <1>8, <1>9, <1>10, <1>11, FileSteps DEF Downloading

-----------------------------------------------------------------------------
(* The theorems. *)

Inv == Base /\ Bounded /\ Queues /\ Files /\ Named /\ Asleep

\* The conjunction of what follows is kept by every step of emit(), drain(),
\* deliverLine(), deep sleep, power cuts and boots, for any number of plugins.
THEOREM Invariance == Spec => []Inv
<1>1. Init => Inv
  <2> SUFFICES ASSUME Init PROVE Inv
    OBVIOUS
  <2>1. Base
    BY BaseInit
  <2>2. Bounded
    BY ConstantsType, EmptySeq DEF Init, Bounded, OutboxReadable, Roomy
  <2>3. Queues
    BY EmptySeq DEF Init, Queues, Lines, Ordered, Tears, Hung, Fresh, Ahead, Holds
  <2>4. Files
    BY DEF Init, Files, DestIsWhole
  <2>5. Named
    BY EmptySeq DEF Init, Named
  <2>6. Asleep
    BY SleepConnects DEF Init, Asleep
  <2> QED
    BY <2>1, <2>2, <2>3, <2>4, <2>5, <2>6 DEF Inv
<1>2. Inv /\ [Next]_vars => Inv'
  BY BaseStep, ReadableStep, RoomyStep, LinesStep, TearsStep, FreshStep, AheadStep, FilesStep, NamedStep, AsleepStep
  DEF Inv, Bounded, Queues
<1> QED
  BY <1>1, <1>2, PTL DEF Spec

\* Every variable keeps its type.
THEOREM TypeCorrect == Spec => []TypeOK
<1>1. Inv => TypeOK
  BY DEF Inv, Base
<1> QED
  BY <1>1, Invariance, PTL

\* At least once: an event that emit() has appended stays in the outbox until its
\* request was carried out or a documented rule dropped it.
THEOREM NoEventIsLost == Spec => []NothingLost
<1>1. Inv => NothingLost
  BY DEF Inv, Queues, Ahead, Holds, NothingLost
<1> QED
  BY <1>1, Invariance, PTL

\* In order: an event is done with only when every one queued before it is.
THEOREM InOrder == Spec => NothingOvertakes
<1>1. Inv /\ [Next]_vars =>
        [\A p \in Plugins : \A e \in owed[p] \ owed'[p] : \A f \in owed[p] : f < e => f \notin owed'[p]]_vars
  BY OrderStep DEF Inv, Queues
<1> QED
  BY <1>1, Invariance, PTL DEF Spec, NothingOvertakes

\* An outbox stays within what readFileToString() reads back, but for one line for
\* each time emit() failed to remove it since it was last removed or read.
THEOREM DrainCanRead == Spec => []OutboxReadable
<1>1. Inv => OutboxReadable
  BY DEF Inv, Bounded
<1> QED
  BY <1>1, Invariance, PTL

\* A destination is never replaced by an error page or by half a file.
THEOREM WholeFiles == Spec => []DestIsWhole
<1>1. Inv => DestIsWhole
  BY DEF Inv, Files
<1> QED
  BY <1>1, Invariance, PTL

\* One refused rename, or one power cut, never loses the old file and the new one.
THEOREM SwapSurvivesOneMishap == Spec => []OneMishapKeepsAFile
<1>1. Inv => OneMishapKeepsAFile
  <2> SUFFICES ASSUME Inv, had, mishaps <= 1 PROVE Kept
    BY DEF OneMishapKeepsAFile
  <2>1. had = TRUE /\ (mishaps = 0 \/ mishaps = 1) /\ Files
    BY DEF Inv, Base, TypeOK, FlagsOK
  <2> QED
    BY <2>1 DEF Files, Kept
<1> QED
  BY <1>1, Invariance, PTL

\* Where a plugin subscribes to sleep.enter, the event that deep sleep has queued, in
\* an outbox that could be removed if it was full, is reason to join the network
\* (deliverSleepPluginEvents(), wantsConnectAny()).
THEOREM SleepEventIsReason == Spec => []SleepEventJoins
<1>1. Inv => SleepEventJoins
  BY SleepJoins DEF Inv, Bounded, Queues
<1> QED
  BY <1>1, Invariance, PTL

=============================================================================
