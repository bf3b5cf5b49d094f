---------------------------- MODULE PluginOutbox ----------------------------
(***************************************************************************)
(* The event queues of SD plugins, src/util/PluginEvents.cpp: emit()       *)
(* appends an event to the outbox file of each plugin that subscribes to   *)
(* it, drain() replays the queued events through the requests of the       *)
(* plugin's manifest when the device is online, and deep sleep may join    *)
(* the network for it.  A handler that downloads puts a file in place by   *)
(* renames.  Everything runs on the main task, and power can be cut        *)
(* between any two operations on the card.                                 *)
(*                                                                         *)
(* Events are numbered in the order in which emit() is called, plugins in  *)
(* the order in which scanPlugins() finds them.  A line of an outbox is    *)
(* one unit of size, the size of the longest line.                         *)
(***************************************************************************)
EXTENDS Integers, Sequences, FiniteSets, SequencesExt

CONSTANTS PluginCount,  \* plugins installed
          MaxSlots,     \* MAX_EVENT_PLUGINS
          Types,        \* the event names
          SleepEnter,   \* "sleep.enter", one of them
          Manifests,    \* what a device.json that can be read may say
          Unreadable,   \* a device.json that cannot be read or parsed
          Cap,          \* MAX_OUTBOX_BYTES, in lines
          Budget,       \* maxEvents of a drain
          MaxEvents,    \* bound: events emitted
          MaxEdits,     \* bound: manifests edited
          MaxCuts       \* bound: power cuts

Plugins == 1..PluginCount

\* What the firmware reads of a manifest: the events it declares; those whose
\* handler has a request to run; those of them whose request is a download;
\* those that declare "connect"; and whether its password can mint a token.
ManifestType == [events : SUBSET Types, runnable : SUBSET Types, download : SUBSET Types,
                 connect : SUBSET Types, grant : BOOLEAN]

ASSUME ConstantsType ==
  /\ PluginCount \in Nat /\ MaxSlots \in Nat /\ Cap \in Nat /\ Budget \in Nat
  /\ MaxEvents \in Nat /\ MaxEdits \in Nat /\ MaxCuts \in Nat
  /\ SleepEnter \in Types
  /\ Manifests \subseteq ManifestType
  /\ Unreadable \notin Manifests

Events == 1..MaxEvents

\* A line as the drain sees it: the event it begins with and its name, whether it
\* parses as that event, and whether its newline is missing.
Line == [of : Events, e : Types, whole : BOOLEAN, open : BOOLEAN]

VARIABLES
  manifest,  \* card: each plugin's device.json
  outbox,    \* card: each plugin's events.jsonl
  dest,      \* card: the file that downloads replace
  bak,       \* card: its ".bak"
  part,      \* card: its ".part"
  table,     \* subscribers[]: the masks of each plugin that has a slot
  pc,        \* where the main task is
  at,        \* the plugin emit() or drain() has got to
  pos,       \* lines of its outbox that the drain has got past
  budget,    \* handlers the drain may still run
  minted,    \* deliverLine() has minted a token for this line
  hadDest,   \* deliverLine()'s hadDest
  sleeping,  \* "no", "entering" until the drain of deep sleep is over, "closing"
  n,         \* the number of the last event emitted
  name,      \* its event name
  owed,      \* history: events appended whole, except behind a line left torn, which
             \* have not been delivered, nor dropped by a documented rule
  unmended,  \* history: a torn line was left, by a power cut or a failed truncate()
  unremoved, \* history: removals of each full outbox that failed since it was last removed or read
  had,       \* history: the destination has existed
  mishaps,   \* history: renames refused and power cuts in a swap, at most 2 counted
  cuts, edits

card == <<manifest, outbox, dest, bak, part>>
swap == <<dest, bak, part, hadDest, had, mishaps>>
queues == <<outbox, owed, unmended, unremoved>>
event == <<n, name>>
walk == <<at, pos, budget, minted>>
bounds == <<cuts, edits>>
vars == <<card, table, pc, walk, hadDest, sleeping, event, owed, unmended, unremoved, had, mishaps, bounds>>

Swapping == {"fetch", "answer", "park", "commit", "restore", "clean"}

-----------------------------------------------------------------------------
(* Subscriptions.                                                          *)

NoSlot == [mask |-> {}, connect |-> {}]

Declares(m, p) == m[p] # Unreadable /\ m[p].events # {}

\* Mutant: only handlers that say so connect.
SubscriptionsAsDeclared(m) ==
  [p \in Plugins |->
     IF Declares(m, p) /\ Cardinality({q \in 1..(p - 1) : Declares(m, q)}) < MaxSlots
     THEN [mask |-> m[p].events, connect |-> m[p].connect]
     ELSE NoSlot]

\* refreshSubscriptions(): plugins that declare events get the slots in the order
\* of the scan; sleep.enter implies "connect".
Subscriptions(m) ==
  [p \in Plugins |->
     IF Declares(m, p) /\ Cardinality({q \in 1..(p - 1) : Declares(m, q)}) < MaxSlots
     THEN [mask |-> m[p].events, connect |-> m[p].connect \cup (m[p].events \cap {SleepEnter})]
     ELSE NoSlot]

anySubscriber(t) == \E p \in Plugins : t \in table[p].mask

\* readFileToString(): an empty file and one over the cap cannot be read.
Readable(box) == Len(box) \in 1..(Cap + 1)

\* A line begins with the name of its event, so even a torn one is found.
wantsConnectAny ==
  \E p \in Plugins : /\ Readable(outbox[p])
                     /\ \E i \in DOMAIN outbox[p] : outbox[p][i].e \in table[p].connect

Init ==
  /\ manifest \in [Plugins -> Manifests \cup {Unreadable}]
  /\ outbox = [p \in Plugins |-> << >>]
  /\ dest \in {"none", "whole"} /\ bak = "none" /\ part = "none"
  /\ table = Subscriptions(manifest)
  /\ pc = "idle" /\ at = 1 /\ pos = 0 /\ budget = 0 /\ minted = FALSE /\ hadDest = FALSE
  /\ sleeping = "no" /\ n = 0 /\ name = SleepEnter
  /\ owed = [p \in Plugins |-> {}]
  /\ unmended = FALSE /\ unremoved = [p \in Plugins |-> 0]
  /\ had = (dest = "whole") /\ mishaps = 0
  /\ cuts = 0 /\ edits = 0

\* The user, a browser or a catalog changes a manifest.
Edit(p) ==
  /\ pc = "idle" /\ sleeping = "no" /\ edits < MaxEdits
  /\ \E m \in Manifests \cup {Unreadable} : manifest' = [manifest EXCEPT ![p] = m]
  /\ edits' = edits + 1
  /\ UNCHANGED <<queues, swap, table, pc, walk, sleeping, event, cuts>>

\* The plugin list is opened, a web session ends, a plugin is removed.
Refresh ==
  /\ pc = "idle" /\ sleeping = "no"
  /\ table' = Subscriptions(manifest)
  /\ UNCHANGED <<manifest, queues, swap, pc, walk, sleeping, event, bounds>>

-----------------------------------------------------------------------------
(* emit(): one subscriber after the other.                                 *)

\* A line over MAX_EVENT_LINE goes to nobody.
Begin(t) == n' = n + 1 /\ name' = t /\ at' \in {1, PluginCount + 1} /\ pc' = "emit"

\* Screens emit while they run, and the reader once more as it is closed for sleep.
Emit(t) ==
  /\ pc = "idle" /\ n < MaxEvents /\ t # SleepEnter /\ anySubscriber(t)
  /\ Begin(t)
  /\ UNCHANGED <<manifest, queues, swap, table, pos, budget, minted, sleeping, bounds>>

\* deliverSleepPluginEvents() queues sleep.enter, then decides about the network.
EnterSleep ==
  /\ pc = "idle" /\ sleeping = "no"
  /\ sleeping' = "entering"
  /\ \/ n < MaxEvents /\ anySubscriber(SleepEnter) /\ Begin(SleepEnter)
     \/ ~ anySubscriber(SleepEnter) /\ pc' = "decide" /\ UNCHANGED <<event, at>>
  /\ UNCHANGED <<manifest, queues, swap, table, pos, budget, minted, bounds>>

\* Not subscribed, the book's sidecar does not match, or the outbox does not open,
\* be it at first or once more after its removal.
EmitSkips ==
  /\ pc \in {"emit", "append"} /\ at \in Plugins
  /\ at' = at + 1 /\ pc' = "emit"
  /\ UNCHANGED <<manifest, queues, swap, table, pos, budget, minted, sleeping, event, bounds>>

Subscribed == at \in Plugins /\ name \in table[at].mask

\* Mutant: the cap is what drain() can read back.
OverReadCap(box) == Len(box) > Cap + 1
OverCap(box) == Len(box) > Cap

\* An outbox over the cap is removed with all it holds.  The result is not looked
\* at: when the removal fails, the event is appended to the full outbox.
EmitDropsOld ==
  /\ pc = "emit" /\ Subscribed /\ OverCap(outbox[at]) /\ pc' = "append"
  /\ \/ /\ outbox' = [outbox EXCEPT ![at] = << >>] /\ owed' = [owed EXCEPT ![at] = {}]
        /\ unremoved' = [unremoved EXCEPT ![at] = 0]
     \/ unremoved' = [unremoved EXCEPT ![at] = @ + 1] /\ UNCHANGED <<outbox, owed>>
  /\ UNCHANGED <<manifest, unmended, swap, table, walk, sleeping, event, bounds>>

OpenToAppend == Subscribed /\ (pc = "append" \/ (pc = "emit" /\ ~ OverCap(outbox[at])))

Torn(box) == box # << >> /\ Last(box).open

\* A line appended after a missing newline becomes part of the line before.
Glued(box, open) == [box EXCEPT ![Len(box)].open = open]

EmitAppends ==
  /\ OpenToAppend
  /\ IF Torn(outbox[at])
     THEN outbox' = [outbox EXCEPT ![at] = Glued(@, FALSE)]
     ELSE outbox' = [outbox EXCEPT ![at] = Append(@, [of |-> n, e |-> name, whole |-> TRUE, open |-> FALSE])]
  /\ owed' = IF Torn(outbox[at]) /\ unmended THEN owed ELSE [owed EXCEPT ![at] = @ \cup {n}]
  /\ at' = at + 1 /\ pc' = "emit"
  /\ UNCHANGED <<manifest, unmended, unremoved, swap, table, pos, budget, minted, sleeping, event, bounds>>

\* A short write; only the newline may be missing.
EmitShort ==
  /\ OpenToAppend
  /\ \/ UNCHANGED outbox
     \/ Torn(outbox[at]) /\ outbox' = [outbox EXCEPT ![at] = Glued(@, TRUE)]
     \/ /\ ~ Torn(outbox[at])
        /\ \E whole \in BOOLEAN :
             outbox' = [outbox EXCEPT ![at] = Append(@, [of |-> n, e |-> name, whole |-> whole, open |-> TRUE])]
  /\ pc' = "torn"
  /\ UNCHANGED <<manifest, owed, unmended, unremoved, swap, table, walk, sleeping, event, bounds>>

\* truncate() back to the size before; its result is not looked at.
CutBack(box) == IF box # << >> /\ Last(box).of = n THEN Front(box) ELSE box

Truncate ==
  /\ pc = "torn"
  /\ \/ outbox' = [outbox EXCEPT ![at] = CutBack(@)] /\ UNCHANGED unmended
     \/ unmended' = TRUE /\ UNCHANGED outbox
  /\ at' = at + 1 /\ pc' = "emit"
  /\ UNCHANGED <<manifest, owed, unremoved, swap, table, pos, budget, minted, sleeping, event, bounds>>

EmitReturns ==
  /\ pc = "emit" /\ at > PluginCount
  /\ pc' = IF sleeping = "entering" THEN "decide" ELSE "idle"
  /\ at' = 1
  /\ UNCHANGED <<manifest, queues, swap, table, pos, budget, minted, sleeping, event, bounds>>

-----------------------------------------------------------------------------
(* drain(): one subscriber after the other, line by line.                  *)

StartDrain == pc' = "drain" /\ at' = 1 /\ budget' = Budget

\* A network is joined by the user's doing, or the web server comes up on one.
Drain ==
  /\ pc = "idle" /\ sleeping = "no"
  /\ StartDrain
  /\ UNCHANGED <<manifest, queues, swap, table, pos, minted, sleeping, event, bounds>>

\* Before deep sleep: the network is up, or it is joined for a queued event, with
\* the battery and the credential that takes and in time.
BeforeSleep ==
  /\ pc = "decide"
  /\ \E allowed, online, joins \in BOOLEAN :
       IF allowed /\ (online \/ (wantsConnectAny /\ joins))
       THEN StartDrain /\ UNCHANGED sleeping
       ELSE pc' = "idle" /\ sleeping' = "closing" /\ UNCHANGED <<at, budget>>
  /\ UNCHANGED <<manifest, queues, swap, table, pos, minted, event, bounds>>

NextSubscriber == at' = at + 1 /\ pc' = "drain"

\* No slot, no outbox, or a file that cannot be read now: keep the queue.
DrainSkips ==
  /\ pc = "drain" /\ budget > 0 /\ at \in Plugins
  /\ NextSubscriber
  /\ UNCHANGED <<manifest, queues, swap, table, pos, budget, minted, sleeping, event, bounds>>

Opens ==
  /\ pc = "drain" /\ budget > 0 /\ at \in Plugins
  /\ table[at].mask # {} /\ Readable(outbox[at]) /\ manifest[at] # Unreadable

Reads == unremoved' = [unremoved EXCEPT ![at] = 0]

Removed == outbox' = [outbox EXCEPT ![at] = << >>]

\* No handler could ever run: the queue would never advance.  The removal may fail.
DrainClears ==
  /\ Opens /\ Reads /\ manifest[at].runnable = {}
  /\ \/ Removed /\ owed' = [owed EXCEPT ![at] = {}]
     \/ UNCHANGED <<outbox, owed>>
  /\ NextSubscriber
  /\ UNCHANGED <<manifest, unmended, swap, table, pos, budget, minted, sleeping, event, bounds>>

DrainLoads ==
  /\ Opens /\ Reads /\ manifest[at].runnable # {}
  /\ pc' = "line" /\ pos' = 0 /\ minted' = FALSE
  /\ UNCHANGED <<manifest, outbox, owed, unmended, swap, table, at, budget, sleeping, event, bounds>>

Walking == pc = "line" /\ pos < Len(outbox[at]) /\ budget > 0
Current == outbox[at][pos + 1]
Handled == Current.whole /\ Current.e \in manifest[at].runnable
Downloads == Current.e \in manifest[at].download

\* The line counts as delivered.
LineDone == pos' = pos + 1 /\ budget' = budget - 1 /\ pc' = "line" /\ minted' = FALSE

Settled == owed' = [owed EXCEPT ![at] = @ \ {Current.of}]

\* Mutant: a line without a handler waits for one.
LineWaits ==
  /\ Walking /\ ~ Handled
  /\ pc' = "stalled"
  /\ UNCHANGED <<manifest, queues, swap, table, walk, sleeping, event, bounds>>

\* A corrupt line, one without a handler, or one whose destination is unsafe.
LineDropped ==
  /\ Walking
  /\ ~ Handled \/ Downloads
  /\ Settled
  /\ LineDone
  /\ UNCHANGED <<manifest, outbox, unmended, unremoved, swap, table, at, sleeping, event, bounds>>

LineDelivered ==
  /\ Walking /\ Handled /\ ~ Downloads
  /\ Settled
  /\ LineDone
  /\ UNCHANGED <<manifest, outbox, unmended, unremoved, swap, table, at, sleeping, event, bounds>>

\* What deliverLine() makes of a status that is not 2xx: with a password it may
\* mint a token, once, and run the request again.
Refused ==
  \/ pc' = "stalled" /\ UNCHANGED minted
  \/ manifest[at].grant /\ ~ minted /\ minted' = TRUE /\ pc' = "line"

\* Mutant: the walk goes on after a failure.
LinePassedOver ==
  /\ Walking /\ Handled /\ ~ Downloads
  /\ LineDone
  /\ UNCHANGED <<manifest, queues, swap, table, at, sleeping, event, bounds>>

\* Denied, failed, or carried out but with the answer lost.
LineRefused ==
  /\ Walking /\ Handled /\ ~ Downloads
  /\ Refused
  /\ UNCHANGED <<manifest, outbox, owed, unmended, unremoved, swap, table, at, pos, budget, sleeping, event, bounds>>

Remainder == [outbox EXCEPT ![at] = SubSeq(@, pos + 1, Len(@))]

WalkOver == (pc = "line" /\ ~ Walking) \/ pc = "stalled"

\* Mutant: a walk that was not stopped has seen all lines.
FinishUnstopped ==
  /\ WalkOver
  /\ \/ IF pc # "stalled" THEN Removed ELSE outbox' = Remainder
     \/ UNCHANGED outbox
  /\ NextSubscriber /\ pos' = 0 /\ minted' = FALSE
  /\ UNCHANGED <<manifest, owed, unmended, unremoved, swap, table, budget, sleeping, event, bounds>>

\* The queue is removed when all of it was walked; else its tail is rewritten.
\* If that fails the old one stays.
Finish ==
  /\ WalkOver
  /\ \/ IF pos >= Len(outbox[at]) /\ pc # "stalled" THEN Removed ELSE outbox' = Remainder
     \/ UNCHANGED outbox
  /\ NextSubscriber /\ pos' = 0 /\ minted' = FALSE
  /\ UNCHANGED <<manifest, owed, unmended, unremoved, swap, table, budget, sleeping, event, bounds>>

DrainReturns ==
  /\ pc = "drain"
  /\ budget = 0 \/ at > PluginCount
  /\ pc' = "idle"
  /\ sleeping' = IF sleeping = "entering" THEN "closing" ELSE sleeping
  /\ at' = 1 /\ budget' = 0
  /\ UNCHANGED <<manifest, queues, swap, table, pos, minted, event, bounds>>

-----------------------------------------------------------------------------
(* deliverLine() of a download: a sibling temporary file, then the swap.   *)

still == <<manifest, outbox, unmended, unremoved, table, at, sleeping, event, bounds>>

Mishap == mishaps' = IF mishaps < 2 THEN mishaps + 1 ELSE 2

\* requestToFile() opens the temporary file.
Fetch ==
  /\ Walking /\ Handled /\ Downloads
  /\ part' = "partial"
  /\ pc' = "fetch"
  /\ UNCHANGED <<still, owed, dest, bak, hadDest, had, mishaps, pos, budget, minted>>

\* The whole body is there, of a 2xx or of an error.
FetchEnds ==
  /\ pc = "fetch"
  /\ part' \in {"whole", "error"}
  /\ pc' = "answer"
  /\ UNCHANGED <<still, owed, dest, bak, hadDest, had, mishaps, pos, budget, minted>>

Accepted == part = "whole"

\* An incomplete body or an error: the temporary file is removed.
FetchRefused ==
  /\ pc = "fetch" \/ (pc = "answer" /\ ~ Accepted)
  /\ part' = "none"
  /\ IF pc = "fetch" THEN pc' = "stalled" /\ UNCHANGED minted ELSE Refused
  /\ UNCHANGED <<still, owed, dest, bak, hadDest, had, mishaps, pos, budget>>

\* Storage.remove(bak); hadDest.
SwapBegins ==
  /\ pc = "answer" /\ Accepted
  /\ bak' \in {"none", bak}
  /\ hadDest' = (dest # "none")
  /\ pc' = IF dest # "none" THEN "park" ELSE "commit"
  /\ UNCHANGED <<still, owed, dest, part, had, mishaps, pos, budget, minted>>

\* Mutant: the old file is removed first.
ParkNowhere ==
  /\ pc = "park"
  /\ dest' = "none" /\ pc' = "commit"
  /\ UNCHANGED <<still, owed, bak, part, hadDest, had, mishaps, pos, budget, minted>>

\* rename() does not overwrite.
Park ==
  /\ pc = "park"
  /\ \/ bak = "none" /\ bak' = dest /\ dest' = "none" /\ pc' = "commit" /\ UNCHANGED <<part, hadDest, mishaps>>
     \/ part' = "none" /\ Mishap /\ hadDest' = FALSE /\ pc' = "stalled" /\ UNCHANGED <<dest, bak>>
  /\ UNCHANGED <<still, owed, had, pos, budget, minted>>

Commit ==
  /\ pc = "commit"
  /\ \/ dest = "none" /\ dest' = part /\ part' = "none" /\ pc' = "clean" /\ UNCHANGED mishaps
     \/ part' = "none" /\ Mishap /\ pc' = (IF hadDest THEN "restore" ELSE "stalled") /\ UNCHANGED dest
  /\ had' = (had \/ dest' # "none") /\ hadDest' = FALSE
  /\ UNCHANGED <<still, owed, bak, pos, budget, minted>>

Restore ==
  /\ pc = "restore"
  /\ \/ dest' = bak /\ bak' = "none" /\ UNCHANGED mishaps
     \/ Mishap /\ UNCHANGED <<dest, bak>>
  /\ pc' = "stalled"
  /\ UNCHANGED <<still, owed, part, hadDest, had, pos, budget, minted>>

Clean ==
  /\ pc = "clean"
  /\ bak' \in {"none", bak}
  /\ Settled
  /\ LineDone
  /\ UNCHANGED <<still, dest, part, hadDest, had, mishaps>>

-----------------------------------------------------------------------------
(* Power.                                                                  *)

Off == pc' = "off" /\ at' = 1 /\ pos' = 0 /\ budget' = 0 /\ minted' = FALSE /\ hadDest' = FALSE

\* Deep sleep begins once the screens have closed.
DeepSleep ==
  /\ pc = "idle" /\ sleeping = "closing"
  /\ Off /\ sleeping' = "no"
  /\ UNCHANGED <<card, table, event, owed, unmended, unremoved, had, mishaps, bounds>>

PowerCut ==
  /\ pc # "off" /\ cuts < MaxCuts
  /\ Off /\ sleeping' = "no"
  /\ cuts' = cuts + 1
  /\ unmended' = (unmended \/ pc = "torn")
  /\ IF pc \in Swapping THEN Mishap ELSE UNCHANGED mishaps
  /\ UNCHANGED <<card, table, event, owed, unremoved, had, edits>>

Boot ==
  /\ pc = "off"
  /\ pc' = "idle"
  /\ table' = Subscriptions(manifest)
  /\ UNCHANGED <<manifest, queues, swap, walk, sleeping, event, bounds>>

-----------------------------------------------------------------------------
Emitting == \/ EmitSkips \/ EmitDropsOld \/ EmitAppends \/ EmitShort \/ Truncate \/ EmitReturns
Draining == \/ DrainSkips \/ DrainClears \/ DrainLoads \/ LineDropped \/ LineDelivered \/ LineRefused
            \/ Finish \/ DrainReturns
Downloading == \/ Fetch \/ FetchEnds \/ FetchRefused \/ SwapBegins \/ Park \/ Commit \/ Restore \/ Clean

Next ==
  \/ \E p \in Plugins : Edit(p)
  \/ \E t \in Types : Emit(t)
  \/ Refresh \/ EnterSleep \/ Emitting
  \/ Drain \/ BeforeSleep \/ Draining \/ Downloading
  \/ DeepSleep \/ PowerCut \/ Boot

Spec == Init /\ [][Next]_vars

\* A card that fails, or a server that does not accept.
Fault ==
  \/ DrainSkips /\ Opens
  \/ LineRefused \/ FetchRefused \/ (FetchEnds /\ part' = "error")
  \/ (SwapBegins /\ bak' # "none") \/ (Park /\ dest' = dest) \/ (Commit /\ dest' = dest)
  \/ (EmitDropsOld \/ DrainClears \/ (Finish /\ pos > 0)) /\ outbox' = outbox

\* The device goes on with what it does, and is started again after a power cut;
\* it comes online again and again; faults end.
Fairness ==
  /\ WF_vars(Emitting \/ Draining \/ Downloading \/ BeforeSleep \/ DeepSleep \/ Boot)
  /\ SF_vars(Drain)
  /\ <>[][~ Fault]_vars

FairSpec == Spec /\ Fairness

-----------------------------------------------------------------------------
(* Properties.                                                             *)

FlagsOK == minted \in BOOLEAN /\ hadDest \in BOOLEAN /\ unmended \in BOOLEAN /\ had \in BOOLEAN

TypeOK ==
  /\ manifest \in [Plugins -> Manifests \cup {Unreadable}]
  /\ outbox \in [Plugins -> Seq(Line)]
  /\ dest \in {"none", "whole", "partial", "error"} /\ bak \in {"none", "whole", "partial", "error"}
  /\ part \in {"none", "whole", "partial", "error"}
  /\ table \in [Plugins -> [mask : SUBSET Types, connect : SUBSET Types]]
  /\ pc \in {"off", "idle", "emit", "append", "torn", "decide", "drain", "line", "stalled"} \cup Swapping
  /\ at \in 1..(PluginCount + 1) /\ pos \in Nat /\ budget \in 0..Budget
  /\ sleeping \in {"no", "entering", "closing"}
  /\ n \in 0..MaxEvents /\ name \in Types
  /\ owed \in [Plugins -> SUBSET Events] /\ unremoved \in [Plugins -> Nat]
  /\ mishaps \in 0..2
  /\ cuts \in 0..MaxCuts /\ edits \in 0..MaxEdits
  /\ FlagsOK

\* Delivery is at least once (docs/plugin-events.md:26): whatever power cuts,
\* failed rewrites, lost answers and exhausted budgets come between, an event in
\* an outbox stays there until its request was carried out or a documented rule
\* dropped it; and a short append that is cut back takes no other event with it.
NothingLost ==
  \A p \in Plugins : \A e \in owed[p] :
    \E i \in DOMAIN outbox[p] : outbox[p][i].of = e /\ outbox[p][i].whole

\* "A later event never overtakes an earlier one" (docs/plugin-events.md:250):
\* an event is done with only when every one queued before it is.
NothingOvertakes ==
  [][\A p \in Plugins : \A e \in owed[p] \ owed'[p] : \A f \in owed[p] : f < e => f \notin owed'[p]]_vars

\* An outbox outgrows what drain() can read back only when emit() could not remove
\* it, and then by one line for each removal that failed: emit()'s cap and the
\* longest line are together readFileToString()'s cap, so short appends, rewrites
\* and power cuts never wedge a queue, and the next removal that works mends it.
OutboxReadable == \A p \in Plugins : Len(outbox[p]) <= Cap + 1 + unremoved[p]

\* Neither an error page nor half a file ever replaces the destination, or the
\* backup of it ("so a 404/500 error body can never replace an existing dest").
DestIsWhole == dest \in {"none", "whole"} /\ bak \in {"none", "whole"}

Kept == "whole" \in {dest, bak, part}

\* The swap survives any one mishap, be it a refused rename or a power cut: the old
\* file or the new one is on the card under one of the three names.
OneMishapKeepsAFile == (had /\ mishaps <= 1) => Kept

\* "a failed commit must not lose both the old file and the fresh download"
\* (PluginEvents.cpp:390): the code removes the backup before the swap even when
\* the backup is all that an interrupted swap left.
CommitKeepsAFile == had => Kept

\* Subscribing to sleep.enter makes the device join the network for it: when it
\* comes to decide, the event it has just queued is reason enough, unless its
\* outbox was full and could not be removed.
SleepEventJoins ==
  /\ pc = "decide" /\ anySubscriber(SleepEnter)
  /\ \E p \in Plugins : n \in owed[p] /\ unremoved[p] = 0
  => wantsConnectAny

\* An outbox that grew too large to be read because it could not be removed.
Overgrown(p) == unremoved[p] > 0 /\ Len(outbox[p]) > Cap + 1

\* No event waits for ever: an outbox that can be served is emptied again and
\* again, whatever its lines were queued for.  One that has overgrown waits for the
\* next event, which removes it.  (Events are finitely many: with more than a
\* budget between any two drains the plugins behind would wait for ever.)
QueueDrains ==
  \A p \in Plugins :
    []<>(outbox[p] = << >> \/ table[p].mask = {} \/ manifest[p] = Unreadable \/ Overgrown(p))
=============================================================================
