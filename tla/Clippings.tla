------------------------------- MODULE Clippings -------------------------------
(* The clippings of one book: the store on the card with its backup and its  *)
(* journal of deletions (ClippingStore), the reader that adds and removes    *)
(* clippings, and the sync with a server that other devices use too          *)
(* (clippingSync::run).  Everything here runs on the main task; the hard     *)
(* part is what is left where on the card and at the server when a card      *)
(* operation fails, a request or its answer is lost, or power goes away.     *)
EXTENDS Naturals, Sequences, FiniteSets, SequencesExt

CONSTANTS Mine,        \* texts the user may clip on this device
          Others,      \* texts clipped on other devices
          Absent,      \* no such file
          Partial,     \* a file whose writing did not come to its end
          Capacity,    \* CLIPPING_MAX_PER_BOOK
          MaxRev,      \* bound: changes made at the server by other devices
          MaxFaults,   \* bound: failing card operations and requests
          MaxCuts      \* bound: power cuts

ASSUME CapacityAssumption == Capacity \in Nat \ {0}
ASSUME TextsDisjoint == Mine \cap Others = {}

VARIABLES
  main, bak, tmp,      \* the store, its backup and the file being written
  journal, torn,       \* ids in ".deleted", and whether part of one follows
  ram,                 \* the records in memory
  loaded, dirty,
  pc,                  \* where the main task is
  job,                 \* who asked for the write under way
  undo,                \* the records to go back to if it fails
  repl,                \* the record whose text comes from memory, 0 for none
  ok,                  \* what the last write answered
  walk,                \* offset in the journal, index of an upload, or cursor
  more,                \* the page just read is not the last one
  given,               \* ids drawn so far, per text
  server, rev,         \* the server's items and its last revision
  kept, gone,          \* what the user was told is saved, and is removed
  faults, cuts

card  == <<main, bak, tmp>>
dels  == <<journal, torn>>
mem   == <<ram, loaded, dirty>>
call  == <<job, undo, repl>>
sync  == <<walk, more>>
net   == <<server, rev>>
told  == <<kept, gone>>
vars  == <<card, dels, mem, pc, call, ok, sync, given, net, told, faults, cuts>>

Texts == Mine \cup Others
NoId  == [of |-> Absent, n |-> 0]
Ids   == [of : Texts, n : Nat \ {0}]

\* A record on the card, with its text; in memory it has the text's place instead
\* (`text` is then whose record it is, which the program does not know).
Record   == [text : Texts, id : Ids \cup {NoId}, pending : BOOLEAN, rev : Nat]
InMemory == [text : Texts, id : Ids \cup {NoId}, pending : BOOLEAN, rev : Nat, at : Nat]
Item     == [id : Ids, text : Texts, live : BOOLEAN, rev : Nat]

ASSUME FilesAssumption == {Absent, Partial} \cap Seq(Record) = {} /\ Absent # Partial

Jobs   == {"none", "add", "remove", "unload", "prepare", "uploads", "apply"}
Places == {"closed", "reading", "unload",
           "room", "write", "park", "swap", "tidy", "return",
           "probe", "prepare", "delete", "upload", "finish", "scan", "synced"}

\* A card operation or a request fails.
Fault   == faults < MaxFaults /\ faults' = faults + 1
NoFault == UNCHANGED faults

\* What a load finds: a missing store is recovered from its backup.
Stored == IF main # Absent THEN main ELSE IF bak # Absent THEN bak ELSE <<>>

IdsIn(records) == {records[i].id : i \in DOMAIN records}

\* What writeToFile() puts into the new file: texts are copied from the old one,
\* at the place the record says.
TextOf(i) == IF i # repl /\ ram[i].at \in DOMAIN Stored
             THEN Stored[ram[i].at].text ELSE ram[i].text
NewContent == [i \in DOMAIN ram |-> [text |-> TextOf(i), id |-> ram[i].id,
                                     pending |-> ram[i].pending, rev |-> ram[i].rev]]

Placed(records) == [i \in DOMAIN records |->
  [text |-> records[i].text, id |-> records[i].id,
   pending |-> records[i].pending, rev |-> records[i].rev, at |-> i]]

Init ==
  /\ main = Absent /\ bak = Absent /\ tmp = Absent
  /\ journal = <<>> /\ torn = FALSE
  /\ ram = <<>> /\ loaded = FALSE /\ dirty = FALSE
  /\ pc = "closed" /\ job = "none" /\ undo = <<>> /\ repl = 0 /\ ok = FALSE
  /\ walk = 0 /\ more = FALSE
  /\ given = [t \in Texts |-> 0]
  /\ server = {} /\ rev = 0
  /\ kept = {} /\ gone = {}
  /\ faults = 0 /\ cuts = 0

-----------------------------------------------------------------------------
(* Opening and closing the store *)

Recovered ==
  /\ main' = IF main = Absent THEN bak ELSE main
  /\ bak'  = IF main = Absent THEN Absent ELSE bak
  /\ UNCHANGED tmp

LoadForBook(next) ==
  /\ pc = "closed"
  /\ Recovered
  /\ ram' = Placed(Stored)
  /\ loaded' = TRUE
  /\ dirty' = FALSE
  /\ pc' = next
  /\ NoFault
  /\ UNCHANGED <<dels, call, ok, sync, given, net, told, cuts>>

\* The backup cannot be renamed, or the store cannot be read: the reader goes on
\* with a store that refuses every change, a sync is over.
LoadFails(next) ==
  /\ pc = "closed"
  /\ Stored # <<>>
  /\ Fault
  /\ Recovered \/ UNCHANGED card
  /\ pc' = next
  /\ UNCHANGED <<dels, mem, call, ok, sync, given, net, told, cuts>>

OpenBook  == LoadForBook("reading") \/ LoadFails("reading")
StartSync == LoadForBook("probe") \/ LoadFails("closed")

CloseBook ==
  /\ pc = "reading"
  /\ pc' = "unload"
  /\ UNCHANGED <<card, dels, mem, call, ok, sync, given, net, told, faults, cuts>>

Forget ==
  /\ ram' = <<>> /\ loaded' = FALSE /\ dirty' = FALSE
  /\ job' = "none" /\ undo' = <<>> /\ repl' = 0
  /\ walk' = 0 /\ more' = FALSE
  /\ pc' = "closed"

\* writeToFile() is called for `who`; if it fails the records go back to `back`.
Call(who, back, replacement) ==
  /\ job' = who
  /\ undo' = back
  /\ repl' = replacement
  /\ pc' = "room"

Unload ==
  /\ pc = "unload"
  /\ IF dirty /\ loaded
     THEN /\ Call("unload", ram, 0)
          /\ UNCHANGED <<mem, sync>>
     ELSE Forget
  /\ UNCHANGED <<card, dels, ok, given, net, told, faults, cuts>>

-----------------------------------------------------------------------------
(* The reader *)

\* A text stands for one clipping: once it has an id it is not clipped again.
AddClipping(t) ==
  /\ pc = "reading"
  /\ loaded
  /\ Len(ram) < Capacity
  /\ given[t] = 0
  /\ t \notin kept \cup gone \cup {ram[i].text : i \in DOMAIN ram}
  /\ ram' = Append(ram, [text |-> t, id |-> NoId, pending |-> TRUE, rev |-> 0, at |-> 0])
  /\ dirty' = TRUE
  /\ Call("add", ram, Len(ram) + 1)
  /\ UNCHANGED <<card, dels, loaded, ok, sync, given, net, told, faults, cuts>>

\* The id is in the journal before the record leaves the store.
RemoveClippingAt(i) ==
  /\ pc = "reading"
  /\ loaded
  /\ i \in DOMAIN ram
  /\ IF ram[i].id # NoId
     THEN journal' = Append(journal, ram[i].id) /\ torn' = FALSE
     ELSE UNCHANGED dels
  /\ ram' = RemoveAt(ram, i)
  /\ dirty' = TRUE
  /\ kept' = kept \ {ram[i].text}
  /\ Call("remove", ram, 0)
  /\ UNCHANGED <<card, loaded, ok, sync, given, net, gone, faults, cuts>>

\* The append falls short: it is cut back, or the cut fails too.
JournalFails ==
  /\ pc = "reading"
  /\ loaded
  /\ \E i \in DOMAIN ram : ram[i].id # NoId
  /\ Fault
  /\ torn' \in BOOLEAN
  /\ UNCHANGED <<card, journal, mem, pc, call, ok, sync, given, net, told, cuts>>

-----------------------------------------------------------------------------
(* writeToFile() *)

Return(answer) ==
  /\ ok' = answer
  /\ pc' = "return"

\* Mutant: leftovers are removed before the backup is looked at.
MakeRoomHastily ==
  /\ pc = "room"
  /\ NoFault
  /\ bak' = Absent
  /\ tmp' = Absent
  /\ pc' = "write"
  /\ UNCHANGED <<main, dels, mem, call, ok, sync, given, net, told, cuts>>

\* Recover the backup of an interrupted save; remove leftovers, which may stay.
MakeRoom ==
  /\ pc = "room"
  /\ \/ /\ NoFault
        /\ main' = IF main = Absent THEN bak ELSE main
        /\ bak' = Absent
        /\ tmp' = Absent
        /\ pc' = "write"
        /\ UNCHANGED ok
     \/ /\ Fault
        /\ main = Absent /\ bak # Absent
        /\ Return(FALSE)
        /\ UNCHANGED card
     \/ /\ Fault
        /\ main # Absent
        /\ tmp' = Absent
        /\ pc' = "write"
        /\ UNCHANGED <<main, bak, ok>>
  /\ UNCHANGED <<dels, mem, call, sync, given, net, told, cuts>>

WriteTmp ==
  /\ pc = "write"
  /\ tmp' = NewContent
  /\ pc' = "park"
  /\ NoFault
  /\ UNCHANGED <<main, bak, dels, mem, call, ok, sync, given, net, told, cuts>>

\* No memory, a file that cannot be opened or a write that falls short; the file
\* is removed, if that works.
WriteFails ==
  /\ pc = "write"
  /\ Fault
  /\ tmp' \in {Absent, Partial}
  /\ Return(FALSE)
  /\ UNCHANGED <<main, bak, dels, mem, call, sync, given, net, told, cuts>>

\* A rename does not replace a file: a backup that could not be removed is in the way.
Park ==
  /\ pc = "park"
  /\ \/ /\ main # Absent /\ bak = Absent
        /\ NoFault
        /\ bak' = main
        /\ main' = Absent
        /\ pc' = "swap"
        /\ UNCHANGED <<tmp, ok>>
     \/ /\ main = Absent
        /\ NoFault
        /\ pc' = "swap"
        /\ UNCHANGED <<card, ok>>
     \/ /\ main # Absent
        /\ IF bak = Absent THEN Fault ELSE NoFault
        /\ tmp' = Absent
        /\ Return(FALSE)
        /\ UNCHANGED <<main, bak>>
  /\ UNCHANGED <<dels, mem, call, sync, given, net, told, cuts>>

Swap ==
  /\ pc = "swap"
  /\ main' = tmp
  /\ tmp' = Absent
  /\ pc' = "tidy"
  /\ NoFault
  /\ UNCHANGED <<bak, dels, mem, call, ok, sync, given, net, told, cuts>>

\* The new file is dropped and the parked one put back, if that works.
SwapFails ==
  /\ pc = "swap"
  /\ Fault
  /\ tmp' = Absent
  /\ \/ UNCHANGED <<main, bak>>
     \/ main' = bak /\ bak' = Absent
  /\ Return(FALSE)
  /\ UNCHANGED <<dels, mem, call, sync, given, net, told, cuts>>

\* Mutant: a backup that stays is taken for a failed save.
TidyOrFail ==
  /\ pc = "tidy"
  /\ \/ NoFault /\ bak' = Absent /\ Return(TRUE)
     \/ Fault /\ UNCHANGED bak /\ Return(FALSE)
  /\ ram' = [i \in DOMAIN ram |-> [ram[i] EXCEPT !.at = i]]
  /\ UNCHANGED <<main, tmp, dels, loaded, dirty, call, sync, given, net, told, cuts>>

\* Mutant: the records keep their places in the old file.
TidyLeavesPlaces ==
  /\ pc = "tidy"
  /\ NoFault /\ bak' = Absent
  /\ Return(TRUE)
  /\ UNCHANGED <<main, tmp, dels, mem, call, sync, given, net, told, cuts>>

Tidy ==
  /\ pc = "tidy"
  /\ \/ NoFault /\ bak' = Absent
     \/ Fault /\ UNCHANGED bak
  /\ ram' = [i \in DOMAIN ram |-> [ram[i] EXCEPT !.at = i]]
  /\ Return(TRUE)
  /\ UNCHANGED <<main, tmp, dels, loaded, dirty, call, sync, given, net, told, cuts>>

WriteToFile == MakeRoom \/ WriteTmp \/ WriteFails \/ Park \/ Swap \/ SwapFails \/ Tidy

-----------------------------------------------------------------------------
(* What the callers do with the answer *)

Resume(who, next) ==
  /\ pc = "return"
  /\ job = who
  /\ job' = "none" /\ undo' = <<>> /\ repl' = 0
  /\ pc' = next
  /\ UNCHANGED <<card, dels, loaded, ok, given, net, faults, cuts>>

Added ==
  /\ Resume("add", "reading")
  /\ ram' = IF ok THEN ram ELSE undo
  /\ dirty' = ~ok
  /\ kept' = IF ok THEN kept \cup {ram[repl].text} ELSE kept
  /\ UNCHANGED <<sync, gone>>

\* The one record of `before` that `after` has no longer.
Dropped(before, after) ==
  {before[i].text : i \in DOMAIN before} \ {after[i].text : i \in DOMAIN after}

Removed ==
  /\ Resume("remove", "reading")
  /\ ram' = IF ok THEN ram ELSE undo
  /\ dirty' = ~ok
  /\ gone' = IF ok THEN gone \cup Dropped(undo, ram) ELSE gone
  /\ kept' = IF ok THEN kept ELSE kept \cup Dropped(undo, ram)
  /\ UNCHANGED sync

Unloaded ==
  /\ pc = "return"
  /\ job = "unload"
  /\ Forget
  /\ UNCHANGED <<card, dels, ok, given, net, told, faults, cuts>>

Prepared ==
  /\ Resume("prepare", IF ok THEN "delete" ELSE "unload")
  /\ dirty' = ~ok
  /\ UNCHANGED <<ram, sync, told>>

UploadsFinished ==
  /\ Resume("uploads", IF ok THEN "scan" ELSE "unload")
  /\ dirty' = ~ok
  /\ UNCHANGED <<ram, sync, told>>

\* Mutant: the scan goes on after an item that could not be stored.
AppliedOrNot ==
  /\ Resume("apply", IF more THEN "scan" ELSE "synced")
  /\ ram' = IF ok THEN ram ELSE undo
  /\ kept' = IF ok
             THEN kept \cup {ram[i].text : i \in DOMAIN ram}
             ELSE kept \cup Dropped(undo, ram)
  /\ UNCHANGED <<dirty, sync, gone>>

\* The cursor moves on once the item is in the store.
Applied ==
  /\ Resume("apply", IF ~ok THEN "unload" ELSE IF more THEN "scan" ELSE "synced")
  /\ ram' = IF ok THEN ram ELSE undo
  /\ kept' = IF ok
             THEN kept \cup {ram[i].text : i \in DOMAIN ram}
             ELSE kept \cup Dropped(undo, ram)
  /\ UNCHANGED <<dirty, sync, gone>>

Resumed == Added \/ Removed \/ Unloaded \/ Prepared \/ UploadsFinished \/ Applied

-----------------------------------------------------------------------------
(* clippingSync::run() *)

\* A request, or the answer to it, is lost: the run is given up.
GiveUp ==
  /\ Fault
  /\ pc' = "unload"

Probe ==
  /\ pc = "probe"
  /\ \/ NoFault /\ pc' = "prepare"
     \/ GiveUp
  /\ UNCHANGED <<card, dels, mem, call, ok, sync, given, net, told, cuts>>

\* Mutant: the ids are saved with the next change.
PrepareUnsaved ==
  /\ pc = "prepare"
  /\ LET Drawn(r) == [r EXCEPT !.id = [of |-> r.text, n |-> given[r.text] + 1]]
     IN ram' = [i \in DOMAIN ram |-> IF ram[i].id = NoId THEN Drawn(ram[i]) ELSE ram[i]]
  /\ given' = [t \in Texts |->
       IF \E i \in DOMAIN ram : ram[i].text = t /\ ram[i].id = NoId
       THEN given[t] + 1 ELSE given[t]]
  /\ dirty' = (NoId \in IdsIn(ram))
  /\ pc' = "delete"
  /\ UNCHANGED <<card, dels, loaded, call, ok, sync, net, told, faults, cuts>>

\* Every record gets an id, and the store is saved with it.
PrepareSync ==
  /\ pc = "prepare"
  /\ LET Drawn(r) == [r EXCEPT !.id = [of |-> r.text, n |-> given[r.text] + 1]]
     IN ram' = [i \in DOMAIN ram |-> IF ram[i].id = NoId THEN Drawn(ram[i]) ELSE ram[i]]
  /\ given' = [t \in Texts |->
       IF \E i \in DOMAIN ram : ram[i].text = t /\ ram[i].id = NoId
       THEN given[t] + 1 ELSE given[t]]
  /\ dirty' = (NoId \in IdsIn(ram))
  /\ IF dirty' THEN Call("prepare", ram', 0) ELSE pc' = "delete" /\ UNCHANGED call
  /\ UNCHANGED <<card, dels, loaded, ok, sync, net, told, faults, cuts>>

\* What the server makes of a deletion and of an upload; both may come twice.
PutDeleted(id) ==
  IF \E it \in server : it.id = id /\ ~it.live
  THEN UNCHANGED net
  ELSE /\ server' = {it \in server : it.id # id} \cup
                    {[id |-> id, text |-> id.of, live |-> FALSE, rev |-> rev + 1]}
       /\ rev' = rev + 1
PutLive(r) ==
  IF \E it \in server : it.id = r.id
  THEN UNCHANGED net
  ELSE /\ server' = server \cup
                    {[id |-> r.id, text |-> r.text, live |-> TRUE, rev |-> rev + 1]}
       /\ rev' = rev + 1

Least(S) == CHOOSE n \in S : \A m \in S : n <= m

\* A deletion whose record is back in the store (its removal failed) is skipped.
ToDelete == {j \in DOMAIN journal : j > walk /\ journal[j] \notin IdsIn(ram)}

\* Mutant: the walk goes on after a deletion the server did not acknowledge.
SendDeletionOnce ==
  /\ pc = "delete"
  /\ ToDelete # {}
  /\ torn' = FALSE
  /\ \/ NoFault /\ PutDeleted(journal[Least(ToDelete)])
     \/ Fault /\ UNCHANGED net
  /\ walk' = Least(ToDelete)
  /\ UNCHANGED <<card, journal, mem, pc, call, ok, more, given, told, cuts>>

SendDeletion ==
  /\ pc = "delete"
  /\ ToDelete # {}
  /\ torn' = FALSE
  /\ \/ /\ NoFault
        /\ PutDeleted(journal[Least(ToDelete)])
        /\ walk' = Least(ToDelete)
        /\ UNCHANGED pc
     \/ /\ GiveUp
        /\ PutDeleted(journal[Least(ToDelete)]) \/ UNCHANGED net
        /\ UNCHANGED walk
  /\ UNCHANGED <<card, journal, mem, call, ok, more, given, told, cuts>>

\* The journal cannot be cut back to whole ids.
JournalUnreadable ==
  /\ pc = "delete"
  /\ journal # <<>> \/ torn
  /\ GiveUp
  /\ UNCHANGED <<card, dels, mem, call, ok, sync, given, net, told, cuts>>

FinishDeletions ==
  /\ pc = "delete"
  /\ ToDelete = {}
  /\ \/ /\ NoFault
        /\ journal' = <<>>
        /\ torn' = FALSE
        /\ walk' = 0
        /\ pc' = "upload"
     \/ /\ journal # <<>> \/ torn
        /\ GiveUp
        /\ torn' = FALSE
        /\ UNCHANGED <<journal, walk>>
  /\ UNCHANGED <<card, mem, call, ok, more, given, net, told, cuts>>

ToUpload == {i \in DOMAIN ram : i > walk /\ ram[i].pending}

\* The text is read through the record's place; a read may fail.
Upload ==
  /\ pc = "upload"
  /\ ToUpload # {}
  /\ LET r == [ram[Least(ToUpload)] EXCEPT !.text = TextOf(Least(ToUpload))]
     IN \/ /\ main # Absent
           /\ NoFault
           /\ PutLive(r)
           /\ walk' = Least(ToUpload)
           /\ UNCHANGED pc
        \/ /\ GiveUp
           /\ PutLive(r) \/ UNCHANGED net
           /\ UNCHANGED walk
  /\ UNCHANGED <<card, dels, mem, call, ok, more, given, told, cuts>>

UploadsDone ==
  /\ pc = "upload"
  /\ ToUpload = {}
  /\ walk' = 0
  /\ pc' = "finish"
  /\ UNCHANGED <<card, dels, mem, call, ok, more, given, net, told, faults, cuts>>

FinishUploads ==
  /\ pc = "finish"
  /\ ram' = [i \in DOMAIN ram |-> [ram[i] EXCEPT !.pending = FALSE]]
  /\ dirty' = (\E i \in DOMAIN ram : ram[i].pending)
  /\ IF dirty' THEN Call("uploads", ram', 0) ELSE pc' = "scan" /\ UNCHANGED call
  /\ UNCHANGED <<card, dels, loaded, ok, sync, given, net, told, faults, cuts>>

Unseen == {it.rev : it \in {it \in server : it.rev > walk}}

ScanFails ==
  /\ pc = "scan"
  /\ GiveUp
  /\ UNCHANGED <<card, dels, mem, call, ok, sync, given, net, told, cuts>>

NothingUnseen ==
  /\ pc = "scan"
  /\ Unseen = {}
  /\ pc' = "synced"
  /\ UNCHANGED <<card, dels, mem, call, ok, sync, given, net, told, faults, cuts>>

FromServer(it) == [text |-> it.text, id |-> it.id, pending |-> FALSE, rev |-> it.rev, at |-> 0]

\* One page holds one item; the answer says whether there are more.
ApplyRemote ==
  /\ pc = "scan"
  /\ \E it \in server :
       /\ Unseen # {}
       /\ it.rev = Least(Unseen)
       /\ more' = (Cardinality(Unseen) > 1)
       /\ LET next == IF more' THEN "scan" ELSE "synced"
              at   == {i \in DOMAIN ram : ram[i].id = it.id}
          IN \/ /\ at = {}
                /\ it.live
                /\ IF Len(ram) < Capacity
                   THEN /\ ram' = Append(ram, FromServer(it))
                        /\ Call("apply", ram, Len(ram) + 1)
                        /\ walk' = it.rev
                   ELSE pc' = "unload" /\ UNCHANGED <<ram, call, walk>>
                /\ UNCHANGED kept
             \/ /\ IF at = {} THEN ~it.live
                   ELSE it.live /\ \A i \in at : ram[i].rev = it.rev /\ ~ram[i].pending
                /\ walk' = it.rev
                /\ pc' = next
                /\ UNCHANGED <<ram, call, kept>>
             \/ \E i \in at :
                /\ ~it.live
                /\ ram' = RemoveAt(ram, i)
                /\ kept' = kept \ {ram[i].text}
                /\ Call("apply", ram, 0)
                /\ walk' = it.rev
             \/ \E i \in at :
                /\ it.live
                /\ ram[i].rev # it.rev \/ ram[i].pending
                /\ ram' = [ram EXCEPT ![i] = FromServer(it)]
                /\ Call("apply", ram, i)
                /\ walk' = it.rev
                /\ UNCHANGED kept
  /\ UNCHANGED <<card, dels, loaded, dirty, ok, given, net, gone, faults, cuts>>

\* run() is over: true is returned, and the store is unloaded.
Synced ==
  /\ pc = "synced"
  /\ pc' = "unload"
  /\ UNCHANGED <<card, dels, mem, call, ok, sync, given, net, told, faults, cuts>>

Run == \/ Probe \/ PrepareSync \/ SendDeletion \/ JournalUnreadable \/ FinishDeletions
       \/ Upload \/ UploadsDone \/ FinishUploads
       \/ ScanFails \/ NothingUnseen \/ ApplyRemote \/ Synced

-----------------------------------------------------------------------------
(* Other devices, and power *)

AddElsewhere(t) ==
  /\ rev < MaxRev
  /\ \A it \in server : it.text # t
  /\ server' = server \cup
       {[id |-> [of |-> t, n |-> 1], text |-> t, live |-> TRUE, rev |-> rev + 1]}

ChangeElsewhere(it) ==
  /\ rev < MaxRev
  /\ it.live
  /\ \E live \in BOOLEAN :
       server' = (server \ {it}) \cup {[it EXCEPT !.live = live, !.rev = rev + 1]}

Elsewhere ==
  /\ \/ \E t \in Others : AddElsewhere(t)
     \/ \E it \in server : ChangeElsewhere(it)
  /\ rev' = rev + 1
  /\ UNCHANGED <<card, dels, mem, pc, call, ok, sync, given, told, faults, cuts>>

\* What is on the card stays as it is; a file being written is cut short, and so is
\* an id being appended.
PowerCut ==
  /\ pc # "closed"
  /\ cuts < MaxCuts
  /\ cuts' = cuts + 1
  /\ Forget
  /\ tmp' = IF pc = "write" THEN Partial ELSE tmp
  /\ torn' \in {torn} \cup {pc = "reading" /\ (IdsIn(ram) \ {NoId} # {})}
  /\ UNCHANGED <<main, bak, journal, ok, given, net, told, faults>>

Next ==
  \/ OpenBook \/ StartSync \/ CloseBook \/ Unload
  \/ \E t \in Mine : AddClipping(t)
  \/ \E i \in 1..Len(ram) : RemoveClippingAt(i)
  \/ JournalFails
  \/ WriteToFile
  \/ Resumed
  \/ Run
  \/ Elsewhere
  \/ PowerCut

Spec == Init /\ [][Next]_vars

-----------------------------------------------------------------------------
(* Properties *)

StateOK ==
  /\ {main, bak} \subseteq Seq(Record) \cup {Absent}
  /\ tmp \in Seq(Record) \cup {Absent, Partial}
  /\ journal \in Seq(Ids)
  /\ {ram, undo} \subseteq Seq(InMemory)
  /\ pc \in Places
  /\ job \in Jobs
  /\ {repl, walk, rev, faults, cuts} \subseteq Nat
  /\ given \in [Texts -> Nat]
  /\ server \subseteq Item
  /\ {kept, gone} \subseteq SUBSET Texts

FlagsOK == {torn, loaded, dirty, ok, more} \subseteq BOOLEAN

TypeOK == StateOK /\ FlagsOK

\* A clipping the user was told is saved can be loaded again until it is removed,
\* here or elsewhere, wherever the writing of the store failed or was cut short
\* (ClippingStore::writeToFile, loadForBook).
NothingLost == \A t \in kept : \E i \in DOMAIN Stored : Stored[i].text = t

\* A record in memory finds its own text in the store, after a save that failed as
\* after one that moved every text; so what is at the server under an id is the text
\* that id was drawn for (the offsets of ClippingStore).
OwnText ==
  /\ pc # "tidy" =>
       \A i \in DOMAIN ram : i # repl =>
         /\ ram[i].at \in DOMAIN Stored
         /\ Stored[ram[i].at].text = ram[i].text
  /\ \A it \in server : it.text = it.id.of

\* A clipping the user was told is removed does not come back from the backup, from
\* a late save or from the server (removeClippingAt, nextDeletion, applyRemote).
NoGhosts == \A i \in DOMAIN Stored : Stored[i].text \notin gone

\* "Stable IDs are saved before upload" (file-formats.md): a clipping uploaded again,
\* after an answer was lost or power went, is still one clipping at the server.
NoTwins ==
  /\ \A it, other \in server : it.id.of = other.id.of => it = other
  /\ \A i, j \in DOMAIN Stored : Stored[i].id = Stored[j].id /\ Stored[i].id # NoId => i = j

\* When run() returns true, the store is what the server had at the last revision
\* read: its live items at their revisions, none of its deleted ones and nothing the
\* server has not got, whatever the other devices did meanwhile.
SyncConverges ==
  pc = "synced" =>
    /\ \A it \in server : it.rev <= walk =>
         IF it.live
         THEN \E i \in DOMAIN Stored :
                Stored[i] = [text |-> it.text, id |-> it.id, pending |-> FALSE, rev |-> it.rev]
         ELSE it.id \notin IdsIn(Stored)
    /\ \A i \in DOMAIN Stored : \E it \in server : it.id = Stored[i].id

\* The abstract file the store implements: a save is under way while writeToFile() is,
\* and what it writes is there from the second rename on.
NoSave == [new |-> Absent, done |-> FALSE]
saving ==
  IF pc \in {"room", "write", "park", "swap"} THEN [new |-> NewContent, done |-> FALSE]
  ELSE IF pc = "tidy" THEN [new |-> Stored, done |-> TRUE]
  ELSE NoSave

Store == INSTANCE AtomicFile WITH
  Contents <- Seq(Record), NoSave <- NoSave, content <- Stored, saving <- saving, told <- ok

\* A failed or interrupted save leaves the old clippings, and writeToFile() answers
\* true exactly when the new ones are there.
StoreIsAtomic == Store!Spec
=============================================================================
