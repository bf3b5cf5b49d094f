----------------------------- MODULE LibraryIndex -----------------------------
(* The index of the books on the card: how it is rebuilt and installed       *)
(* (buildLibraryIndex), what an interrupted install leaves behind, the       *)
(* marker that says a book arrived since (markLibraryIndexDirty), and the    *)
(* number that keeps a book's place in "Recently added" from one index to    *)
(* the next.  All of it runs on the main task, which holds the render lock   *)
(* while it builds.                                                          *)
EXTENDS Naturals, FiniteSets

CONSTANTS Paths,
          Books,
          SizeOf,        \* the size of each book's file
          None,          \* no book at a path
          Absent,        \* no such file
          Bad,           \* a file that does not validate: of another format, damaged or cut short
          Short,         \* a file too short for a header: reading it looks like a card error
          NoIndex,       \* nothing a reader could find
          Width,         \* firstSeen takes Width values; the last says "not resolved yet"
          MaxChanges,    \* bound: changes of the card
          MaxFaults,     \* bound: failing card operations and allocations
          MaxCuts        \* bound: power cuts and restarts

ASSUME WidthAssumption == Width \in Nat \ {0, 1}
ASSUME SizeAssumption  == SizeOf \in [Books -> Nat]
ASSUME PathsAssumption == IsFiniteSet(Paths) /\ None \notin Books \cup Paths

VARIABLES
  books,               \* what is on the card
  idx, bak, new,       \* library.idx, .bak and .new
  marker, dirtyInMemory,
  pc,                  \* where the main task is
  staged,              \* what the walk found
  skipped,             \* the paths it could not read
  arrived,             \* the path of the transfer that is about to mark the index
  ok,                  \* how the last install ended
  hit,                 \* something failed during this build
  marked,              \* paths whose transfer left a marker on the card
  changes, faults, cuts

files  == <<idx, bak, new>>
dirt   == <<marker, dirtyInMemory>>
walked == <<staged, skipped>>
bounds == <<changes, cuts>>
vars   == <<books, files, dirt, pc, walked, arrived, ok, hit, marked, bounds, faults>>

Unresolved == Width - 1
Seen  == 0 .. Width - 1
Entry == [path : Paths, size : Nat, seen : Seen]
Index == [entries : SUBSET Entry, next : Seen]
Empty == [entries |-> {}, next |-> 0]

ASSUME FilesAssumption ==
  /\ {Absent, Bad, Short, NoIndex} \cap Index = {}
  /\ Absent \notin {Bad, Short} /\ Bad # Short

Places == {"idle", "mark", "recover", "walk", "emit", "park", "swap", "tidy", "clear", "failed"}

Fault   == faults < MaxFaults /\ faults' = faults + 1 /\ hit' = TRUE
NoFault == UNCHANGED <<faults, hit>>

OnCard == {p \in Paths : books[p] # None}
PathsOf(entries) == {e.path : e \in entries}
Known(entries)   == {<<e.path, e.size>> : e \in entries}

\* What a reader finds, once an interrupted install is recovered.
Shelf == IF idx \in Index THEN idx ELSE IF bak \in Index THEN bak ELSE NoIndex

\* The card comes without an index, with an empty one, with one an older firmware wrote,
\* or with a damaged one.
Init ==
  /\ books \in [Paths -> Books \cup {None}]
  /\ idx \in {Absent, Bad, Short, Empty}
  /\ bak \in {Absent, Bad, Empty}
  /\ new = Absent
  /\ marker = FALSE /\ dirtyInMemory = FALSE
  /\ pc = "idle"
  /\ staged = Empty /\ skipped = {} /\ arrived = None
  /\ ok = FALSE /\ hit = FALSE
  /\ marked = {}
  /\ changes = 0 /\ faults = 0 /\ cuts = 0

-----------------------------------------------------------------------------
(* The card *)

Change == pc = "idle" /\ changes < MaxChanges /\ changes' = changes + 1

\* A book arrives over the network; the index is marked next.
Transfer(p, b) ==
  /\ Change
  /\ books' = [books EXCEPT ![p] = b]
  /\ arrived' = p
  /\ pc' = "mark"
  /\ UNCHANGED <<files, dirt, walked, ok, hit, marked, cuts, faults>>

MarkLibraryIndexDirty ==
  /\ pc = "mark"
  /\ \/ /\ NoFault
        /\ marker' = TRUE
        /\ marked' = marked \cup {arrived}
        /\ UNCHANGED dirtyInMemory
     \/ /\ ~marker
        /\ Fault
        /\ dirtyInMemory' = TRUE
        /\ UNCHANGED <<marker, marked>>
  /\ pc' = "idle"
  /\ arrived' = None
  /\ UNCHANGED <<books, files, walked, ok, bounds>>

\* The file browser, a computer or a transfer that does not mark the index.
Rename(p, q) ==
  /\ Change
  /\ books[p] # None /\ books[q] = None
  /\ books' = [books EXCEPT ![p] = None, ![q] = books[p]]
  /\ marked' = marked \ {p}
  /\ UNCHANGED <<files, dirt, pc, walked, arrived, ok, hit, cuts, faults>>

Put(p, b) ==
  /\ Change
  /\ books[p] # b
  /\ books' = [books EXCEPT ![p] = b]
  /\ marked' = IF b = None THEN marked \ {p} ELSE marked
  /\ UNCHANGED <<files, dirt, pc, walked, arrived, ok, hit, cuts, faults>>

-----------------------------------------------------------------------------
(* buildLibraryIndex() *)

\* The Library is opened with a stale or missing index, the home screen with a missing
\* one, or the user asks for a rebuild.
StartBuild ==
  /\ pc = "idle"
  /\ pc' = "recover"
  /\ hit' = FALSE
  /\ UNCHANGED <<books, files, dirt, walked, arrived, ok, marked, bounds, faults>>

Fail == pc' = "failed"

\* Mutant: of two valid files neither is thrown away.
RecoverRefuses ==
  /\ pc = "recover"
  /\ NoFault
  /\ \/ {idx, bak} \subseteq Index /\ Fail /\ UNCHANGED <<idx, bak>>
     \/ ~({idx, bak} \subseteq Index) /\ pc' = "walk" /\ bak' = Absent
        /\ idx' = IF idx \in Index THEN idx ELSE bak
  /\ UNCHANGED <<books, new, dirt, walked, arrived, ok, marked, bounds>>

\* recoverInterruptedInstall(): what to do about a backup, by what validates.
Recover ==
  /\ pc = "recover"
  /\ \/ /\ bak = Absent
        /\ NoFault /\ pc' = "walk" /\ UNCHANGED <<idx, bak>>
     \/ /\ bak # Absent /\ idx = Absent
        /\ \/ NoFault /\ pc' = "walk" /\ idx' = bak /\ bak' = Absent
           \/ Fault /\ Fail /\ UNCHANGED <<idx, bak>>
     \/ /\ bak # Absent /\ idx \in Index
        /\ \/ NoFault /\ pc' = "walk" /\ bak' = Absent
           \/ Fault /\ Fail /\ UNCHANGED bak
        /\ UNCHANGED idx
     \/ /\ bak # Absent /\ idx = Short
        /\ NoFault /\ Fail /\ UNCHANGED <<idx, bak>>
     \/ /\ bak \in Index /\ idx = Bad
        /\ \/ NoFault /\ pc' = "walk" /\ idx' = bak /\ bak' = Absent
           \/ Fault /\ Fail /\ idx' \in {idx, Absent} /\ UNCHANGED bak
     \/ /\ bak = Bad /\ idx = Bad
        /\ \/ NoFault /\ pc' = "walk" /\ bak' = Absent
           \/ Fault /\ Fail /\ UNCHANGED bak
        /\ UNCHANGED idx
  /\ UNCHANGED <<books, new, dirt, walked, arrived, ok, marked, bounds>>

\* Mutant: the counter is taken to be the number of books.
PriorCounted ==
  IF idx \in Index THEN [idx EXCEPT !.next = Cardinality(idx.entries)] ELSE Empty

\* What the previous index knows; one of another format is as good as none.
Prior == IF idx \in Index THEN idx ELSE Empty

\* Entries of books that moved take the number of an entry nobody claims, by size.
Matchings(fresh, left) ==
  {m \in UNION {[D -> left] : D \in SUBSET fresh} :
     /\ \A p, q \in DOMAIN m : m[p] = m[q] => p = q
     /\ \A p \in DOMAIN m : m[p].size = SizeOf[books[p]]
     /\ \A p \in fresh \ DOMAIN m, e \in left \ {m[q] : q \in DOMAIN m} :
          e.size # SizeOf[books[p]]}

Numberings(S) ==
  {r \in [S -> 0 .. Cardinality(S) - 1] : \A p, q \in S : r[p] = r[q] => p = q}

EntryOf(p, seen) == [path |-> p, size |-> SizeOf[books[p]], seen |-> seen]

\* The walk over the paths `found`, and the second pass over what it left unresolved.
Reconciled(found) ==
  LET same  == {e \in Prior.entries : e.path \in found}
      known == {e \in same : e.seen # Unresolved}
      fresh == found \ PathsOf(known)
  IN UNION {{[entries |-> {EntryOf(e.path, e.seen) : e \in known}
                            \cup {EntryOf(p, m[p].seen) : p \in DOMAIN m}
                            \cup {EntryOf(p, (Prior.next + r[p]) % Width) : p \in DOMAIN r},
              next |-> (Prior.next + Cardinality(fresh \ DOMAIN m)) % Width] :
             r \in Numberings(fresh \ DOMAIN m)} :
            m \in Matchings(fresh, Prior.entries \ same)}

\* Mutant: an index of as many books is taken for the same.
WalkCounts ==
  /\ pc = "walk"
  /\ idx # Short
  /\ skipped' = {}
  /\ NoFault
  /\ staged' \in Reconciled(OnCard)
  /\ pc' = IF idx \in Index /\ Cardinality(idx.entries) = Cardinality(staged'.entries)
           THEN "clear" ELSE "emit"
  /\ UNCHANGED <<books, files, dirt, arrived, ok, marked, bounds>>

\* Entries that cannot be read, and folders that cannot be opened, are passed over.
\* An index that knows the same files already may be left alone.
Walk ==
  /\ pc = "walk"
  /\ idx # Short
  /\ skipped' \in SUBSET OnCard
  /\ IF skipped' = {} THEN NoFault ELSE Fault
  /\ staged' \in Reconciled(OnCard \ skipped')
  /\ \/ pc' = "emit"
     \/ pc' = "clear" /\ idx \in Index
        /\ Known(idx.entries) = Known(staged'.entries)
  /\ UNCHANGED <<books, files, dirt, arrived, ok, marked, bounds>>

\* The previous index cannot be read, or there is no memory, or staging fails.
WalkFails ==
  /\ pc = "walk"
  /\ IF idx = Short THEN NoFault ELSE Fault
  /\ Fail
  /\ UNCHANGED <<books, files, dirt, walked, arrived, ok, marked, bounds>>

Emit ==
  /\ pc = "emit"
  /\ \/ NoFault /\ new' = staged /\ pc' = "park" /\ UNCHANGED ok
     \/ Fault /\ new' \in {Absent, Bad} /\ Fail /\ ok' = FALSE
  /\ UNCHANGED <<books, idx, bak, dirt, walked, arrived, marked, bounds>>

\* Mutant: the previous index is removed to make room.
ParkRemoves ==
  /\ pc = "park"
  /\ NoFault
  /\ idx' = Absent
  /\ pc' = "swap"
  /\ UNCHANGED <<books, bak, new, dirt, walked, arrived, ok, marked, bounds>>

\* installNewIndex(): recovery has left no backup.
Park ==
  /\ pc = "park"
  /\ \/ NoFault /\ bak' = idx /\ idx' = Absent /\ pc' = "swap" /\ UNCHANGED <<new, ok>>
     \/ idx # Absent /\ Fault /\ new' = Absent /\ Fail /\ ok' = FALSE /\ UNCHANGED <<idx, bak>>
  /\ UNCHANGED <<books, dirt, walked, arrived, marked, bounds>>

Swap ==
  /\ pc = "swap"
  /\ NoFault
  /\ idx' = new
  /\ new' = Absent
  /\ marked' = IF marker THEN marked ELSE marked \ skipped
  /\ pc' = "tidy"
  /\ UNCHANGED <<books, bak, dirt, walked, arrived, ok, bounds>>

\* The previous index is put back, if that works.
SwapFails ==
  /\ pc = "swap"
  /\ Fault
  /\ \/ idx' = bak /\ bak' = Absent
     \/ bak # Absent /\ UNCHANGED <<idx, bak>>
  /\ new' = Absent
  /\ ok' = FALSE
  /\ Fail
  /\ UNCHANGED <<books, dirt, walked, arrived, marked, bounds>>

Tidy ==
  /\ pc = "tidy"
  /\ \/ NoFault /\ bak' = Absent
     \/ bak # Absent /\ Fault /\ UNCHANGED bak
  /\ ok' = TRUE
  /\ pc' = "clear"
  /\ UNCHANGED <<books, idx, new, dirt, walked, arrived, marked, bounds>>

\* A book the build passed over is forgotten with the marker.
ClearLibraryIndexDirty ==
  /\ pc = "clear"
  /\ dirtyInMemory' = FALSE
  /\ \/ NoFault /\ marker' = FALSE /\ marked' = marked \ skipped
     \/ marker /\ Fault /\ UNCHANGED <<marker, marked>>
  /\ pc' = "idle"
  /\ staged' = Empty /\ skipped' = {}
  /\ UNCHANGED <<books, files, arrived, ok, bounds>>

\* Mutant: a build that failed is not tried again.
FailedClears ==
  /\ pc = "failed"
  /\ pc' = "idle"
  /\ dirtyInMemory' = FALSE /\ marker' = FALSE
  /\ staged' = Empty /\ skipped' = {}
  /\ UNCHANGED <<books, files, arrived, ok, hit, marked, bounds, faults>>

Failed ==
  /\ pc = "failed"
  /\ pc' = "idle"
  /\ staged' = Empty /\ skipped' = {}
  /\ UNCHANGED <<books, files, dirt, arrived, ok, hit, marked, bounds, faults>>

Build == \/ StartBuild \/ Recover \/ Walk \/ WalkFails \/ Emit \/ Park \/ Swap \/ SwapFails
         \/ Tidy \/ ClearLibraryIndexDirty \/ Failed

\* Power goes, or the device restarts: what is in memory is gone, a file being
\* written is cut short.
Restart ==
  /\ cuts < MaxCuts
  /\ cuts' = cuts + 1
  /\ dirtyInMemory' = FALSE
  /\ new' = IF pc = "emit" THEN Bad ELSE new
  /\ pc' = "idle"
  /\ staged' = Empty /\ skipped' = {} /\ arrived' = None
  /\ UNCHANGED <<books, idx, bak, marker, ok, hit, marked, changes, faults>>

Next ==
  \/ \E p \in Paths, b \in Books : Transfer(p, b)
  \/ MarkLibraryIndexDirty
  \/ \E p, q \in Paths : Rename(p, q)
  \/ \E p \in Paths, b \in Books \cup {None} : Put(p, b)
  \/ Build
  \/ Restart

Spec == Init /\ [][Next]_vars

-----------------------------------------------------------------------------
(* Properties *)

StateOK ==
  /\ books \in [Paths -> Books \cup {None}]
  /\ idx \in Index \cup {Absent, Bad, Short}
  /\ bak \in Index \cup {Absent, Bad}
  /\ new \in Index \cup {Absent, Bad}
  /\ pc \in Places
  /\ staged \in Index
  /\ skipped \subseteq Paths
  /\ arrived \in Paths \cup {None}
  /\ marked \subseteq Paths
  /\ {changes, faults, cuts} \subseteq Nat

FlagsOK == {marker, dirtyInMemory, ok, hit} \subseteq BOOLEAN

TypeOK == StateOK /\ FlagsOK

\* A build that found the card in order ends with an index of every book it could
\* read and of nothing else (walk, emitIndex, the unchanged short cut).
BuildShowsCard ==
  pc = "clear" => Shelf # NoIndex /\ PathsOf(Shelf.entries) = OnCard \ skipped

\* "marks the Library index stale, so the book appears the next time the Library
\* opens" (webserver-endpoints.md): a marker on the card outlives every build that
\* has not put the book on the shelf.
MarkedIsShelved ==
  \A p \in marked : marker \/ (Shelf # NoIndex /\ p \in PathsOf(Shelf.entries))

\* Whatever an interrupted or failed install has left behind, the next build in which
\* nothing fails is not refused (recoverInterruptedInstall, installNewIndex).
NeverStuck == pc = "failed" => hit \/ Short \in {idx, bak}

\* "Added keeps books in the order in which the Library first discovered them"
\* (USER_GUIDE.md): a book that stays where it is keeps its number, one that is found
\* elsewhere may take the number of one that is gone, and a new one gets a number no
\* book ever had, while fewer than Width - 1 books have been discovered.
ArrivalOrder == [][
  Shelf' # Shelf /\ NoIndex \notin {Shelf, Shelf'} =>
    /\ Shelf'.next >= Shelf.next
    /\ \A e, f \in Shelf'.entries : e.seen = f.seen => e = f
    /\ \A f \in Shelf'.entries :
         \/ f.seen >= Shelf.next
         \/ \E e \in Shelf.entries :
              e.seen = f.seen /\ (e.path = f.path \/ (e.path \notin OnCard \ skipped /\ e.size = f.size))
    /\ \A e \in Shelf.entries, f \in Shelf'.entries : e.path = f.path => e.seen = f.seen]_vars

NoSave == [new |-> NoIndex, done |-> FALSE]
saving ==
  IF pc \in {"emit", "park", "swap"} THEN [new |-> staged, done |-> FALSE]
  ELSE IF pc = "tidy" THEN [new |-> staged, done |-> TRUE]
  ELSE NoSave

Store == INSTANCE AtomicFile WITH
  Contents <- Index \cup {NoIndex}, NoSave <- NoSave,
  content <- Shelf, saving <- saving, told <- ok

\* "Install is write-then-rename, so an interrupted build leaves the previous index
\* untouched rather than a half-written one" (LibraryBuilder.h).
IndexIsAtomic == Store!Spec
=============================================================================
