-------------------------- MODULE LibraryIndexProofs --------------------------
(* Proofs about LibraryIndex: its types, what a build leaves on the shelf,   *)
(* that no build is blocked by what an earlier one left, that the three      *)
(* files together implement one atomic file, and that books keep the order   *)
(* they were discovered in while there are numbers for new ones.             *)
EXTENDS LibraryIndex, FiniteSetTheorems, TLAPS

\* How far the files are at each place of a build.
Installing ==
  /\ pc = "mark" => arrived \in Paths
  /\ pc \in {"walk", "emit", "park"} => bak = Absent
  /\ pc \in {"emit", "park"} => idx # Short
  /\ pc \in {"park", "swap"} => new = staged
  /\ pc = "swap" => idx = Absent
  /\ pc = "tidy" => idx = staged

\* What was walked, and who is about to mark the index.
Walked ==
  /\ pc \in {"emit", "park", "swap", "tidy"} => PathsOf(staged.entries) = OnCard \ skipped
  /\ marked \subseteq OnCard
  /\ pc = "mark" => arrived \in OnCard

Base == TypeOK /\ Installing
Inv  == Base /\ NeverStuck /\ Walked /\ BuildShowsCard /\ MarkedIsShelved

-----------------------------------------------------------------------------
(* What reconciliation returns *)

LEMMA EntryIsEntry ==
  ASSUME books \in [Paths -> Books \cup {None}], NEW p \in OnCard, NEW s \in Seen
  PROVE  EntryOf(p, s) \in Entry /\ EntryOf(p, s).path = p
BY SizeAssumption DEF OnCard, EntryOf, Entry

LEMMA ModSeen ==
  ASSUME NEW k \in Nat
  PROVE  k % Width \in Seen
BY WidthAssumption DEF Seen

LEMMA PriorIsIndex == ASSUME StateOK PROVE Prior \in Index
BY WidthAssumption DEF StateOK, Prior, Index, Empty, Seen

LEMMA ReconciledIndex ==
  ASSUME StateOK, NEW found \in SUBSET OnCard, NEW s \in Reconciled(found)
  PROVE  s \in Index /\ PathsOf(s.entries) = found
<1> DEFINE same  == {e \in Prior.entries : e.path \in found}
           known == {e \in same : e.seen # Unresolved}
           fresh == found \ PathsOf(known)
           As == {EntryOf(e.path, e.seen) : e \in known}
           Bs(m) == {EntryOf(p, m[p].seen) : p \in DOMAIN m}
           Cs(r) == {EntryOf(p, (Prior.next + r[p]) % Width) : p \in DOMAIN r}
           Result(m, r) == [entries |-> As \cup Bs(m) \cup Cs(r),
                            next |-> (Prior.next + Cardinality(fresh \ DOMAIN m)) % Width]
<1>0. Prior.entries \in SUBSET Entry /\ Prior.next \in Nat
  BY PriorIsIndex, WidthAssumption DEF Index, Seen
<1>1. Reconciled(found) = UNION {{Result(m, r) : r \in Numberings(fresh \ DOMAIN m)} :
                                  m \in Matchings(fresh, Prior.entries \ same)}
  BY DEF Reconciled
<1>2. PICK m \in Matchings(fresh, Prior.entries \ same) :
        s \in {Result(m, r) : r \in Numberings(fresh \ DOMAIN m)}
  BY <1>1
<1>3. PICK r \in Numberings(fresh \ DOMAIN m) : s = Result(m, r)
  BY <1>2
<1>4. PICK D \in SUBSET fresh : m \in [D -> Prior.entries \ same]
  BY <1>2 DEF Matchings
<1>5. DOMAIN m = D /\ \A p \in D : m[p].seen \in Seen
  BY <1>0, <1>4 DEF Entry
<1>6. fresh \subseteq Paths /\ fresh \subseteq OnCard
  BY DEF OnCard
<1>7. IsFiniteSet(fresh \ D)
  BY <1>6, PathsAssumption, FS_Subset
<1>8. Cardinality(fresh \ D) \in Nat
  BY <1>7, FS_CardinalityType
<1>9. DOMAIN r = fresh \ D /\ \A p \in fresh \ D : r[p] \in Nat
  <2>1. r \in Numberings(fresh \ D)
    BY <1>3, <1>5
  <2> HIDE DEF fresh
  <2>2. r \in [fresh \ D -> 0 .. Cardinality(fresh \ D) - 1]
    BY <2>1 DEF Numberings
  <2>3. \A p \in fresh \ D : r[p] \in 0 .. Cardinality(fresh \ D) - 1
    BY <2>2
  <2> QED
    BY <1>8, <2>2, <2>3
<1>10. books \in [Paths -> Books \cup {None}]
  BY DEF StateOK
<1>11. \A e \in known : e.path \in OnCard /\ e.seen \in Seen
  BY <1>0 DEF Entry
<1>12. \A x \in As : x \in Entry
  BY <1>10, <1>11, EntryIsEntry
<1>13. \A x \in Bs(m) : x \in Entry
  <2>1. \A p \in D : p \in OnCard
    BY <1>4, <1>6
  <2>2. \A p \in D : EntryOf(p, m[p].seen) \in Entry
    BY <1>5, <1>10, <2>1, EntryIsEntry
  <2> QED
    BY <1>5, <2>2
<1>14. \A p \in fresh \ D : (Prior.next + r[p]) % Width \in Seen
  <2> TAKE p \in fresh \ D
  <2>1. Prior.next + r[p] \in Nat
    BY <1>0, <1>9
  <2> QED
    BY <2>1, ModSeen
<1>15. \A x \in Cs(r) : x \in Entry
  BY <1>6, <1>9, <1>10, <1>14, EntryIsEntry
<1>16. (Prior.next + Cardinality(fresh \ D)) % Width \in Seen
  BY <1>0, <1>8, ModSeen
<1>17. s.entries = As \cup Bs(m) \cup Cs(r) /\ s.next \in Seen
       /\ s = [entries |-> s.entries, next |-> s.next]
  BY <1>3, <1>5, <1>16
<1>18. s \in Index
  <2>1. s.entries \in SUBSET Entry
    BY <1>12, <1>13, <1>15, <1>17
  <2> QED
    BY <1>17, <2>1 DEF Index
<1>19. PathsOf(As) = PathsOf(known)
  <2>1. \A e \in known : EntryOf(e.path, e.seen).path = e.path
    BY <1>10, <1>11, EntryIsEntry
  <2> QED
    BY <2>1 DEF PathsOf
<1>20. PathsOf(Bs(m)) = D
  <2>1. \A p \in D : EntryOf(p, m[p].seen).path = p
    BY <1>5, <1>6, <1>10, EntryIsEntry
  <2> QED
    BY <1>5, <2>1 DEF PathsOf
<1>21. PathsOf(Cs(r)) = fresh \ D
  <2>1. \A p \in fresh \ D : EntryOf(p, (Prior.next + r[p]) % Width).path = p
    BY <1>6, <1>10, <1>14, EntryIsEntry
  <2> QED
    BY <1>9, <2>1 DEF PathsOf
<1>22. PathsOf(known) \subseteq found
  BY DEF PathsOf
<1> HIDE DEF As, Bs, Cs, fresh
<1>23. PathsOf(s.entries) = PathsOf(As) \cup PathsOf(Bs(m)) \cup PathsOf(Cs(r))
  BY <1>17 DEF PathsOf
<1>24. PathsOf(s.entries) = PathsOf(known) \cup fresh
  BY <1>4, <1>19, <1>20, <1>21, <1>23
<1> QED
  BY <1>18, <1>22, <1>24 DEF fresh

LEMMA KnownPaths ==
  ASSUME NEW a \in SUBSET Entry, NEW b \in SUBSET Entry, Known(a) = Known(b)
  PROVE  PathsOf(a) = PathsOf(b)
<1>1. \A c, d \in SUBSET Entry : Known(c) = Known(d) => PathsOf(c) \subseteq PathsOf(d)
  <2> SUFFICES ASSUME NEW c \in SUBSET Entry, NEW d \in SUBSET Entry, Known(c) = Known(d),
                      NEW e \in c
               PROVE  e.path \in PathsOf(d)
    BY DEF PathsOf
  <2>1. <<e.path, e.size>> \in Known(d)
    BY DEF Known
  <2>2. PICK f \in d : <<e.path, e.size>> = <<f.path, f.size>>
    BY <2>1 DEF Known
  <2> QED
    BY <2>2 DEF PathsOf
<1> QED
  BY <1>1

-----------------------------------------------------------------------------
(* Types and places *)

LEMMA BaseInit == Init => Base
<1> SUFFICES ASSUME Init PROVE Base
  OBVIOUS
<1>1. Empty \in Index
  BY WidthAssumption DEF Empty, Index, Seen
<1>2. StateOK
  BY <1>1 DEF Init, StateOK, Places
<1>3. FlagsOK
  BY DEF Init, FlagsOK
<1>4. Installing
  BY DEF Init, Installing
<1> QED
  BY <1>2, <1>3, <1>4 DEF Base, TypeOK

LEMMA BaseStep == ASSUME Base, [Next]_vars PROVE Base'
<1>s. StateOK /\ FlagsOK /\ Installing
  BY DEF Base, TypeOK
<1>e. Empty \in Index
  BY WidthAssumption DEF Empty, Index, Seen
<1>f. \A x \in Index : x \notin {Absent, Bad, Short, NoIndex}
  BY FilesAssumption
<1>1. ASSUME NEW p \in Paths, NEW b \in Books, Transfer(p, b) PROVE Base'
  <2>1. StateOK'
    BY <1>s, <1>1 DEF Transfer, Change, StateOK, Places, files, walked, bounds
  <2>2. FlagsOK'
    BY <1>s, <1>1 DEF Transfer, Change, FlagsOK, dirt, Fault, NoFault
  <2>3. Installing'
    BY <1>s, <1>1 DEF Transfer, Change, Installing, files, walked
  <2> QED
    BY <2>1, <2>2, <2>3 DEF Base, TypeOK
<1>2. ASSUME NEW p \in Paths, NEW q \in Paths, Rename(p, q) PROVE Base'
  <2>1. StateOK'
    BY <1>s, <1>2 DEF Rename, Change, StateOK, Places, files, walked, bounds
  <2>2. FlagsOK'
    BY <1>s, <1>2 DEF Rename, Change, FlagsOK, dirt, Fault, NoFault
  <2>3. Installing'
    BY <1>s, <1>2 DEF Rename, Change, Installing, files, walked
  <2> QED
    BY <2>1, <2>2, <2>3 DEF Base, TypeOK
<1>3. ASSUME NEW p \in Paths, NEW b \in Books \cup {None}, Put(p, b) PROVE Base'
  <2>1. StateOK'
    BY <1>s, <1>3 DEF Put, Change, StateOK, Places, files, walked, bounds
  <2>2. FlagsOK'
    BY <1>s, <1>3 DEF Put, Change, FlagsOK, dirt, Fault, NoFault
  <2>3. Installing'
    BY <1>s, <1>3 DEF Put, Change, Installing, files, walked
  <2> QED
    BY <2>1, <2>2, <2>3 DEF Base, TypeOK
<1>4. CASE MarkLibraryIndexDirty
  <2>1. StateOK'
    BY <1>s, <1>4, <1>e DEF MarkLibraryIndexDirty, StateOK, Installing, Places, Fault, NoFault, files, walked, bounds
  <2>2. FlagsOK'
    BY <1>s, <1>4 DEF MarkLibraryIndexDirty, FlagsOK, dirt, Fault, NoFault
  <2>3. Installing'
    BY <1>s, <1>4, <1>f, FilesAssumption DEF MarkLibraryIndexDirty, StateOK, Installing, files, walked
  <2> QED
    BY <2>1, <2>2, <2>3 DEF Base, TypeOK
<1>5. CASE StartBuild
  <2>1. StateOK'
    BY <1>s, <1>5, <1>e DEF StartBuild, StateOK, Installing, Places, Fault, NoFault, files, walked, bounds
  <2>2. FlagsOK'
    BY <1>s, <1>5 DEF StartBuild, FlagsOK, dirt, Fault, NoFault
  <2>3. Installing'
    BY <1>s, <1>5, <1>f, FilesAssumption DEF StartBuild, StateOK, Installing, files, walked
  <2> QED
    BY <2>1, <2>2, <2>3 DEF Base, TypeOK
<1>6. CASE Recover
  <2>1. StateOK'
    BY <1>s, <1>6, <1>e DEF Recover, Fail, StateOK, Installing, Places, Fault, NoFault, files, walked, bounds
  <2>2. FlagsOK'
    BY <1>s, <1>6 DEF Recover, Fail, FlagsOK, dirt, Fault, NoFault
  <2>3. Installing'
    BY <1>s, <1>6, <1>f, FilesAssumption DEF Recover, Fail, StateOK, Installing, files, walked
  <2> QED
    BY <2>1, <2>2, <2>3 DEF Base, TypeOK
<1>7. CASE WalkFails
  <2>1. StateOK'
    BY <1>s, <1>7, <1>e DEF WalkFails, Fail, StateOK, Installing, Places, Fault, NoFault, files, walked, bounds
  <2>2. FlagsOK'
    BY <1>s, <1>7 DEF WalkFails, Fail, FlagsOK, dirt, Fault, NoFault
  <2>3. Installing'
    BY <1>s, <1>7, <1>f, FilesAssumption DEF WalkFails, Fail, StateOK, Installing, files, walked
  <2> QED
    BY <2>1, <2>2, <2>3 DEF Base, TypeOK
<1>8. CASE Emit
  <2>1. StateOK'
    BY <1>s, <1>8, <1>e DEF Emit, Fail, StateOK, Installing, Places, Fault, NoFault, files, walked, bounds
  <2>2. FlagsOK'
    BY <1>s, <1>8 DEF Emit, Fail, FlagsOK, dirt, Fault, NoFault
  <2>3. Installing'
    BY <1>s, <1>8, <1>f, FilesAssumption DEF Emit, Fail, StateOK, Installing, files, walked
  <2> QED
    BY <2>1, <2>2, <2>3 DEF Base, TypeOK
<1>9. CASE Park
  <2>1. StateOK'
    BY <1>s, <1>9, <1>e DEF Park, Fail, StateOK, Installing, Places, Fault, NoFault, files, walked, bounds
  <2>2. FlagsOK'
    BY <1>s, <1>9 DEF Park, Fail, FlagsOK, dirt, Fault, NoFault
  <2>3. Installing'
    BY <1>s, <1>9, <1>f, FilesAssumption DEF Park, Fail, StateOK, Installing, files, walked
  <2> QED
    BY <2>1, <2>2, <2>3 DEF Base, TypeOK
<1>10. CASE Swap
  <2>1. StateOK'
    BY <1>s, <1>10, <1>e DEF Swap, StateOK, Installing, Places, Fault, NoFault, files, walked, bounds
  <2>2. FlagsOK'
    BY <1>s, <1>10 DEF Swap, FlagsOK, dirt, Fault, NoFault
  <2>3. Installing'
    BY <1>s, <1>10, <1>f, FilesAssumption DEF Swap, StateOK, Installing, files, walked
  <2> QED
    BY <2>1, <2>2, <2>3 DEF Base, TypeOK
<1>11. CASE SwapFails
  <2>1. StateOK'
    BY <1>s, <1>11, <1>e DEF SwapFails, Fail, StateOK, Installing, Places, Fault, NoFault, files, walked, bounds
  <2>2. FlagsOK'
    BY <1>s, <1>11 DEF SwapFails, Fail, FlagsOK, dirt, Fault, NoFault
  <2>3. Installing'
    BY <1>s, <1>11, <1>f, FilesAssumption DEF SwapFails, Fail, StateOK, Installing, files, walked
  <2> QED
    BY <2>1, <2>2, <2>3 DEF Base, TypeOK
<1>12. CASE Tidy
  <2>1. StateOK'
    BY <1>s, <1>12, <1>e DEF Tidy, StateOK, Installing, Places, Fault, NoFault, files, walked, bounds
  <2>2. FlagsOK'
    BY <1>s, <1>12 DEF Tidy, FlagsOK, dirt, Fault, NoFault
  <2>3. Installing'
    BY <1>s, <1>12, <1>f, FilesAssumption DEF Tidy, StateOK, Installing, files, walked
  <2> QED
    BY <2>1, <2>2, <2>3 DEF Base, TypeOK
<1>13. CASE ClearLibraryIndexDirty
  <2>1. StateOK'
    BY <1>s, <1>13, <1>e DEF ClearLibraryIndexDirty, StateOK, Installing, Places, Fault, NoFault, files, walked, bounds
  <2>2. FlagsOK'
    BY <1>s, <1>13 DEF ClearLibraryIndexDirty, FlagsOK, dirt, Fault, NoFault
  <2>3. Installing'
    BY <1>s, <1>13, <1>f, FilesAssumption DEF ClearLibraryIndexDirty, StateOK, Installing, files, walked
  <2> QED
    BY <2>1, <2>2, <2>3 DEF Base, TypeOK
<1>14. CASE Failed
  <2>1. StateOK'
    BY <1>s, <1>14, <1>e DEF Failed, StateOK, Installing, Places, Fault, NoFault, files, walked, bounds
  <2>2. FlagsOK'
    BY <1>s, <1>14 DEF Failed, FlagsOK, dirt, Fault, NoFault
  <2>3. Installing'
    BY <1>s, <1>14, <1>f, FilesAssumption DEF Failed, StateOK, Installing, files, walked
  <2> QED
    BY <2>1, <2>2, <2>3 DEF Base, TypeOK
<1>15. CASE Restart
  <2>1. StateOK'
    BY <1>s, <1>15, <1>e DEF Restart, StateOK, Installing, Places, Fault, NoFault, files, walked, bounds
  <2>2. FlagsOK'
    BY <1>s, <1>15 DEF Restart, FlagsOK, dirt, Fault, NoFault
  <2>3. Installing'
    BY <1>s, <1>15, <1>f, FilesAssumption DEF Restart, StateOK, Installing, files, walked
  <2> QED
    BY <2>1, <2>2, <2>3 DEF Base, TypeOK
<1>16. CASE Walk
  <2>0. PICK found \in SUBSET OnCard : staged' \in Reconciled(found)
    BY <1>16 DEF Walk
  <2>a. staged' \in Index
    BY <1>s, <2>0, ReconciledIndex
  <2>b. skipped' \subseteq Paths
    BY <1>16 DEF Walk, OnCard
  <2>1. StateOK'
    BY <1>s, <1>16, <2>a, <2>b DEF Walk, StateOK, Places, Fault, NoFault, files, bounds
  <2>2. FlagsOK'
    BY <1>s, <1>16 DEF Walk, FlagsOK, dirt, Fault, NoFault
  <2>3. Installing'
    BY <1>s, <1>16 DEF Walk, Installing, files
  <2> QED
    BY <2>1, <2>2, <2>3 DEF Base, TypeOK
<1>17. CASE UNCHANGED vars
  <2>1. StateOK'
    BY <1>s, <1>17 DEF vars, files, walked, bounds, StateOK
  <2>2. FlagsOK'
    BY <1>s, <1>17 DEF vars, dirt, FlagsOK
  <2>3. Installing'
    BY <1>s, <1>17 DEF vars, files, walked, Installing
  <2> QED
    BY <2>1, <2>2, <2>3 DEF Base, TypeOK
<1> QED
  BY <1>1, <1>2, <1>3, <1>4, <1>5, <1>6, <1>7, <1>8, <1>9, <1>10, <1>11, <1>12, <1>13, <1>14, <1>15, <1>16, <1>17 DEF Next, Build

-----------------------------------------------------------------------------
(* The shelf *)

LEMMA InvInit == Init => Inv
<1> SUFFICES ASSUME Init PROVE Inv
  OBVIOUS
<1>1. Base
  BY BaseInit
<1>2. NeverStuck /\ Walked /\ BuildShowsCard /\ MarkedIsShelved
  BY DEF Init, NeverStuck, Walked, BuildShowsCard, MarkedIsShelved
<1> QED
  BY <1>1, <1>2 DEF Inv

LEMMA StuckStep == ASSUME Base, NeverStuck, [Next]_vars PROVE NeverStuck'
<1> USE DEF NeverStuck
<1>s. Installing
  BY DEF Base
<1>1. CASE Recover
  BY <1>1 DEF Recover, Fail, Fault, NoFault
<1>2. CASE WalkFails
  BY <1>2 DEF WalkFails, Fail, Fault, NoFault, files
<1>3. CASE Emit
  BY <1>3 DEF Emit, Fail, Fault, NoFault
<1>4. CASE Park
  BY <1>4 DEF Park, Fail, Fault, NoFault
<1>5. CASE SwapFails
  BY <1>5 DEF SwapFails, Fail, Fault, NoFault
<1>6. CASE \/ \E p \in Paths, b \in Books : Transfer(p, b)
           \/ MarkLibraryIndexDirty \/ StartBuild \/ Walk \/ Swap \/ Tidy
           \/ ClearLibraryIndexDirty \/ Failed \/ Restart
  <2>1. pc' # "failed"
    BY <1>6 DEF Transfer, MarkLibraryIndexDirty, StartBuild, Walk, Swap, Tidy,
                ClearLibraryIndexDirty, Failed, Restart
  <2> QED
    BY <2>1
<1>7. CASE \/ \E p, q \in Paths : Rename(p, q)
           \/ \E p \in Paths, b \in Books \cup {None} : Put(p, b)
  <2>1. pc' # "failed"
    BY <1>7 DEF Rename, Put, Change
  <2> QED
    BY <2>1
<1>8. CASE UNCHANGED vars
  BY <1>8 DEF vars, files
<1> QED
  BY <1>1, <1>2, <1>3, <1>4, <1>5, <1>6, <1>7, <1>8 DEF Next, Build

\* Between builds the shelf stands still; in a build only the second rename moves it.
LEMMA ShelfStays ==
  ASSUME Base, [Next]_vars
  PROVE  \/ Shelf' = Shelf
         \/ Swap
<1>s. Installing /\ StateOK
  BY DEF Base, TypeOK
<1>1. CASE UNCHANGED <<idx, bak>>
  BY <1>1 DEF Shelf
<1>2. CASE Recover
  BY <1>s, <1>2, FilesAssumption DEF Recover, Fail, Shelf, StateOK
<1>3. CASE Park
  BY <1>s, <1>3, FilesAssumption DEF Park, Fail, Shelf, StateOK, Installing
<1>4. CASE SwapFails
  BY <1>s, <1>4, FilesAssumption DEF SwapFails, Fail, Shelf, StateOK, Installing
<1>5. CASE Tidy
  BY <1>s, <1>5, FilesAssumption DEF Tidy, Shelf, StateOK, Installing
<1>6. CASE \/ \E p \in Paths, b \in Books : Transfer(p, b)
           \/ \E p, q \in Paths : Rename(p, q)
           \/ \E p \in Paths, b \in Books \cup {None} : Put(p, b)
           \/ MarkLibraryIndexDirty \/ StartBuild \/ Walk \/ WalkFails \/ Emit
           \/ ClearLibraryIndexDirty \/ Failed \/ Restart \/ UNCHANGED vars
  <2>1. UNCHANGED <<idx, bak>>
    BY <1>6 DEF Transfer, Rename, Put, MarkLibraryIndexDirty, StartBuild, Walk, WalkFails, Emit,
                ClearLibraryIndexDirty, Failed, Restart, vars, files
  <2> QED
    BY <1>1, <2>1
<1> QED
  BY <1>2, <1>3, <1>4, <1>5, <1>6 DEF Next, Build

LEMMA CardStands ==
  ASSUME [Next]_vars, pc # "idle"
  PROVE  OnCard' = OnCard
<1>1. books' = books
  BY DEF Next, Build, Transfer, Rename, Put, Change, MarkLibraryIndexDirty, StartBuild, Recover,
         Walk, WalkFails, Emit, Park, Swap, SwapFails, Tidy, ClearLibraryIndexDirty, Failed,
         Restart, vars
<1> QED
  BY <1>1 DEF OnCard

LEMMA WalkedStep == ASSUME Base, Walked, [Next]_vars PROVE Walked'
<1>s. StateOK /\ Installing
  BY DEF Base, TypeOK
<1> DEFINE Staged == pc \in {"emit", "park", "swap", "tidy"} => PathsOf(staged.entries) = OnCard \ skipped
           Marked == marked \subseteq OnCard /\ (pc = "mark" => arrived \in OnCard)
<1>w. Staged /\ Marked
  BY DEF Walked
<1> SUFFICES Staged' /\ Marked'
  BY DEF Walked
<1>1. ASSUME NEW p \in Paths, NEW b \in Books, Transfer(p, b) PROVE Staged' /\ Marked'
  BY <1>s, <1>w, <1>1, PathsAssumption DEF Transfer, Change, StateOK, OnCard
<1>2. ASSUME NEW p \in Paths, NEW q \in Paths, Rename(p, q) PROVE Staged' /\ Marked'
  BY <1>s, <1>w, <1>2 DEF Rename, Change, StateOK, OnCard
<1>3. ASSUME NEW p \in Paths, NEW b \in Books \cup {None}, Put(p, b) PROVE Staged' /\ Marked'
  BY <1>s, <1>w, <1>3 DEF Put, Change, StateOK, OnCard
<1>4. CASE MarkLibraryIndexDirty
  <2>1. OnCard' = OnCard
    BY <1>4, CardStands DEF MarkLibraryIndexDirty
  <2>2. pc = "mark" /\ pc' = "idle" /\ marked' \subseteq marked \cup {arrived}
    BY <1>4 DEF MarkLibraryIndexDirty
  <2> QED
    BY <1>w, <2>1, <2>2
<1>5. CASE Walk
  <2>0. OnCard' = OnCard
    BY <1>5, CardStands DEF Walk
  <2>1. /\ staged' \in Reconciled(OnCard \ skipped') /\ pc' \in {"emit", "clear"} /\ marked' = marked
    BY <1>5 DEF Walk
  <2>2. PathsOf(staged'.entries) = OnCard \ skipped'
    BY <1>s, <2>1, ReconciledIndex
  <2> QED
    BY <1>w, <2>0, <2>1, <2>2 DEF PathsOf
<1>6. CASE StartBuild \/ Recover \/ WalkFails \/ ClearLibraryIndexDirty \/ Failed \/ Restart
  <2>1. books' = books /\ marked' \subseteq marked
        /\ pc' \notin {"emit", "park", "swap", "tidy", "mark"}
    BY <1>6 DEF StartBuild, Recover, WalkFails, Fail, ClearLibraryIndexDirty, Failed, Restart
  <2> QED
    BY <1>w, <2>1 DEF OnCard
<1>7. CASE Emit \/ Park \/ Swap \/ SwapFails \/ Tidy
  <2>1. /\ books' = books /\ marked' \subseteq marked /\ staged' = staged /\ skipped' = skipped
        /\ pc \in {"emit", "park", "swap", "tidy"} /\ pc' # "mark"
    BY <1>7 DEF Emit, Park, Swap, SwapFails, Tidy, Fail, walked
  <2> QED
    BY <1>w, <2>1 DEF OnCard, PathsOf
<1>8. CASE UNCHANGED vars
  BY <1>w, <1>8 DEF vars, walked, OnCard, PathsOf
<1> QED
  BY <1>1, <1>2, <1>3, <1>4, <1>5, <1>6, <1>7, <1>8 DEF Next, Build

LEMMA ShowsStep == ASSUME Base, Walked, BuildShowsCard, [Next]_vars PROVE BuildShowsCard'
<1>s. StateOK /\ Installing
  BY DEF Base, TypeOK
<1> SUFFICES ASSUME pc' = "clear"
             PROVE  Shelf' # NoIndex /\ PathsOf(Shelf'.entries) = OnCard' \ skipped'
  BY DEF BuildShowsCard, PathsOf
<1>1. CASE Walk /\ idx \in Index /\ Known(idx.entries) = Known(staged'.entries)
  <2>1. OnCard' = OnCard /\ idx' = idx /\ staged' \in Reconciled(OnCard \ skipped')
    BY <1>1, CardStands DEF Walk, files
  <2>2. staged' \in Index /\ PathsOf(staged'.entries) = OnCard \ skipped'
    BY <1>s, <2>1, ReconciledIndex
  <2>3. PathsOf(idx.entries) = PathsOf(staged'.entries)
    BY <1>1, <2>2, KnownPaths DEF Index
  <2>4. Shelf' = idx /\ idx # NoIndex
    BY <1>1, <2>1, FilesAssumption DEF Shelf
  <2> QED
    BY <2>1, <2>2, <2>3, <2>4
<1>2. CASE Tidy
  <2>1. OnCard' = OnCard /\ idx' = idx /\ skipped' = skipped /\ pc = "tidy"
    BY <1>2, CardStands DEF Tidy, walked
  <2>2. idx = staged /\ staged \in Index
    BY <1>s, <2>1 DEF Installing, StateOK
  <2>3. Shelf' = staged /\ staged # NoIndex
    BY <2>1, <2>2, FilesAssumption DEF Shelf
  <2> QED
    BY <2>1, <2>3 DEF Walked
<1>3. CASE UNCHANGED vars
  BY <1>3 DEF vars, files, walked, BuildShowsCard, Shelf, OnCard, PathsOf
<1>4. Walk => idx \in Index /\ Known(idx.entries) = Known(staged'.entries)
  BY DEF Walk
<1>5. Walk \/ Tidy \/ UNCHANGED vars
  BY DEF Next, Build, Transfer, Rename, Put, Change, MarkLibraryIndexDirty, StartBuild, Recover,
         WalkFails, Emit, Park, Swap, SwapFails, ClearLibraryIndexDirty, Failed, Restart, Fail
<1> QED
  BY <1>1, <1>2, <1>3, <1>4, <1>5

LEMMA MarkedStep ==
  ASSUME Base, Walked, BuildShowsCard, MarkedIsShelved, [Next]_vars
  PROVE  MarkedIsShelved'
<1>s. StateOK /\ Installing
  BY DEF Base, TypeOK
<1> SUFFICES ASSUME NEW p \in marked', ~marker'
             PROVE  Shelf' # NoIndex /\ p \in PathsOf(Shelf'.entries)
  BY DEF MarkedIsShelved, PathsOf
<1>1. CASE Swap
  <2>1. /\ pc = "swap" /\ idx' = new /\ marker' = marker
        /\ marked' = IF marker THEN marked ELSE marked \ skipped
    BY <1>1 DEF Swap, dirt
  <2>2. new = staged /\ staged \in Index
    BY <1>s, <2>1 DEF Installing, StateOK
  <2>3. Shelf' = staged /\ staged # NoIndex
    BY <2>1, <2>2, FilesAssumption DEF Shelf
  <2>4. p \in OnCard \ skipped
    BY <2>1 DEF Walked
  <2> QED
    BY <2>1, <2>3, <2>4 DEF Walked
<1>2. CASE ~ Swap
  <2>1. Shelf' = Shelf
    BY <1>2, ShelfStays
  <2>2. CASE marker
    <3>1. ClearLibraryIndexDirty
      BY <2>2 DEF Next, Build, Transfer, Rename, Put, MarkLibraryIndexDirty, StartBuild, Recover,
             Walk, WalkFails, Emit, Park, Swap, SwapFails, Tidy, Failed, Restart, vars, dirt
    <3>2. pc = "clear" /\ marked' = marked \ skipped
      BY <2>2, <3>1 DEF ClearLibraryIndexDirty
    <3>3. p \in OnCard \ skipped
      BY <3>2 DEF Walked
    <3> QED
      BY <2>1, <3>2, <3>3 DEF BuildShowsCard
  <2>3. CASE ~ marker
    <3>1. p \in marked
      <4>1. CASE MarkLibraryIndexDirty
        BY <2>3, <4>1 DEF MarkLibraryIndexDirty
      <4>2. CASE ~ MarkLibraryIndexDirty
        <5>1. marked' \subseteq marked
          BY <1>2, <4>2 DEF Next, Build, Transfer, Rename, Put, StartBuild, Recover, Walk, WalkFails, Emit,
                 Park, SwapFails, Tidy, ClearLibraryIndexDirty, Failed, Restart, vars
        <5> QED
          BY <5>1
      <4> QED
        BY <4>1, <4>2
    <3> QED
      BY <2>1, <2>3, <3>1 DEF MarkedIsShelved
  <2> QED
    BY <2>2, <2>3
<1> QED
  BY <1>1, <1>2

LEMMA InvStep == Inv /\ [Next]_vars => Inv'
BY BaseStep, StuckStep, WalkedStep, ShowsStep, MarkedStep DEF Inv

LEMMA Invariant == Spec => []Inv
<1>1. Init => Inv
  BY InvInit
<1>2. Inv /\ [Next]_vars => Inv'
  BY InvStep
<1> QED
  BY <1>1, <1>2, PTL DEF Spec

-----------------------------------------------------------------------------
(* The three files are one atomic file *)

LEMMA SavingValues ==
  /\ pc \in {"emit", "park", "swap"} => saving = [new |-> staged, done |-> FALSE]
  /\ pc = "tidy" => saving = [new |-> staged, done |-> TRUE]
  /\ pc \notin {"emit", "park", "swap", "tidy"} => saving = NoSave
BY DEF saving

LEMMA StoreInit == Init => Store!Init
<1> SUFFICES ASSUME Init PROVE Store!Init
  OBVIOUS
<1>1. Shelf \in Index \cup {NoIndex}
  BY DEF Shelf
<1>2. saving = NoSave
  BY SavingValues DEF Init
<1>3. ok \in BOOLEAN
  BY DEF Init
<1> QED
  BY <1>1, <1>2, <1>3 DEF Store!Init

LEMMA StoreStep == Base /\ [Next]_vars => [Store!Next]_(Store!file)
<1> SUFFICES ASSUME Base, [Next]_vars PROVE [Store!Next]_(Store!file)
  OBVIOUS
<1>s. StateOK /\ Installing
  BY DEF Base, TypeOK
<1>1. CASE Walk
  <2>1. pc = "walk" /\ pc' \in {"emit", "clear"} /\ UNCHANGED <<idx, bak, ok>>
    BY <1>1 DEF Walk, files
  <2>2. staged' \in Index
    BY <1>1, BaseStep DEF Base, TypeOK, StateOK
  <2>3. saving = NoSave /\ Shelf' = Shelf
    BY <2>1, SavingValues DEF Shelf
  <2>4. CASE pc' = "emit"
    <3>1. saving' = [new |-> staged', done |-> FALSE]
      BY <2>4 DEF saving
    <3>2. Store!Begin
      BY <2>1, <2>2, <2>3, <3>1 DEF Store!Begin, Store!Save
    <3> QED
      BY <3>2 DEF Store!Next
  <2>5. CASE pc' = "clear"
    <3>1. saving' = NoSave
      BY <2>5 DEF saving, NoSave
    <3> QED
      BY <2>1, <2>3, <3>1 DEF Store!file
  <2> QED
    BY <2>1, <2>4, <2>5
<1>2. CASE Swap
  <2>1. pc = "swap" /\ pc' = "tidy" /\ idx' = new /\ UNCHANGED <<staged, bak, ok>>
    BY <1>2 DEF Swap, walked
  <2>2. new = staged /\ staged \in Index
    BY <1>s, <2>1 DEF Installing, StateOK
  <2>3. saving = [new |-> staged, done |-> FALSE]
    BY <2>1, SavingValues
  <2>4. saving' = [new |-> staged, done |-> TRUE]
    BY <2>1 DEF saving
  <2>5. Shelf' = staged
    BY <2>1, <2>2 DEF Shelf
  <2>6. saving # NoSave
    BY <2>2, <2>3, FilesAssumption DEF NoSave
  <2>7. saving' = [saving EXCEPT !.done = TRUE] /\ ~ saving.done /\ saving.new = staged
    <3>1. \A x, d, e : [[new |-> x, done |-> d] EXCEPT !.done = e] = [new |-> x, done |-> e]
      OBVIOUS
    <3> QED
      BY <2>3, <2>4, <3>1
  <2>8. Store!Commit
    BY <2>1, <2>5, <2>6, <2>7 DEF Store!Commit
  <2> QED
    BY <2>8 DEF Store!Next
<1>3. ASSUME NEW answer \in BOOLEAN, Shelf' = Shelf, ok' = answer,
             saving = [new |-> staged, done |-> answer], saving' = NoSave
      PROVE  Store!Next
  <2>1. saving # NoSave
    BY <1>s, <1>3, FilesAssumption DEF NoSave, StateOK
  <2> QED
    BY <1>3, <2>1 DEF Store!Next, Store!End
<1>4. CASE Emit
  <2>1. Shelf' = Shelf
    BY <1>4 DEF Emit, Shelf
  <2>2. pc = "emit" /\ staged' = staged
        /\ \/ pc' = "park" /\ ok' = ok
           \/ pc' = "failed" /\ ok' = FALSE
    BY <1>4 DEF Emit, Fail, walked
  <2>3. CASE pc' = "park" /\ ok' = ok
    <3>1. saving' = saving
      BY <2>2, <2>3 DEF saving
    <3> QED
      BY <2>1, <2>3, <3>1 DEF Store!file
  <2>4. CASE pc' = "failed" /\ ok' = FALSE
    <3>1. saving' = NoSave /\ saving = [new |-> staged, done |-> FALSE]
      BY <2>2, <2>4 DEF saving, NoSave
    <3> QED
      BY <1>3, <2>1, <2>4, <3>1
  <2> QED
    BY <2>2, <2>3, <2>4
<1>5. CASE Park
  <2>1. Shelf' = Shelf
    BY <1>5, ShelfStays DEF Park, Swap
  <2>2. pc = "park" /\ staged' = staged
        /\ \/ pc' = "swap" /\ ok' = ok
           \/ pc' = "failed" /\ ok' = FALSE
    BY <1>5 DEF Park, Fail, walked
  <2>3. CASE pc' = "swap" /\ ok' = ok
    <3>1. saving' = saving
      BY <2>2, <2>3 DEF saving
    <3> QED
      BY <2>1, <2>3, <3>1 DEF Store!file
  <2>4. CASE pc' = "failed" /\ ok' = FALSE
    <3>1. saving' = NoSave /\ saving = [new |-> staged, done |-> FALSE]
      BY <2>2, <2>4 DEF saving, NoSave
    <3> QED
      BY <1>3, <2>1, <2>4, <3>1
  <2> QED
    BY <2>2, <2>3, <2>4
<1>6. CASE SwapFails
  <2>1. Shelf' = Shelf
    BY <1>s, <1>6, FilesAssumption DEF SwapFails, Shelf, StateOK, Installing
  <2>2. pc = "swap" /\ pc' = "failed" /\ ok' = FALSE
    BY <1>6 DEF SwapFails, Fail
  <2>3. saving' = NoSave /\ saving = [new |-> staged, done |-> FALSE]
    BY <2>2 DEF saving, NoSave
  <2> QED
    BY <1>3, <2>1, <2>2, <2>3
<1>7. CASE Tidy
  <2>1. Shelf' = Shelf
    BY <1>7, ShelfStays DEF Tidy, Swap
  <2>2. pc = "tidy" /\ pc' = "clear" /\ ok' = TRUE
    BY <1>7 DEF Tidy
  <2>3. saving' = NoSave /\ saving = [new |-> staged, done |-> TRUE]
    BY <2>2 DEF saving, NoSave
  <2> QED
    BY <1>3, <2>1, <2>2, <2>3
<1>8. CASE Restart
  <2>1. saving' = NoSave
    BY <1>8 DEF Restart, saving, NoSave
  <2>2. UNCHANGED <<Shelf, ok>>
    BY <1>8 DEF Restart, Shelf
  <2> QED
    BY <2>1, <2>2 DEF Store!Next, Store!Cut
<1>9. CASE \/ \E p \in Paths, b \in Books : Transfer(p, b)
           \/ \E p, q \in Paths : Rename(p, q)
           \/ \E p \in Paths, b \in Books \cup {None} : Put(p, b)
           \/ MarkLibraryIndexDirty \/ StartBuild \/ Recover \/ WalkFails
           \/ ClearLibraryIndexDirty \/ Failed
  <2>1. /\ {pc, pc'} \cap {"emit", "park", "swap", "tidy"} = {} /\ ok' = ok
    BY <1>9 DEF Transfer, Rename, Put, Change, MarkLibraryIndexDirty, StartBuild, Recover,
                WalkFails, Fail, ClearLibraryIndexDirty, Failed
  <2>2. saving = NoSave /\ saving' = NoSave
    BY <2>1 DEF saving, NoSave
  <2>3. Shelf' = Shelf
    BY <2>1, ShelfStays DEF Swap
  <2> QED
    BY <2>1, <2>2, <2>3 DEF Store!file
<1>10. CASE UNCHANGED vars
  BY <1>10 DEF vars, files, walked, Shelf, saving, Store!file, NoSave
<1> QED
  BY <1>1, <1>2, <1>4, <1>5, <1>6, <1>7, <1>8, <1>9, <1>10 DEF Next, Build

-----------------------------------------------------------------------------
(* The numbers that stand for the order of discovery *)

\* A walk that begins has a number for every book on the card the index does not know.
NumbersLeft ==
  pc = "walk" =>
    Prior.next + Cardinality(OnCard \ PathsOf({e \in Prior.entries : e.seen # Unresolved})) < Width

WellNumbered(index) ==
  /\ \A e, f \in index.entries : e.seen = f.seen \/ e.path = f.path => e = f
  /\ \A e \in index.entries : e.seen < index.next

\* An index keeps the numbers of the one before it.
Follows(old, index, found) ==
  /\ index.next >= old.next
  /\ \A f \in index.entries :
       \/ f.seen >= old.next
       \/ \E e \in old.entries :
            e.seen = f.seen /\ (e.path = f.path \/ (e.path \notin found /\ e.size = f.size))
  /\ \A e \in old.entries, f \in index.entries : e.path = f.path => e.seen = f.seen

Numbered ==
  /\ idx \in Index => WellNumbered(idx)
  /\ bak \in Index => WellNumbered(bak)
  /\ pc \in {"emit", "park", "swap"} => WellNumbered(staged)
  /\ pc \in {"emit", "park"} => Follows(Prior, staged, OnCard \ skipped)
  /\ pc = "swap" /\ bak \in Index => Follows(bak, staged, OnCard \ skipped)

LEMMA NoWrap ==
  ASSUME NEW k \in Nat, k < Width
  PROVE  k % Width = k
BY WidthAssumption

LEMMA ReconciledNumbers ==
  ASSUME StateOK, pc = "walk", NumbersLeft, WellNumbered(Prior),
         NEW found \in SUBSET OnCard, NEW s \in Reconciled(found)
  PROVE  WellNumbered(s) /\ Follows(Prior, s, found)
<1> DEFINE resolved == {e \in Prior.entries : e.seen # Unresolved}
           same  == {e \in Prior.entries : e.path \in found}
           known == {e \in same : e.seen # Unresolved}
           fresh == found \ PathsOf(known)
           As == {EntryOf(e.path, e.seen) : e \in known}
           Bs(m) == {EntryOf(p, m[p].seen) : p \in DOMAIN m}
           Cs(r) == {EntryOf(p, (Prior.next + r[p]) % Width) : p \in DOMAIN r}
           Result(m, r) == [entries |-> As \cup Bs(m) \cup Cs(r),
                            next |-> (Prior.next + Cardinality(fresh \ DOMAIN m)) % Width]
<1>0. /\ Prior.entries \in SUBSET Entry /\ Prior.next \in Nat /\ Prior.next < Width
      /\ Width \in Nat
  BY PriorIsIndex, WidthAssumption DEF Index, Seen
<1>1. Reconciled(found) = UNION {{Result(m, r) : r \in Numberings(fresh \ DOMAIN m)} :
                                  m \in Matchings(fresh, Prior.entries \ same)}
  BY DEF Reconciled
<1>2. PICK m \in Matchings(fresh, Prior.entries \ same) :
        s \in {Result(m, r) : r \in Numberings(fresh \ DOMAIN m)}
  BY <1>1
<1>3. PICK r \in Numberings(fresh \ DOMAIN m) : s = Result(m, r)
  BY <1>2
<1>4. PICK D \in SUBSET fresh : m \in [D -> Prior.entries \ same]
  BY <1>2 DEF Matchings
<1>5. /\ DOMAIN m = D /\ \A p \in D : m[p] \in Prior.entries /\ m[p].path \notin found
      /\ \A p, q \in D : m[p] = m[q] => p = q
      /\ \A p \in D : m[p].size = SizeOf[books[p]]
  BY <1>2, <1>4 DEF Matchings
<1>6. \A e \in Prior.entries : e.seen \in Nat /\ e.seen < Prior.next /\ e.seen # Unresolved
  BY <1>0 DEF WellNumbered, Entry, Seen, Unresolved
<1>7. \A e \in Prior.entries : e.path \in found => e \in known
  BY <1>6
\* The books without a number are few enough.
<1>8. IsFiniteSet(OnCard \ PathsOf(resolved)) /\ fresh \subseteq OnCard \ PathsOf(resolved)
  <2>1. IsFiniteSet(OnCard \ PathsOf(resolved))
    BY PathsAssumption, FS_Subset DEF OnCard
  <2>2. ASSUME NEW p \in fresh PROVE p \notin PathsOf(resolved)
    BY DEF PathsOf
  <2> QED
    BY <2>1, <2>2
<1>9. /\ Cardinality(fresh \ D) \in Nat
      /\ Prior.next + Cardinality(fresh \ D) < Width
  <2>1. fresh \ D \subseteq OnCard \ PathsOf(resolved)
    BY <1>8
  <2>2. /\ Cardinality(fresh \ D) \in Nat /\ Cardinality(OnCard \ PathsOf(resolved)) \in Nat
        /\ Cardinality(fresh \ D) <= Cardinality(OnCard \ PathsOf(resolved))
    BY <1>8, <2>1, FS_Subset, FS_CardinalityType
  <2>3. Prior.next + Cardinality(OnCard \ PathsOf(resolved)) < Width
    BY DEF NumbersLeft
  <2> HIDE DEF resolved, fresh
  <2> QED
    BY <1>0, <2>2, <2>3
<1>c. PICK count \in Nat : count = Cardinality(fresh \ D) /\ Prior.next + count < Width
  BY <1>9
<1>10. /\ DOMAIN r = fresh \ D
       /\ \A p \in fresh \ D : r[p] \in Nat /\ r[p] < count
       /\ \A p, q \in fresh \ D : r[p] = r[q] => p = q
  <2>1. r \in Numberings(fresh \ D)
    BY <1>3, <1>5
  <2> HIDE DEF fresh
  <2>2. r \in [fresh \ D -> 0 .. Cardinality(fresh \ D) - 1]
        /\ \A p, q \in fresh \ D : r[p] = r[q] => p = q
    BY <2>1 DEF Numberings
  <2>3. \A p \in fresh \ D : r[p] \in 0 .. count - 1
    BY <1>c, <2>2
  <2>4. \A n \in 0 .. count - 1 : n \in Nat /\ n < count
    OBVIOUS
  <2> QED
    BY <2>2, <2>3, <2>4
<1>11. \A p \in fresh \ D : (Prior.next + r[p]) % Width = Prior.next + r[p]
  <2> SUFFICES ASSUME NEW p \in fresh \ D PROVE (Prior.next + r[p]) % Width = Prior.next + r[p]
    OBVIOUS
  <2>1. Prior.next + r[p] \in Nat /\ Prior.next + r[p] < Width
    <3>1. r[p] \in Nat /\ r[p] < count /\ Prior.next + count < Width
      BY <1>c, <1>10
    <3> HIDE DEF fresh
    <3> QED
      BY <1>0, <3>1
  <2> QED
    BY <2>1, NoWrap
<1>12. s.next = Prior.next + count
  <2>1. s.next = (Prior.next + Cardinality(fresh \ D)) % Width
    BY <1>3, <1>5
  <2> HIDE DEF fresh
  <2>2. Prior.next + count \in Nat
    BY <1>0
  <2> QED
    BY <1>c, <2>1, <2>2, NoWrap
\* Every entry is one the index knows, one that moved, or a new one.
<1> DEFINE Knows(f) == \E e \in Prior.entries : e.path \in found /\ f.path = e.path /\ f.seen = e.seen
           Moved(f) == \E p \in D : f.path = p /\ f.seen = m[p].seen /\ f.size = m[p].size
           New(f)   == \E p \in fresh \ D : f.path = p /\ f.seen = Prior.next + r[p]
<1>13. \A f \in s.entries : /\ f = [path |-> f.path, size |-> SizeOf[books[f.path]], seen |-> f.seen]
                            /\ Knows(f) \/ Moved(f) \/ New(f)
  <2>1. s.entries = As \cup Bs(m) \cup Cs(r)
    BY <1>3
  <2>2. ASSUME NEW f \in As
        PROVE  f = [path |-> f.path, size |-> SizeOf[books[f.path]], seen |-> f.seen] /\ Knows(f)
    BY DEF EntryOf
  <2>3. ASSUME NEW f \in Bs(m)
        PROVE  f = [path |-> f.path, size |-> SizeOf[books[f.path]], seen |-> f.seen] /\ Moved(f)
    <3>1. PICK p \in D : f = EntryOf(p, m[p].seen)
      BY <1>5
    <3> QED
      BY <1>5, <3>1 DEF EntryOf
  <2>4. ASSUME NEW f \in Cs(r)
        PROVE  f = [path |-> f.path, size |-> SizeOf[books[f.path]], seen |-> f.seen] /\ New(f)
    <3>1. PICK p \in fresh \ D : f = EntryOf(p, (Prior.next + r[p]) % Width)
      BY <1>10
    <3>2. f = EntryOf(p, Prior.next + r[p])
      BY <1>11, <3>1
    <3> HIDE DEF fresh
    <3> QED
      BY <3>2 DEF EntryOf
  <2> HIDE DEF As, Bs, Cs, Knows, Moved, New
  <2> QED
    BY <2>1, <2>2, <2>3, <2>4
<1>14. \A p \in fresh : \A e \in Prior.entries : e.path = p => e.path \notin found
  BY <1>7 DEF PathsOf
<1>15. fresh \subseteq found /\ D \subseteq fresh
  OBVIOUS
<1>16. s.next >= Prior.next
  BY <1>0, <1>12
<1>17. /\ \A e, f \in Prior.entries : e.seen = f.seen \/ e.path = f.path => e = f
       /\ \A p \in fresh \ D : r[p] \in Nat /\ Prior.next + r[p] < s.next
  BY <1>0, <1>10, <1>12 DEF WellNumbered
<1> HIDE DEF As, Bs, Cs, fresh, same, known, resolved
<1>18. ASSUME NEW e \in s.entries, NEW f \in s.entries, e.seen = f.seen \/ e.path = f.path
       PROVE  e = f
  <2>1. e.path = f.path /\ e.seen = f.seen
    <3>1. CASE Knows(e) /\ Knows(f)
      BY <1>17, <1>18, <3>1
    <3>2. CASE Moved(e) /\ Moved(f)
      BY <1>5, <1>17, <1>18, <3>2
    <3>3. CASE New(e) /\ New(f)
      <4>1. PICK p \in fresh \ D : e.path = p /\ e.seen = Prior.next + r[p]
        BY <3>3
      <4>2. PICK q \in fresh \ D : f.path = q /\ f.seen = Prior.next + r[q]
        BY <3>3
      <4>3. r[p] \in Nat /\ r[q] \in Nat /\ (r[p] = r[q] => p = q)
        BY <1>10
      <4>4. p = q
        BY <1>0, <1>18, <4>1, <4>2, <4>3
      <4> QED
        BY <4>1, <4>2, <4>4
    <3>4. CASE (Knows(e) /\ Moved(f)) \/ (Moved(e) /\ Knows(f))
      BY <1>5, <1>14, <1>15, <1>17, <1>18, <3>4
    <3>5. CASE (Knows(e) /\ New(f)) \/ (New(e) /\ Knows(f))
      BY <1>0, <1>6, <1>10, <1>14, <1>15, <1>18, <3>5
    <3>6. CASE (Moved(e) /\ New(f)) \/ (New(e) /\ Moved(f))
      BY <1>0, <1>5, <1>6, <1>10, <1>15, <1>18, <3>6
    <3> HIDE DEF Knows, Moved, New
    <3> QED
      BY <1>13, <3>1, <3>2, <3>3, <3>4, <3>5, <3>6
  <2> HIDE DEF Knows, Moved, New
  <2>2. e = [path |-> e.path, size |-> SizeOf[books[e.path]], seen |-> e.seen]
    BY <1>13
  <2>3. f = [path |-> f.path, size |-> SizeOf[books[f.path]], seen |-> f.seen]
    BY <1>13
  <2> QED
    BY <2>1, <2>2, <2>3
<1>19. ASSUME NEW f \in s.entries PROVE f.seen < s.next
  <2>1. CASE Knows(f)
    BY <1>0, <1>6, <1>12, <2>1
  <2>2. CASE Moved(f)
    BY <1>0, <1>5, <1>6, <1>12, <2>2
  <2>3. CASE New(f)
    BY <1>17, <2>3
  <2> HIDE DEF Knows, Moved, New
  <2> QED
    BY <1>13, <2>1, <2>2, <2>3
<1>20. ASSUME NEW f \in s.entries
       PROVE  \/ f.seen >= Prior.next
              \/ \E e \in Prior.entries :
                   e.seen = f.seen /\ (e.path = f.path \/ (e.path \notin found /\ e.size = f.size))
  <2>1. CASE Knows(f)
    BY <2>1
  <2>2. CASE Moved(f)
    BY <1>5, <2>2
  <2>3. CASE New(f)
    BY <1>0, <1>10, <2>3
  <2> HIDE DEF Knows, Moved, New
  <2> QED
    BY <1>13, <2>1, <2>2, <2>3
<1>21. ASSUME NEW e \in Prior.entries, NEW f \in s.entries, e.path = f.path PROVE e.seen = f.seen
  <2>1. CASE Knows(f)
    BY <1>17, <1>21, <2>1
  <2>2. CASE Moved(f) \/ New(f)
    BY <1>14, <1>15, <1>21, <2>2
  <2> HIDE DEF Knows, Moved, New
  <2> QED
    BY <1>13, <2>1, <2>2
<1> HIDE DEF Knows, Moved, New
<1> QED
  BY <1>16, <1>18, <1>19, <1>20, <1>21 DEF WellNumbered, Follows

LEMMA NumberedInit == Init => Numbered
<1> SUFFICES ASSUME Init PROVE Numbered
  OBVIOUS
<1>1. idx \in {Absent, Bad, Short, Empty} /\ bak \in {Absent, Bad, Empty} /\ pc = "idle"
  BY DEF Init
<1>2. WellNumbered(Empty)
  BY DEF WellNumbered, Empty
<1> QED
  BY <1>1, <1>2, FilesAssumption DEF Numbered

LEMMA NumberedStep ==
  ASSUME Base, Numbered, NumbersLeft, [Next]_vars
  PROVE  Numbered'
<1>s. StateOK /\ Installing
  BY DEF Base, TypeOK
<1>n. {Absent, Bad, Short} \cap Index = {}
  BY FilesAssumption
<1>1. CASE Recover
  <2>1. idx' \in {idx, bak, Absent} /\ bak' \in {bak, Absent} /\ pc' \in {"walk", "failed"}
    BY <1>1 DEF Recover, Fail
  <2> QED
    BY <1>n, <2>1 DEF Numbered
<1>2. CASE Walk
  <2>1. /\ pc = "walk" /\ pc' \in {"emit", "clear"} /\ UNCHANGED <<idx, bak, books>>
        /\ staged' \in Reconciled(OnCard \ skipped')
    BY <1>2 DEF Walk, files
  <2>2. WellNumbered(Prior)
    <3>1. WellNumbered(Empty)
      BY DEF WellNumbered, Empty
    <3> QED
      BY <3>1 DEF Prior, Numbered
  <2>3. WellNumbered(staged') /\ Follows(Prior, staged', OnCard \ skipped')
    BY <1>s, <2>1, <2>2, ReconciledNumbers
  <2>4. Prior' = Prior /\ OnCard' = OnCard
    BY <2>1 DEF Prior, OnCard
  <2> QED
    BY <2>1, <2>3, <2>4 DEF Numbered
<1>3. CASE Emit
  <2>1. pc = "emit" /\ pc' \in {"park", "failed"} /\ UNCHANGED <<idx, bak, books, staged, skipped>>
    BY <1>3 DEF Emit, Fail, walked
  <2>2. Prior' = Prior /\ OnCard' = OnCard
    BY <2>1 DEF Prior, OnCard
  <2> QED
    BY <2>1, <2>2 DEF Numbered
<1>4. CASE Park
  <2>1. /\ pc = "park" /\ UNCHANGED <<books, staged, skipped>>
        /\ \/ pc' = "swap" /\ bak' = idx /\ idx' = Absent
           \/ pc' = "failed" /\ UNCHANGED <<idx, bak>>
    BY <1>4 DEF Park, Fail, walked
  <2>2. OnCard' = OnCard
    BY <2>1 DEF OnCard
  <2> QED
    BY <1>n, <2>1, <2>2 DEF Numbered, Prior
<1>5. CASE Swap
  <2>1. pc = "swap" /\ pc' = "tidy" /\ idx' = new /\ bak' = bak
    BY <1>5 DEF Swap
  <2>2. new = staged
    BY <1>s, <2>1 DEF Installing
  <2> QED
    BY <2>1, <2>2 DEF Numbered
<1>6. CASE SwapFails \/ Tidy
  <2>1. idx' \in {idx, bak} /\ bak' \in {bak, Absent} /\ pc' \in {"failed", "clear"}
    BY <1>6 DEF SwapFails, Tidy, Fail
  <2> QED
    BY <1>n, <2>1 DEF Numbered
<1>7. CASE \/ \E p \in Paths, b \in Books : Transfer(p, b)
           \/ \E p, q \in Paths : Rename(p, q)
           \/ \E p \in Paths, b \in Books \cup {None} : Put(p, b)
           \/ MarkLibraryIndexDirty \/ StartBuild \/ WalkFails
           \/ ClearLibraryIndexDirty \/ Failed \/ Restart
  <2>1. UNCHANGED <<idx, bak>> /\ pc' \notin {"emit", "park", "swap"}
    BY <1>7 DEF Transfer, Rename, Put, Change, MarkLibraryIndexDirty, StartBuild, WalkFails, Fail,
       ClearLibraryIndexDirty, Failed, Restart, files
  <2> QED
    BY <2>1 DEF Numbered
<1>8. CASE UNCHANGED vars
  <2>1. UNCHANGED <<idx, bak, pc, books, staged, skipped>>
    BY <1>8 DEF vars, files, walked
  <2>2. Prior' = Prior /\ OnCard' = OnCard
    BY <2>1 DEF Prior, OnCard
  <2> QED
    BY <2>1, <2>2 DEF Numbered
<1> QED
  BY <1>1, <1>2, <1>3, <1>4, <1>5, <1>6, <1>7, <1>8 DEF Next, Build

\* Only the second rename puts an index in the place of another.
LEMMA SwapFollows ==
  ASSUME Base, Numbered, [Next]_vars, Shelf' # Shelf, NoIndex \notin {Shelf, Shelf'}
  PROVE  WellNumbered(Shelf') /\ Follows(Shelf, Shelf', OnCard \ skipped)
<1>s. StateOK /\ Installing
  BY DEF Base, TypeOK
<1>1. Swap
  BY ShelfStays
<1>2. pc = "swap" /\ idx' = new /\ new = staged /\ idx = Absent
  BY <1>s, <1>1 DEF Swap, Installing
<1>3. Shelf' = staged
  BY <1>s, <1>2 DEF Shelf, StateOK
<1>4. bak \in Index /\ Shelf = bak
  BY <1>2, FilesAssumption DEF Shelf
<1> QED
  BY <1>2, <1>3, <1>4 DEF Numbered

-----------------------------------------------------------------------------
\* Every variable keeps its type, for any card, books, sizes and bounds.
THEOREM TypeCorrect == Spec => []TypeOK
<1>1. Inv => TypeOK
  BY DEF Inv, Base
<1> QED
  BY <1>1, Invariant, PTL

\* A build that ends has an index of every book it could read and of nothing else.
THEOREM CardIsShown == Spec => []BuildShowsCard
<1>1. Inv => BuildShowsCard
  BY DEF Inv
<1> QED
  BY <1>1, Invariant, PTL

\* A book whose transfer left the marker on the card is on the shelf, or the marker
\* is still there.
THEOREM MarkedAreShelved == Spec => []MarkedIsShelved
<1>1. Inv => MarkedIsShelved
  BY DEF Inv
<1> QED
  BY <1>1, Invariant, PTL

\* What an interrupted or failed install leaves behind blocks no later build.
THEOREM NothingBlocksABuild == Spec => []NeverStuck
<1>1. Inv => NeverStuck
  BY DEF Inv
<1> QED
  BY <1>1, Invariant, PTL

\* Live index, backup and new file implement one atomic file: a reader finds the old
\* index or the new one, and the builder answers true exactly when it is the new one.
THEOREM InstallIsAtomic == Spec => IndexIsAtomic
<1>1. Spec => []Base
  <2>1. Inv => Base
    BY DEF Inv
  <2> QED
    BY <2>1, Invariant, PTL
<1>2. Init => Store!Init
  BY StoreInit
<1>3. Base /\ [Next]_vars => [Store!Next]_(Store!file)
  BY StoreStep
<1> QED
  BY <1>1, <1>2, <1>3, PTL DEF Spec, Store!Spec, IndexIsAtomic

\* Books keep the order in which the Library discovered them, from one index to the
\* next and over interrupted installs, as long as there are numbers for the new ones.
THEOREM DiscoveryKeepsOrder == Spec /\ []NumbersLeft => ArrivalOrder
<1>1. Spec => []Base
  <2>1. Inv => Base
    BY DEF Inv
  <2> QED
    BY <2>1, Invariant, PTL
<1>2. Init => Numbered
  BY NumberedInit
<1>3. Base /\ Numbered /\ NumbersLeft /\ [Next]_vars => Numbered'
  BY NumberedStep
<1>4. ASSUME Base, Numbered, [Next]_vars
      PROVE  [Shelf' # Shelf /\ NoIndex \notin {Shelf, Shelf'} =>
                /\ Shelf'.next >= Shelf.next
                /\ \A e, f \in Shelf'.entries : e.seen = f.seen => e = f
                /\ \A f \in Shelf'.entries :
                     \/ f.seen >= Shelf.next
                     \/ \E e \in Shelf.entries :
                          e.seen = f.seen
                          /\ (e.path = f.path \/ (e.path \notin OnCard \ skipped /\ e.size = f.size))
                /\ \A e \in Shelf.entries, f \in Shelf'.entries :
                     e.path = f.path => e.seen = f.seen]_vars
  BY <1>4, SwapFollows DEF WellNumbered, Follows
<1> QED
  BY <1>1, <1>2, <1>3, <1>4, PTL DEF Spec, ArrivalOrder
=============================================================================
