---------------------------- MODULE ClippingsProofs ----------------------------
(* Proofs about Clippings: its types, that no clipping is lost and none gets *)
(* the text of another, that the store, its backup and the file being        *)
(* written implement one atomic file; and, from which clipping an id stands  *)
(* for, that none removed comes back, none has two ids, and that a sync that *)
(* succeeds leaves the store with what the server has.                       *)
EXTENDS Clippings, SequenceTheorems, WellFoundedInduction, TLAPS

Writing == pc \in {"room", "write", "park", "swap", "tidy", "return"}
HaveIds(records) == \A i \in DOMAIN records : records[i].id # NoId

\* Which files are there while the store is written, and what the task has in hand.
Installing ==
  /\ pc \in {"write", "park"} => (main = Absent => bak = Absent)
  /\ pc \in {"park", "swap"} => tmp = NewContent
  /\ pc = "swap" => main = Absent
  /\ pc = "tidy" => main # Absent

InHand ==
  /\ ~loaded => ram = <<>>
  /\ pc \notin {"closed", "reading", "unload"} => loaded
  /\ ~Writing \/ job \in {"unload", "prepare", "uploads"} => repl = 0
  /\ Writing /\ job = "add" => repl \in DOMAIN ram
  /\ pc \in {"delete", "upload", "finish"} \/ (Writing /\ job = "prepare") => HaveIds(ram)

\* The record finds its text in the store; the texts the user was told are saved.
Fits(records, i) ==
  /\ records[i].at \in DOMAIN Stored
  /\ Stored[records[i].at].text = records[i].text
AllFit(records) == \A i \in DOMAIN records : Fits(records, i)
Covers(records) == \A t \in kept : \E i \in DOMAIN records : records[i].text = t
OwnIds(records) ==
  \A i \in DOMAIN records : records[i].id # NoId => records[i].id.of = records[i].text

Placing ==
  /\ pc # "tidy" => \A i \in DOMAIN ram : i # repl => Fits(ram, i)
  /\ pc = "tidy" => /\ DOMAIN Stored = DOMAIN ram
                    /\ \A i \in DOMAIN ram : Stored[i].text = ram[i].text
  /\ pc \in {"room", "write", "park", "swap"} \/ (pc = "return" /\ ~ok) => AllFit(undo)
  /\ pc = "return" /\ ok => AllFit(ram)

Keeping ==
  /\ Covers(Stored)
  /\ loaded => Covers(ram)
  /\ Writing => Covers(undo)

Owning ==
  /\ OwnIds(Stored) /\ OwnIds(ram) /\ OwnIds(undo)
  /\ \A it \in server : it.text = it.id.of

Base == TypeOK /\ Installing /\ InHand
Inv  == Base /\ Placing /\ Keeping /\ Owning

-----------------------------------------------------------------------------
(* Sequences, and the least of a set of numbers *)

LEMMA LeastIs ==
  ASSUME NEW S \in SUBSET Nat, S # {}
  PROVE  Least(S) \in S /\ \A m \in S : Least(S) <= m
<1>1. IsWellFoundedOn(OpToRel(<, Nat), Nat)
  BY NatLessThanWellFounded
<1>2. PICK n \in S : \A m \in S : ~ (<<m, n>> \in OpToRel(<, Nat))
  BY <1>1, WFMin
<1>3. \A m \in S : n <= m
  <2> TAKE m \in S
  <2>1. <<m, n>> \notin OpToRel(<, Nat)
    BY <1>2
  <2> QED
    BY <2>1 DEF OpToRel
<1> QED
  BY <1>3 DEF Least

LEMMA SameLength ==
  ASSUME NEW T, NEW s \in Seq(T), NEW S, NEW f \in [DOMAIN s -> S]
  PROVE  f \in Seq(S) /\ Len(f) = Len(s)
<1>1. DOMAIN s = 1 .. Len(s) /\ Len(s) \in Nat
  BY LenProperties
<1>2. f \in Seq(S)
  BY <1>1, SeqDef
<1> QED
  BY <1>1, <1>2, LenProperties

LEMMA RemovalElements ==
  ASSUME NEW S, NEW s \in Seq(S), NEW i \in DOMAIN s
  PROVE  /\ RemoveAt(s, i) \in Seq(S)
         /\ DOMAIN s = 1 .. Len(s) /\ Len(s) \in Nat
         /\ DOMAIN RemoveAt(s, i) = 1 .. Len(s) - 1
         /\ \A j \in 1 .. Len(s) - 1 : RemoveAt(s, i)[j] = IF j < i THEN s[j] ELSE s[j + 1]
<1> DEFINE a == SubSeq(s, 1, i - 1)
           b == SubSeq(s, i + 1, Len(s))
<1>1. DOMAIN s = 1 .. Len(s) /\ Len(s) \in Nat /\ i \in 1 .. Len(s)
  BY LenProperties
<1>2. a \in Seq(S) /\ Len(a) = i - 1 /\ \A j \in 1 .. i - 1 : a[j] = s[j]
  BY <1>1, SubSeqProperties
<1>3. b \in Seq(S) /\ Len(b) = Len(s) - i /\ \A j \in 1 .. Len(s) - i : b[j] = s[i + j]
  BY <1>1, SubSeqProperties
<1>4. RemoveAt(s, i) = a \o b
  BY DEF RemoveAt
<1> HIDE DEF a, b
<1>5. a \o b \in Seq(S) /\ Len(a \o b) = Len(s) - 1
  <2>1. a \o b \in Seq(S) /\ Len(a \o b) = Len(a) + Len(b)
    BY <1>2, <1>3, ConcatProperties
  <2>2. Len(a) + Len(b) = Len(s) - 1
    BY <1>1, <1>2, <1>3
  <2> QED
    BY <2>1, <2>2
<1>6. DOMAIN (a \o b) = 1 .. Len(s) - 1
  BY <1>5, LenProperties
<1>7. \A j \in 1 .. Len(s) - 1 : (a \o b)[j] = IF j <= i - 1 THEN s[j] ELSE s[j + 1]
  <2> TAKE j \in 1 .. Len(s) - 1
  <2>1. (a \o b)[j] = IF j <= Len(a) THEN a[j] ELSE b[j - Len(a)]
    BY <1>1, <1>2, <1>3, ConcatProperties
  <2>2. CASE j <= i - 1
    BY <1>1, <1>2, <2>1, <2>2
  <2>3. CASE ~ (j <= i - 1)
    <3>1. j - (i - 1) \in 1 .. Len(s) - i /\ i + (j - (i - 1)) = j + 1
      BY <1>1, <2>3
    <3> QED
      BY <1>2, <1>3, <2>1, <2>3, <3>1
  <2> QED
    BY <2>2, <2>3
<1>8. \A j \in 1 .. Len(s) - 1 : (a \o b)[j] = IF j < i THEN s[j] ELSE s[j + 1]
  <2>1. \A j \in 1 .. Len(s) - 1 : j <= i - 1 <=> j < i
    BY <1>1
  <2> QED
    BY <1>7, <2>1
<1> QED
  BY <1>1, <1>4, <1>5, <1>6, <1>8

LEMMA Removal ==
  ASSUME NEW S, NEW s \in Seq(S), NEW i \in DOMAIN s
  PROVE  /\ RemoveAt(s, i) \in Seq(S)
         /\ \A j \in DOMAIN RemoveAt(s, i) : \E k \in DOMAIN s : k # i /\ RemoveAt(s, i)[j] = s[k]
         /\ \A k \in DOMAIN s \ {i} : \E j \in DOMAIN RemoveAt(s, i) : RemoveAt(s, i)[j] = s[k]
<1> DEFINE r == RemoveAt(s, i)
<1>1. /\ r \in Seq(S)
      /\ DOMAIN s = 1 .. Len(s) /\ Len(s) \in Nat
      /\ DOMAIN r = 1 .. Len(s) - 1
      /\ \A j \in 1 .. Len(s) - 1 : r[j] = IF j < i THEN s[j] ELSE s[j + 1]
  BY RemovalElements
<1> HIDE DEF r
<1>2. ASSUME NEW j \in DOMAIN r
      PROVE  \E k \in DOMAIN s : k # i /\ r[j] = s[k]
  <2>1. CASE j < i
    <3>1. j \in DOMAIN s /\ j # i /\ r[j] = s[j]
      BY <1>1, <2>1
    <3> QED
      BY <3>1
  <2>2. CASE ~ (j < i)
    <3>1. j + 1 \in DOMAIN s /\ j + 1 # i /\ r[j] = s[j + 1]
      BY <1>1, <2>2
    <3> QED
      BY <3>1
  <2> QED
    BY <2>1, <2>2
<1>3. ASSUME NEW k \in DOMAIN s \ {i}
      PROVE  \E j \in DOMAIN r : r[j] = s[k]
  <2>1. CASE k < i
    <3>1. k \in DOMAIN r /\ r[k] = s[k]
      BY <1>1, <2>1
    <3> QED
      BY <3>1
  <2>2. CASE k > i
    <3>1. k - 1 \in DOMAIN r /\ r[k - 1] = s[(k - 1) + 1] /\ (k - 1) + 1 = k
      BY <1>1, <2>2
    <3> QED
      BY <3>1
  <2> QED
    BY <1>1, <2>1, <2>2
<1> QED
  BY <1>1, <1>2, <1>3 DEF r

-----------------------------------------------------------------------------
(* Types of what the operators return *)

LEMMA StoredIsRecords == ASSUME StateOK PROVE Stored \in Seq(Record)
BY EmptySeq DEF StateOK, Stored

LEMMA PlacedIsInMemory ==
  ASSUME NEW s \in Seq(Record)
  PROVE  Placed(s) \in Seq(InMemory) /\ DOMAIN Placed(s) = DOMAIN s
<1>1. DOMAIN s \subseteq Nat /\ \A i \in DOMAIN s : s[i] \in Record
  BY LenProperties, ElementOfSeq
<1>2. Placed(s) \in [DOMAIN s -> InMemory]
  BY <1>1 DEF Placed, Record, InMemory
<1> QED
  BY <1>2, SameLength

LEMMA RamElement ==
  ASSUME StateOK, NEW i \in DOMAIN ram
  PROVE  ram[i] \in InMemory /\ i \in Nat \ {0}
BY LenProperties, ElementOfSeq DEF StateOK

LEMMA NewContentIsRecords ==
  ASSUME StateOK
  PROVE  NewContent \in Seq(Record) /\ DOMAIN NewContent = DOMAIN ram
<1>1. ASSUME NEW i \in DOMAIN ram PROVE TextOf(i) \in Texts
  <2>1. ram[i] \in InMemory
    BY RamElement
  <2>2. \A k \in DOMAIN Stored : Stored[k] \in Record
    BY StoredIsRecords, LenProperties, ElementOfSeq
  <2> QED
    BY <2>1, <2>2 DEF TextOf, InMemory, Record
<1>2. NewContent \in [DOMAIN ram -> Record]
  BY <1>1, RamElement DEF NewContent, InMemory, Record
<1> QED
  BY <1>2, SameLength DEF StateOK

LEMMA FilesDiffer ==
  /\ Absent \notin Seq(Record) /\ Partial \notin Seq(Record) /\ Absent # Partial
  /\ NoId \notin Ids
BY FilesAssumption DEF NoId, Ids

LEMMA NewContentStays ==
  ASSUME ram' = ram, repl' = repl, Stored' = Stored
  PROVE  NewContent' = NewContent
BY DEF NewContent, TextOf

LEMMA TextsInMemory ==
  ASSUME StateOK
  PROVE  /\ \A i \in DOMAIN ram : ram[i].text \in Texts
         /\ {ram[i].text : i \in DOMAIN ram} \subseteq Texts
         /\ Dropped(undo, ram) \subseteq Texts
<1>1. \A i \in DOMAIN ram : ram[i].text \in Texts
  BY RamElement DEF InMemory
<1>2. \A i \in DOMAIN undo : undo[i] \in InMemory
  BY LenProperties, ElementOfSeq DEF StateOK
<1>3. Dropped(undo, ram) \subseteq Texts
  BY <1>2 DEF InMemory, Dropped
<1> QED
  BY <1>1, <1>3

-----------------------------------------------------------------------------
(* What the steps make of the records in memory *)

LEMMA AddedRam ==
  ASSUME StateOK, NEW r \in InMemory, ram' = Append(ram, r)
  PROVE  /\ ram' \in Seq(InMemory)
         /\ Len(ram) + 1 \in Nat
         /\ DOMAIN ram' = DOMAIN ram \cup {Len(ram) + 1}
         /\ Len(ram) + 1 \notin DOMAIN ram
         /\ ram'[Len(ram) + 1] = r
         /\ \A i \in DOMAIN ram : ram'[i] = ram[i]
<1>1. ram \in Seq(InMemory) /\ Len(ram) \in Nat /\ DOMAIN ram = 1 .. Len(ram)
  BY LenProperties DEF StateOK
<1>2. /\ ram' \in Seq(InMemory) /\ Len(ram') = Len(ram) + 1
      /\ ram'[Len(ram) + 1] = r /\ \A i \in 1 .. Len(ram) : ram'[i] = ram[i]
  BY <1>1, AppendProperties
<1>3. DOMAIN ram' = 1 .. Len(ram) + 1
  BY <1>2, LenProperties
<1> QED
  BY <1>1, <1>2, <1>3

LEMMA RemovedRam ==
  ASSUME StateOK, NEW i \in 1 .. Len(ram), ram' = RemoveAt(ram, i)
  PROVE  /\ i \in DOMAIN ram
         /\ ram' \in Seq(InMemory)
         /\ \A j \in DOMAIN ram' : \E k \in DOMAIN ram : k # i /\ ram'[j] = ram[k]
         /\ \A k \in DOMAIN ram \ {i} : \E j \in DOMAIN ram' : ram'[j] = ram[k]
<1>1. ram \in Seq(InMemory) /\ DOMAIN ram = 1 .. Len(ram)
  BY LenProperties DEF StateOK
<1>2. i \in DOMAIN ram
  BY <1>1
<1>3. /\ RemoveAt(ram, i) \in Seq(InMemory)
      /\ \A j \in DOMAIN RemoveAt(ram, i) : \E k \in DOMAIN ram : k # i /\ RemoveAt(ram, i)[j] = ram[k]
      /\ \A k \in DOMAIN ram \ {i} : \E j \in DOMAIN RemoveAt(ram, i) : RemoveAt(ram, i)[j] = ram[k]
  BY <1>1, <1>2, Removal
<1> QED
  BY <1>2, <1>3, Zenon

LEMMA TidiedRam ==
  ASSUME StateOK, Tidy
  PROVE  /\ ram' \in Seq(InMemory)
         /\ DOMAIN ram' = DOMAIN ram
         /\ \A i \in DOMAIN ram : /\ ram'[i].text = ram[i].text
                                  /\ ram'[i].id = ram[i].id
                                  /\ ram'[i].pending = ram[i].pending
                                  /\ ram'[i].rev = ram[i].rev
                                  /\ ram'[i].at = i
<1>1. ram' = [i \in DOMAIN ram |-> [ram[i] EXCEPT !.at = i]]
  BY DEF Tidy
<1>2. \A i \in DOMAIN ram : ram[i] \in InMemory /\ i \in Nat
  BY RamElement
<1>3. \A i \in DOMAIN ram : /\ [ram[i] EXCEPT !.at = i] \in InMemory
                            /\ [ram[i] EXCEPT !.at = i].text = ram[i].text
                            /\ [ram[i] EXCEPT !.at = i].id = ram[i].id
                            /\ [ram[i] EXCEPT !.at = i].pending = ram[i].pending
                            /\ [ram[i] EXCEPT !.at = i].rev = ram[i].rev
                            /\ [ram[i] EXCEPT !.at = i].at = i
  BY <1>2 DEF InMemory
<1>4. ram' \in [DOMAIN ram -> InMemory]
  BY <1>1, <1>3
<1> QED
  BY <1>1, <1>3, <1>4, SameLength DEF StateOK

LEMMA SentRam ==
  ASSUME StateOK, FinishUploads
  PROVE  /\ ram' \in Seq(InMemory)
         /\ DOMAIN ram' = DOMAIN ram
         /\ \A i \in DOMAIN ram : /\ ram'[i].text = ram[i].text
                                  /\ ram'[i].id = ram[i].id
                                  /\ ~ ram'[i].pending
                                  /\ ram'[i].rev = ram[i].rev
                                  /\ ram'[i].at = ram[i].at
<1>1. ram' = [i \in DOMAIN ram |-> [ram[i] EXCEPT !.pending = FALSE]]
  BY DEF FinishUploads
<1>2. \A i \in DOMAIN ram : ram[i] \in InMemory
  BY RamElement
<1>3. \A i \in DOMAIN ram : /\ [ram[i] EXCEPT !.pending = FALSE] \in InMemory
                            /\ [ram[i] EXCEPT !.pending = FALSE].text = ram[i].text
                            /\ [ram[i] EXCEPT !.pending = FALSE].id = ram[i].id
                            /\ ~ [ram[i] EXCEPT !.pending = FALSE].pending
                            /\ [ram[i] EXCEPT !.pending = FALSE].rev = ram[i].rev
                            /\ [ram[i] EXCEPT !.pending = FALSE].at = ram[i].at
  BY <1>2 DEF InMemory
<1>4. ram' \in [DOMAIN ram -> InMemory]
  BY <1>1, <1>3
<1> QED
  BY <1>1, <1>3, <1>4, SameLength DEF StateOK

LEMMA DrawnRam ==
  ASSUME StateOK, PrepareSync
  PROVE  /\ ram' \in Seq(InMemory)
         /\ DOMAIN ram' = DOMAIN ram
         /\ \A i \in DOMAIN ram : /\ ram'[i].text = ram[i].text
                                  /\ ram'[i].at = ram[i].at
                                  /\ ram'[i].id # NoId
                                  /\ ram'[i].id = ram[i].id \/ ram'[i].id.of = ram[i].text
                                  /\ ram[i].id # NoId => ram'[i].id = ram[i].id
                                  /\ ram[i].id = NoId => given'[ram[i].text] # 0
                                  /\ ram'[i].pending = ram[i].pending
                                  /\ ram'[i].rev = ram[i].rev
         /\ \A u \in Texts : given[u] # 0 => given'[u] # 0
<1> DEFINE Drawn(r) == [r EXCEPT !.id = [of |-> r.text, n |-> given[r.text] + 1]]
<1>1. ram' = [i \in DOMAIN ram |-> IF ram[i].id = NoId THEN Drawn(ram[i]) ELSE ram[i]]
  BY DEF PrepareSync
<1>2. \A i \in DOMAIN ram : ram[i] \in InMemory
  BY RamElement
<1>3. \A r \in InMemory : [of |-> r.text, n |-> given[r.text] + 1] \in Ids
  <2> TAKE r \in InMemory
  <2>1. r.text \in Texts
    BY DEF InMemory
  <2>2. given[r.text] + 1 \in Nat \ {0}
    BY <2>1 DEF StateOK
  <2> QED
    BY <2>1, <2>2 DEF Ids
<1>4. \A r \in InMemory : /\ Drawn(r) \in InMemory
                          /\ Drawn(r).text = r.text /\ Drawn(r).at = r.at
                          /\ Drawn(r).id \in Ids /\ Drawn(r).id.of = r.text
                          /\ Drawn(r).pending = r.pending /\ Drawn(r).rev = r.rev
  BY <1>3 DEF InMemory
<1> HIDE DEF Drawn
<1>5. ram' \in [DOMAIN ram -> InMemory]
  BY <1>1, <1>2, <1>4
<1>6. DOMAIN ram' = DOMAIN ram /\ ram' \in Seq(InMemory)
  BY <1>5, SameLength DEF StateOK
<1>g. \A u \in Texts : given[u] \in Nat
  BY DEF StateOK
<1>u. /\ \A u \in Texts : given[u] # 0 => given'[u] # 0
      /\ \A i \in DOMAIN ram : ram[i].id = NoId => given'[ram[i].text] # 0
  <2>1. given' = [u \in Texts |->
          IF \E i \in DOMAIN ram : ram[i].text = u /\ ram[i].id = NoId
          THEN given[u] + 1 ELSE given[u]]
    BY DEF PrepareSync
  <2>2. \A i \in DOMAIN ram : ram[i].text \in Texts
    BY <1>2 DEF InMemory
  <2> QED
    BY <1>g, <2>1, <2>2
<1>7. ASSUME NEW i \in DOMAIN ram
      PROVE  /\ ram'[i].text = ram[i].text
             /\ ram'[i].at = ram[i].at
             /\ ram'[i].id # NoId
             /\ ram'[i].id = ram[i].id \/ ram'[i].id.of = ram[i].text
             /\ ram[i].id # NoId => ram'[i].id = ram[i].id
             /\ ram'[i].pending = ram[i].pending /\ ram'[i].rev = ram[i].rev
  <2>1. CASE ram[i].id = NoId
    BY <1>1, <1>2, <1>4, <2>1, FilesDiffer
  <2>2. CASE ram[i].id # NoId
    BY <1>1, <2>2
  <2> QED
    BY <2>1, <2>2
<1> QED
  BY <1>6, <1>7, <1>u

LEMMA FromServerIsInMemory ==
  ASSUME StateOK, NEW it \in server
  PROVE  FromServer(it) \in InMemory
BY DEF StateOK, Item, InMemory, FromServer

\* What one item of the server does to the store: nothing, or a write.
LEMMA AppliedRam ==
  ASSUME StateOK, ApplyRemote
  PROVE  /\ walk' \in Nat
         /\ \/ pc' \in {"unload", "scan", "synced"} /\ UNCHANGED <<ram, call, kept>>
            \/ /\ pc' = "room" /\ job' = "apply" /\ undo' = ram
               /\ \/ /\ \E it \in server : ram' = Append(ram, FromServer(it))
                     /\ repl' = Len(ram) + 1 /\ kept' = kept
                  \/ \E i \in DOMAIN ram :
                       ram' = RemoveAt(ram, i) /\ repl' = 0 /\ kept' = kept \ {ram[i].text}
                  \/ \E i \in DOMAIN ram, it \in server :
                       /\ ram[i].id = it.id
                       /\ ram' = [ram EXCEPT ![i] = FromServer(it)]
                       /\ repl' = i /\ kept' = kept
<1>1. PICK it \in server :
        LET next == IF more' THEN "scan" ELSE "synced"
            at   == {i \in DOMAIN ram : ram[i].id = it.id}
        IN \/ /\ at = {}
              /\ it.live
              /\ IF Len(ram) < Capacity
                 THEN /\ ram' = Append(ram, FromServer(it))
                      /\ Call("apply", ram, Len(ram) + 1)
                      /\ walk' = it.rev
                 ELSE pc' = "unload" /\ UNCHANGED <<ram, call, walk>>
              /\ UNCHANGED kept
           \/ /\ IF at = {} THEN ~it.live
                 ELSE it.live /\ \A i \in at : ram[i].rev = it.rev /\ ~ram[i].pending
              /\ walk' = it.rev
              /\ pc' = next
              /\ UNCHANGED <<ram, call, kept>>
           \/ \E i \in at :
              /\ ~it.live
              /\ ram' = RemoveAt(ram, i)
              /\ kept' = kept \ {ram[i].text}
              /\ Call("apply", ram, 0)
              /\ walk' = it.rev
           \/ \E i \in at :
              /\ it.live
              /\ ram[i].rev # it.rev \/ ram[i].pending
              /\ ram' = [ram EXCEPT ![i] = FromServer(it)]
              /\ Call("apply", ram, i)
              /\ walk' = it.rev
              /\ UNCHANGED kept
  BY DEF ApplyRemote
<1>2. it.rev \in Nat /\ walk \in Nat
  BY DEF StateOK, Item
<1> QED
  BY <1>1, <1>2, Zenon DEF Call

-----------------------------------------------------------------------------
(* What the steps make of the server *)

LEMMA DeletionPut ==
  ASSUME StateOK, NEW id \in Ids, PutDeleted(id)
  PROVE  /\ server' \subseteq Item /\ rev' \in Nat
         /\ \A it \in server' : it \in server \/ it.text = it.id.of
<1>1. id.of \in Texts /\ rev \in Nat /\ rev + 1 \in Nat /\ server \subseteq Item
  BY DEF StateOK, Ids
<1>2. [id |-> id, text |-> id.of, live |-> FALSE, rev |-> rev + 1] \in Item
  BY <1>1 DEF Item
<1>3. CASE UNCHANGED net
  BY <1>1, <1>3 DEF net
<1> DEFINE new == [id |-> id, text |-> id.of, live |-> FALSE, rev |-> rev + 1]
<1>4. CASE server' = {it \in server : it.id # id} \cup {new} /\ rev' = rev + 1
  <2>1. new.text = new.id.of /\ new \in Item
    BY <1>2
  <2> HIDE DEF new
  <2> QED
    BY <1>1, <1>4, <2>1
<1> QED
  BY <1>3, <1>4 DEF PutDeleted

LEMMA UploadPut ==
  ASSUME StateOK, NEW r, r.id \in Ids, r.text \in Texts, PutLive(r)
  PROVE  /\ server' \subseteq Item /\ rev' \in Nat
         /\ \A it \in server' : it \in server \/ (it.text = r.text /\ it.id = r.id)
<1>1. rev \in Nat /\ rev + 1 \in Nat /\ server \subseteq Item
  BY DEF StateOK
<1>2. [id |-> r.id, text |-> r.text, live |-> TRUE, rev |-> rev + 1] \in Item
  BY <1>1 DEF Item
<1>3. CASE UNCHANGED net
  BY <1>1, <1>3 DEF net
<1> DEFINE new == [id |-> r.id, text |-> r.text, live |-> TRUE, rev |-> rev + 1]
<1>4. CASE server' = server \cup {new} /\ rev' = rev + 1
  <2>1. new.text = r.text /\ new.id = r.id /\ new \in Item
    BY <1>2
  <2> HIDE DEF new
  <2> QED
    BY <1>1, <1>4, <2>1
<1> QED
  BY <1>3, <1>4 DEF PutLive

LEMMA DeletionSent ==
  ASSUME StateOK, SendDeletion
  PROVE  /\ server' \subseteq Item /\ {walk', rev'} \subseteq Nat
         /\ \A it \in server' : it \in server \/ it.text = it.id.of
<1> DEFINE j == Least(ToDelete)
<1>1. ToDelete \subseteq DOMAIN journal /\ DOMAIN journal \subseteq Nat
  BY LenProperties DEF StateOK, ToDelete
<1>2. j \in DOMAIN journal /\ j \in Nat
  BY <1>1, LeastIs DEF SendDeletion
<1>3. journal[j] \in Ids
  BY <1>2, LenProperties, ElementOfSeq DEF StateOK
<1>4. PutDeleted(journal[j]) \/ UNCHANGED net
  BY DEF SendDeletion
<1>5. walk' \in Nat
  BY <1>2 DEF SendDeletion, StateOK
<1> HIDE DEF j
<1>6. CASE PutDeleted(journal[j])
  BY <1>3, <1>5, <1>6, DeletionPut
<1>7. CASE UNCHANGED net
  BY <1>5, <1>7 DEF net, StateOK
<1> QED
  BY <1>4, <1>6, <1>7

LEMMA UploadSent ==
  ASSUME StateOK, HaveIds(ram), Upload
  PROVE  /\ server' \subseteq Item /\ {walk', rev'} \subseteq Nat
         /\ \A it \in server' :
              \/ it \in server
              \/ \E i \in DOMAIN ram : it.text = TextOf(i) /\ it.id = ram[i].id
<1> DEFINE i == Least(ToUpload)
           r == [ram[i] EXCEPT !.text = TextOf(i)]
<1>1. ToUpload \subseteq DOMAIN ram /\ DOMAIN ram \subseteq Nat
  BY LenProperties DEF StateOK, ToUpload
<1>2. i \in DOMAIN ram /\ i \in Nat
  BY <1>1, LeastIs DEF Upload
<1>3. ram[i] \in InMemory /\ ram[i].id \in Ids
  <2>1. ram[i] \in InMemory
    BY <1>2, RamElement
  <2> QED
    BY <1>2, <2>1 DEF InMemory, HaveIds
<1>4. r.id = ram[i].id /\ r.text = TextOf(i)
  BY <1>3 DEF InMemory
<1>5. TextOf(i) \in Texts
  <2>1. NewContent[i] \in Record /\ NewContent[i].text = TextOf(i)
    BY <1>2, NewContentIsRecords, LenProperties, ElementOfSeq DEF NewContent
  <2> QED
    BY <2>1 DEF Record
<1>6. PutLive(r) \/ UNCHANGED net
  BY DEF Upload
<1>7. walk' \in Nat
  BY <1>2 DEF Upload, StateOK
<1> HIDE DEF i, r
<1>8. CASE PutLive(r)
  BY <1>2, <1>3, <1>4, <1>5, <1>7, <1>8, UploadPut
<1>9. CASE UNCHANGED net
  BY <1>7, <1>9 DEF net, StateOK
<1> QED
  BY <1>6, <1>8, <1>9

LEMMA ChangedElsewhere ==
  ASSUME StateOK, Elsewhere
  PROVE  /\ server' \subseteq Item /\ rev' \in Nat
         /\ \A it \in server' :
              it.text = it.id.of \/ \E old \in server : it.text = old.text /\ it.id = old.id
<1>1. rev \in Nat /\ rev + 1 \in Nat /\ server \subseteq Item /\ rev' = rev + 1
  BY DEF StateOK, Elsewhere
<1> DEFINE Kin(it) == it.text = it.id.of \/ \E old \in server : it.text = old.text /\ it.id = old.id
<1>2. ASSUME NEW t \in Others, AddElsewhere(t)
      PROVE  server' \subseteq Item /\ \A it \in server' : Kin(it)
  <2> DEFINE new == [id |-> [of |-> t, n |-> 1], text |-> t, live |-> TRUE, rev |-> rev + 1]
  <2>1. new \in Item /\ new.text = new.id.of
    BY <1>1 DEF Item, Ids, Texts
  <2>2. server' = server \cup {new}
    BY <1>2 DEF AddElsewhere
  <2> HIDE DEF new
  <2> QED
    BY <1>1, <2>1, <2>2
<1>3. ASSUME NEW it \in server, ChangeElsewhere(it)
      PROVE  server' \subseteq Item /\ \A x \in server' : Kin(x)
  <2>1. PICK live \in BOOLEAN :
          server' = (server \ {it}) \cup {[it EXCEPT !.live = live, !.rev = rev + 1]}
    BY <1>3 DEF ChangeElsewhere
  <2> DEFINE new == [it EXCEPT !.live = live, !.rev = rev + 1]
  <2>2. new \in Item /\ new.text = it.text /\ new.id = it.id
    BY <1>1 DEF Item
  <2> HIDE DEF new
  <2> QED
    BY <1>1, <2>1, <2>2 DEF new
<1> QED
  BY <1>1, <1>2, <1>3 DEF Elsewhere

-----------------------------------------------------------------------------
(* Types, files and what is in hand *)

LEMMA BaseInit == Init => Base
<1> SUFFICES ASSUME Init PROVE Base
  OBVIOUS
<1>1. <<>> \in Seq(InMemory) /\ <<>> \in Seq(Ids)
  BY EmptySeq
<1>2. StateOK
  BY <1>1 DEF Init, StateOK, Places, Jobs
<1>3. FlagsOK
  BY DEF Init, FlagsOK
<1>4. Installing /\ InHand
  BY DEF Init, Installing, InHand, Writing
<1> QED
  BY <1>2, <1>3, <1>4 DEF Base, TypeOK

LEMMA BaseStep == ASSUME Base, [Next]_vars PROVE Base'
<1>s. StateOK /\ FlagsOK /\ Installing /\ InHand
  BY DEF Base, TypeOK
<1>e. <<>> \in Seq(InMemory) /\ <<>> \in Seq(Ids)
  BY EmptySeq
<1>1. ASSUME NEW next \in {"reading", "probe"}, LoadForBook(next) PROVE Base'
  <2>1. StateOK'
    BY <1>s, <1>1, <1>e, StoredIsRecords, PlacedIsInMemory
       DEF LoadForBook, Recovered, NoFault, StateOK, Places, Jobs, card, dels, mem, call,
           sync, net, told
  <2>2. FlagsOK'
    BY <1>s, <1>1
       DEF LoadForBook, Recovered, NoFault, FlagsOK, card, dels, mem, call, sync, net, told
  <2>3. Installing' /\ InHand'
    BY <1>s, <1>1
       DEF LoadForBook, Recovered, NoFault, Installing, InHand, Writing, HaveIds, card, dels,
           mem, call, sync, net, told
  <2> QED
    BY <2>1, <2>2, <2>3 DEF Base, TypeOK
<1>2. ASSUME NEW next \in {"reading", "closed"}, LoadFails(next) PROVE Base'
  <2>1. StateOK'
    BY <1>s, <1>2
       DEF LoadFails, Recovered, Fault, StateOK, Places, Jobs, card, dels, mem, call, sync,
           net, told
  <2>2. FlagsOK'
    BY <1>s, <1>2
       DEF LoadFails, Recovered, Fault, FlagsOK, card, dels, mem, call, sync, net, told
  <2>3. Installing' /\ InHand'
    BY <1>s, <1>2
       DEF LoadFails, Recovered, Fault, Installing, InHand, Writing, HaveIds, card, dels, mem,
           call, sync, net, told
  <2> QED
    BY <2>1, <2>2, <2>3 DEF Base, TypeOK
<1>3. CASE CloseBook
  <2>1. StateOK'
    BY <1>s, <1>3 DEF CloseBook, StateOK, Places, Jobs, card, dels, mem, call, sync, net, told
  <2>2. FlagsOK'
    BY <1>s, <1>3 DEF CloseBook, FlagsOK, card, dels, mem, call, sync, net, told
  <2>3. Installing' /\ InHand'
    BY <1>s, <1>3
       DEF CloseBook, Installing, InHand, Writing, HaveIds, card, dels, mem, call, sync, net,
           told
  <2> QED
    BY <2>1, <2>2, <2>3 DEF Base, TypeOK
<1>4. CASE Unload
  <2>1. StateOK'
    <3>1. CASE dirty /\ loaded
      BY <1>s, <1>4, <3>1
         DEF Unload, Call, StateOK, Places, Jobs, card, dels, mem, sync, net, told
    <3>2. CASE ~ (dirty /\ loaded)
      <4>1. /\ ram' = <<>> /\ undo' = <<>> /\ repl' = 0 /\ job' = "none" /\ walk' = 0 /\ pc' = "closed"
            /\ UNCHANGED <<card, dels, given, net, told, faults, cuts>>
        BY <1>4, <3>2 DEF Unload, Forget
      <4> QED
        BY <1>s, <1>e, <4>1 DEF StateOK, Places, Jobs, card, dels, net, told
    <3> QED
      BY <3>1, <3>2
  <2>2. FlagsOK'
    BY <1>s, <1>4 DEF Unload, Call, Forget, FlagsOK, card, dels, mem, call, sync, net, told
  <2>3. Installing' /\ InHand'
    BY <1>s, <1>4
       DEF Unload, Call, Forget, Installing, InHand, Writing, HaveIds, card, dels, mem, call,
           sync, net, told
  <2> QED
    BY <2>1, <2>2, <2>3 DEF Base, TypeOK
<1>5. ASSUME NEW t \in Mine, AddClipping(t) PROVE Base'
  <2>1. StateOK'
    <3> DEFINE r == [text |-> t, id |-> NoId, pending |-> TRUE, rev |-> 0, at |-> 0]
    <3>1. r \in InMemory /\ ram' = Append(ram, r)
      BY <1>5 DEF AddClipping, InMemory, Texts
    <3>2. ram' \in Seq(InMemory) /\ Len(ram) + 1 \in Nat
      BY <1>s, <3>1, AddedRam
    <3>3. pc' = "room" /\ job' = "add" /\ undo' = ram /\ repl' = Len(ram) + 1
          /\ UNCHANGED <<card, dels, sync, given, net, told, faults, cuts>>
      BY <1>5 DEF AddClipping, Call
    <3> QED
      BY <1>s, <3>2, <3>3 DEF StateOK, Places, Jobs, card, dels, sync, net, told
  <2>2. FlagsOK'
    BY <1>s, <1>5 DEF AddClipping, Call, FlagsOK, card, dels, mem, call, sync, net, told
  <2>3. Installing' /\ InHand'
    BY <1>s, <1>5, AddedRam
       DEF AddClipping, Call, Installing, InHand, Writing, HaveIds, card, dels, mem, call,
           sync, net, told
  <2> QED
    BY <2>1, <2>2, <2>3 DEF Base, TypeOK
<1>6. ASSUME NEW i \in 1 .. Len(ram), RemoveClippingAt(i) PROVE Base'
  <2>1. StateOK'
    <3>1. i \in DOMAIN ram /\ ram' \in Seq(InMemory)
      BY <1>s, <1>6, RemovedRam DEF RemoveClippingAt
    <3>2. journal' \in Seq(Ids)
      <4>1. CASE ram[i].id = NoId
        BY <1>s, <1>6, <4>1 DEF RemoveClippingAt, StateOK, dels
      <4>2. CASE ram[i].id # NoId
        <5>1. ram[i].id \in Ids
          BY <1>s, <3>1, <4>2, RamElement DEF InMemory
        <5>2. journal' = Append(journal, ram[i].id)
          BY <1>6, <4>2 DEF RemoveClippingAt
        <5> QED
          BY <1>s, <5>1, <5>2, AppendProperties DEF StateOK
      <4> QED
        BY <4>1, <4>2
    <3>3. pc' = "room" /\ job' = "remove" /\ undo' = ram /\ repl' = 0 /\ kept' \subseteq kept
          /\ UNCHANGED <<card, sync, given, net, gone, faults, cuts>>
      BY <1>6 DEF RemoveClippingAt, Call
    <3> QED
      BY <1>s, <3>1, <3>2, <3>3 DEF StateOK, Places, Jobs, card, dels, sync, net, told
  <2>2. FlagsOK'
    BY <1>s, <1>6 DEF RemoveClippingAt, Call, FlagsOK, card, dels, mem, call, sync, net, told
  <2>3. Installing' /\ InHand'
    BY <1>s, <1>6, RemovedRam
       DEF RemoveClippingAt, Call, Installing, InHand, Writing, HaveIds, card, dels, mem,
           call, sync, net, told
  <2> QED
    BY <2>1, <2>2, <2>3 DEF Base, TypeOK
<1>7. CASE JournalFails
  <2>1. StateOK'
    BY <1>s, <1>7
       DEF JournalFails, Fault, StateOK, Places, Jobs, card, dels, mem, call, sync, net, told
  <2>2. FlagsOK'
    BY <1>s, <1>7 DEF JournalFails, Fault, FlagsOK, card, dels, mem, call, sync, net, told
  <2>3. Installing' /\ InHand'
    BY <1>s, <1>7
       DEF JournalFails, Fault, Installing, InHand, Writing, HaveIds, card, dels, mem, call,
           sync, net, told
  <2> QED
    BY <2>1, <2>2, <2>3 DEF Base, TypeOK
<1>8. CASE MakeRoom
  <2>1. StateOK'
    BY <1>s, <1>8
       DEF MakeRoom, Fault, NoFault, Return, StateOK, Places, Jobs, card, dels, mem, call,
           sync, net, told
  <2>2. FlagsOK'
    BY <1>s, <1>8
       DEF MakeRoom, Fault, NoFault, Return, FlagsOK, card, dels, mem, call, sync, net, told
  <2>3. Installing' /\ InHand'
    BY <1>s, <1>8
       DEF MakeRoom, Fault, NoFault, Return, Installing, InHand, Writing, HaveIds, card, dels,
           mem, call, sync, net, told
  <2> QED
    BY <2>1, <2>2, <2>3 DEF Base, TypeOK
<1>9. CASE WriteTmp
  <2>1. StateOK'
    BY <1>s, <1>9, NewContentIsRecords
       DEF WriteTmp, NoFault, StateOK, Places, Jobs, card, dels, mem, call, sync, net, told
  <2>2. FlagsOK'
    BY <1>s, <1>9 DEF WriteTmp, NoFault, FlagsOK, card, dels, mem, call, sync, net, told
  <2>3. Installing' /\ InHand'
    BY <1>s, <1>9, NewContentStays
       DEF WriteTmp, NoFault, Installing, InHand, Writing, HaveIds, Stored, card, dels, mem,
           call, sync, net, told
  <2> QED
    BY <2>1, <2>2, <2>3 DEF Base, TypeOK
<1>10. CASE WriteFails
  <2>1. StateOK'
    BY <1>s, <1>10
       DEF WriteFails, Fault, Return, StateOK, Places, Jobs, card, dels, mem, call, sync, net,
           told
  <2>2. FlagsOK'
    BY <1>s, <1>10
       DEF WriteFails, Fault, Return, FlagsOK, card, dels, mem, call, sync, net, told
  <2>3. Installing' /\ InHand'
    BY <1>s, <1>10
       DEF WriteFails, Fault, Return, Installing, InHand, Writing, HaveIds, card, dels, mem,
           call, sync, net, told
  <2> QED
    BY <2>1, <2>2, <2>3 DEF Base, TypeOK
<1>11. CASE Park
  <2>1. StateOK'
    BY <1>s, <1>11
       DEF Park, Fault, NoFault, Return, StateOK, Places, Jobs, card, dels, mem, call, sync,
           net, told
  <2>2. FlagsOK'
    BY <1>s, <1>11
       DEF Park, Fault, NoFault, Return, FlagsOK, card, dels, mem, call, sync, net, told
  <2>3. Installing' /\ InHand'
    BY <1>s, <1>11, NewContentStays
       DEF Park, Fault, NoFault, Return, Installing, InHand, Writing, HaveIds, Stored, card,
           dels, mem, call, sync, net, told
  <2> QED
    BY <2>1, <2>2, <2>3 DEF Base, TypeOK
<1>12. CASE Swap
  <2>1. StateOK'
    <3>1. tmp \in Seq(Record)
      BY <1>s, <1>12, NewContentIsRecords DEF Swap, Installing
    <3> QED
      BY <1>s, <1>12, <3>1
         DEF Swap, NoFault, StateOK, Places, Jobs, dels, mem, call, sync, net, told
  <2>2. FlagsOK'
    BY <1>s, <1>12 DEF Swap, NoFault, FlagsOK, card, dels, mem, call, sync, net, told
  <2>3. Installing' /\ InHand'
    BY <1>s, <1>12, NewContentIsRecords, FilesDiffer
       DEF Swap, NoFault, Installing, InHand, Writing, HaveIds, card, dels, mem, call, sync,
           net, told
  <2> QED
    BY <2>1, <2>2, <2>3 DEF Base, TypeOK
<1>13. CASE SwapFails
  <2>1. StateOK'
    BY <1>s, <1>13
       DEF SwapFails, Fault, Return, StateOK, Places, Jobs, card, dels, mem, call, sync, net,
           told
  <2>2. FlagsOK'
    BY <1>s, <1>13 DEF SwapFails, Fault, Return, FlagsOK, card, dels, mem, call, sync, net, told
  <2>3. Installing' /\ InHand'
    BY <1>s, <1>13
       DEF SwapFails, Fault, Return, Installing, InHand, Writing, HaveIds, card, dels, mem,
           call, sync, net, told
  <2> QED
    BY <2>1, <2>2, <2>3 DEF Base, TypeOK
<1>14. CASE Tidy
  <2>1. StateOK'
    BY <1>s, <1>14, TidiedRam
       DEF Tidy, Fault, NoFault, Return, StateOK, Places, Jobs, card, dels, mem, call, sync,
           net, told
  <2>2. FlagsOK'
    BY <1>s, <1>14
       DEF Tidy, Fault, NoFault, Return, FlagsOK, card, dels, mem, call, sync, net, told
  <2>3. Installing' /\ InHand'
    BY <1>s, <1>14, TidiedRam
       DEF Tidy, Fault, NoFault, Return, Installing, InHand, Writing, HaveIds, card, dels,
           mem, call, sync, net, told
  <2> QED
    BY <2>1, <2>2, <2>3 DEF Base, TypeOK
<1>15. CASE Added
  <2>1. StateOK'
    <3>1. ram' \in {ram, undo}
      BY <1>15 DEF Added
    <3>2. kept' \subseteq Texts
      <4>1. repl \in DOMAIN ram
        BY <1>s, <1>15 DEF Added, Resume, InHand, Writing
      <4> QED
        BY <1>s, <1>15, <4>1, TextsInMemory DEF Added, StateOK
    <3>3. pc' = "reading" /\ job' = "none" /\ undo' = <<>> /\ repl' = 0
          /\ UNCHANGED <<card, dels, given, net, faults, cuts, sync, gone>>
      BY <1>15 DEF Added, Resume
    <3> QED
      BY <1>s, <1>e, <3>1, <3>2, <3>3 DEF StateOK, Places, Jobs, card, dels, sync, net, told
  <2>2. FlagsOK'
    BY <1>s, <1>15 DEF Added, Resume, FlagsOK, card, dels, mem, call, sync, net, told
  <2>3. Installing' /\ InHand'
    BY <1>s, <1>15
       DEF Added, Resume, Installing, InHand, Writing, HaveIds, card, dels, mem, call, sync,
           net, told
  <2> QED
    BY <2>1, <2>2, <2>3 DEF Base, TypeOK
<1>16. CASE Removed
  <2>1. StateOK'
    BY <1>s, <1>16, TextsInMemory
       DEF Removed, Resume, StateOK, Places, Jobs, card, dels, mem, call, sync, net, told
  <2>2. FlagsOK'
    BY <1>s, <1>16 DEF Removed, Resume, FlagsOK, card, dels, mem, call, sync, net, told
  <2>3. Installing' /\ InHand'
    BY <1>s, <1>16
       DEF Removed, Resume, Installing, InHand, Writing, HaveIds, card, dels, mem, call, sync,
           net, told
  <2> QED
    BY <2>1, <2>2, <2>3 DEF Base, TypeOK
<1>17. CASE Unloaded
  <2>1. StateOK'
    BY <1>s, <1>17, <1>e
       DEF Unloaded, Forget, StateOK, Places, Jobs, card, dels, mem, call, sync, net, told
  <2>2. FlagsOK'
    BY <1>s, <1>17 DEF Unloaded, Forget, FlagsOK, card, dels, mem, call, sync, net, told
  <2>3. Installing' /\ InHand'
    BY <1>s, <1>17
       DEF Unloaded, Forget, Installing, InHand, Writing, HaveIds, card, dels, mem, call,
           sync, net, told
  <2> QED
    BY <2>1, <2>2, <2>3 DEF Base, TypeOK
<1>18. CASE Prepared
  <2>1. StateOK'
    BY <1>s, <1>18, <1>e
       DEF Prepared, Resume, StateOK, Places, Jobs, card, dels, mem, call, sync, net, told
  <2>2. FlagsOK'
    BY <1>s, <1>18 DEF Prepared, Resume, FlagsOK, card, dels, mem, call, sync, net, told
  <2>3. Installing' /\ InHand'
    BY <1>s, <1>18
       DEF Prepared, Resume, Installing, InHand, Writing, HaveIds, card, dels, mem, call,
           sync, net, told
  <2> QED
    BY <2>1, <2>2, <2>3 DEF Base, TypeOK
<1>19. CASE UploadsFinished
  <2>1. StateOK'
    BY <1>s, <1>19, <1>e
       DEF UploadsFinished, Resume, StateOK, Places, Jobs, card, dels, mem, call, sync, net,
           told
  <2>2. FlagsOK'
    BY <1>s, <1>19 DEF UploadsFinished, Resume, FlagsOK, card, dels, mem, call, sync, net, told
  <2>3. Installing' /\ InHand'
    BY <1>s, <1>19
       DEF UploadsFinished, Resume, Installing, InHand, Writing, HaveIds, card, dels, mem,
           call, sync, net, told
  <2> QED
    BY <2>1, <2>2, <2>3 DEF Base, TypeOK
<1>20. CASE Applied
  <2>1. StateOK'
    BY <1>s, <1>20, <1>e, TextsInMemory
       DEF Applied, Resume, StateOK, Places, Jobs, card, dels, mem, call, sync, net, told
  <2>2. FlagsOK'
    BY <1>s, <1>20 DEF Applied, Resume, FlagsOK, card, dels, mem, call, sync, net, told
  <2>3. Installing' /\ InHand'
    BY <1>s, <1>20
       DEF Applied, Resume, Installing, InHand, Writing, HaveIds, card, dels, mem, call, sync,
           net, told
  <2> QED
    BY <2>1, <2>2, <2>3 DEF Base, TypeOK
<1>21. CASE Probe
  <2>1. StateOK'
    BY <1>s, <1>21
       DEF Probe, GiveUp, Fault, NoFault, StateOK, Places, Jobs, card, dels, mem, call, sync,
           net, told
  <2>2. FlagsOK'
    BY <1>s, <1>21
       DEF Probe, GiveUp, Fault, NoFault, FlagsOK, card, dels, mem, call, sync, net, told
  <2>3. Installing' /\ InHand'
    BY <1>s, <1>21
       DEF Probe, GiveUp, Fault, NoFault, Installing, InHand, Writing, HaveIds, card, dels,
           mem, call, sync, net, told
  <2> QED
    BY <2>1, <2>2, <2>3 DEF Base, TypeOK
<1>22. CASE PrepareSync
  <2>1. StateOK'
    <3>1. ram' \in Seq(InMemory)
      BY <1>s, <1>22, DrawnRam
    <3>2. given' \in [Texts -> Nat]
      BY <1>s, <1>22 DEF PrepareSync, StateOK
    <3>3. \/ pc' = "room" /\ job' = "prepare" /\ undo' = ram' /\ repl' = 0
          \/ pc' = "delete" /\ UNCHANGED <<job, undo, repl>>
      BY <1>22 DEF PrepareSync, Call, call
    <3>4. UNCHANGED <<card, dels, sync, net, told, faults, cuts>>
      BY <1>22 DEF PrepareSync
    <3> QED
      BY <1>s, <3>1, <3>2, <3>3, <3>4 DEF StateOK, Places, Jobs, card, dels, sync, net, told
  <2>2. FlagsOK'
    BY <1>s, <1>22 DEF PrepareSync, Call, FlagsOK, card, dels, mem, call, sync, net, told
  <2>3. Installing' /\ InHand'
    BY <1>s, <1>22, DrawnRam
       DEF PrepareSync, Call, Installing, InHand, Writing, HaveIds, card, dels, mem, call,
           sync, net, told
  <2> QED
    BY <2>1, <2>2, <2>3 DEF Base, TypeOK
<1>23. CASE SendDeletion
  <2>1. StateOK'
    <3>1. server' \subseteq Item /\ {walk', rev'} \subseteq Nat
      BY <1>s, <1>23, DeletionSent
    <3>2. pc' \in {"delete", "unload"} /\ faults' \in Nat
      BY <1>s, <1>23 DEF SendDeletion, GiveUp, Fault, NoFault, StateOK
    <3>3. UNCHANGED <<card, journal, ram, job, undo, repl, given, told, cuts>>
      BY <1>23 DEF SendDeletion, mem, call
    <3> QED
      BY <1>s, <3>1, <3>2, <3>3 DEF StateOK, Places, Jobs, card, dels, sync, net, told
  <2>2. FlagsOK'
    BY <1>s, <1>23
       DEF SendDeletion, GiveUp, Fault, NoFault, FlagsOK, card, dels, mem, call, sync, net, told
  <2>3. Installing' /\ InHand'
    BY <1>s, <1>23
       DEF SendDeletion, GiveUp, Fault, NoFault, Installing, InHand, Writing, HaveIds, card,
           dels, mem, call, sync, net, told
  <2> QED
    BY <2>1, <2>2, <2>3 DEF Base, TypeOK
<1>24. CASE JournalUnreadable
  <2>1. StateOK'
    BY <1>s, <1>24
       DEF JournalUnreadable, GiveUp, Fault, StateOK, Places, Jobs, card, dels, mem, call,
           sync, net, told
  <2>2. FlagsOK'
    BY <1>s, <1>24
       DEF JournalUnreadable, GiveUp, Fault, FlagsOK, card, dels, mem, call, sync, net, told
  <2>3. Installing' /\ InHand'
    BY <1>s, <1>24
       DEF JournalUnreadable, GiveUp, Fault, Installing, InHand, Writing, HaveIds, card, dels,
           mem, call, sync, net, told
  <2> QED
    BY <2>1, <2>2, <2>3 DEF Base, TypeOK
<1>25. CASE FinishDeletions
  <2>1. StateOK'
    <3>1. journal' \in Seq(Ids) /\ walk' \in Nat
      <4>1. (journal' = <<>> /\ walk' = 0) \/ (journal' = journal /\ walk' = walk)
        BY <1>25 DEF FinishDeletions
      <4>2. journal \in Seq(Ids) /\ walk \in Nat
        BY <1>s DEF StateOK
      <4>3. CASE journal' = <<>> /\ walk' = 0
        BY <1>e, <4>3
      <4>4. CASE journal' = journal /\ walk' = walk
        BY <4>2, <4>4
      <4> QED
        BY <4>1, <4>3, <4>4
    <3>2. pc' \in {"upload", "unload"} /\ faults' \in Nat
      BY <1>s, <1>25 DEF FinishDeletions, GiveUp, Fault, NoFault, StateOK
    <3>3. UNCHANGED <<card, ram, job, undo, repl, given, net, told, cuts>>
      BY <1>25 DEF FinishDeletions, mem, call
    <3> QED
      BY <1>s, <3>1, <3>2, <3>3 DEF StateOK, Places, Jobs, card, dels, sync, net, told
  <2>2. FlagsOK'
    BY <1>s, <1>25
       DEF FinishDeletions, GiveUp, Fault, NoFault, FlagsOK, card, dels, mem, call, sync, net,
           told
  <2>3. Installing' /\ InHand'
    BY <1>s, <1>25
       DEF FinishDeletions, GiveUp, Fault, NoFault, Installing, InHand, Writing, HaveIds,
           card, dels, mem, call, sync, net, told
  <2> QED
    BY <2>1, <2>2, <2>3 DEF Base, TypeOK
<1>26. CASE Upload
  <2>1. StateOK'
    <3>1. HaveIds(ram)
      BY <1>s, <1>26 DEF Upload, InHand
    <3>2. server' \subseteq Item /\ {walk', rev'} \subseteq Nat
      BY <1>s, <1>26, <3>1, UploadSent
    <3>3. pc' \in {"upload", "unload"} /\ faults' \in Nat
      BY <1>s, <1>26 DEF Upload, GiveUp, Fault, NoFault, StateOK
    <3>4. UNCHANGED <<card, dels, ram, job, undo, repl, given, told, cuts>>
      BY <1>26 DEF Upload, mem, call
    <3> QED
      BY <1>s, <3>2, <3>3, <3>4 DEF StateOK, Places, Jobs, card, dels, sync, net, told
  <2>2. FlagsOK'
    BY <1>s, <1>26
       DEF Upload, GiveUp, Fault, NoFault, FlagsOK, card, dels, mem, call, sync, net, told
  <2>3. Installing' /\ InHand'
    BY <1>s, <1>26
       DEF Upload, GiveUp, Fault, NoFault, Installing, InHand, Writing, HaveIds, card, dels,
           mem, call, sync, net, told
  <2> QED
    BY <2>1, <2>2, <2>3 DEF Base, TypeOK
<1>27. CASE UploadsDone
  <2>1. StateOK'
    BY <1>s, <1>27
       DEF UploadsDone, StateOK, Places, Jobs, card, dels, mem, call, sync, net, told
  <2>2. FlagsOK'
    BY <1>s, <1>27 DEF UploadsDone, FlagsOK, card, dels, mem, call, sync, net, told
  <2>3. Installing' /\ InHand'
    BY <1>s, <1>27
       DEF UploadsDone, Installing, InHand, Writing, HaveIds, card, dels, mem, call, sync,
           net, told
  <2> QED
    BY <2>1, <2>2, <2>3 DEF Base, TypeOK
<1>28. CASE FinishUploads
  <2>1. StateOK'
    <3>1. ram' \in Seq(InMemory)
      BY <1>s, <1>28, SentRam
    <3>2. \/ pc' = "room" /\ job' = "uploads" /\ undo' = ram' /\ repl' = 0
          \/ pc' = "scan" /\ UNCHANGED <<job, undo, repl>>
      BY <1>28 DEF FinishUploads, Call, call
    <3>3. UNCHANGED <<card, dels, sync, given, net, told, faults, cuts>>
      BY <1>28 DEF FinishUploads
    <3> QED
      BY <1>s, <3>1, <3>2, <3>3 DEF StateOK, Places, Jobs, card, dels, sync, net, told
  <2>2. FlagsOK'
    BY <1>s, <1>28 DEF FinishUploads, Call, FlagsOK, card, dels, mem, call, sync, net, told
  <2>3. Installing' /\ InHand'
    BY <1>s, <1>28, SentRam
       DEF FinishUploads, Call, Installing, InHand, Writing, HaveIds, card, dels, mem, call,
           sync, net, told
  <2> QED
    BY <2>1, <2>2, <2>3 DEF Base, TypeOK
<1>29. CASE ScanFails
  <2>1. StateOK'
    BY <1>s, <1>29
       DEF ScanFails, GiveUp, Fault, StateOK, Places, Jobs, card, dels, mem, call, sync, net,
           told
  <2>2. FlagsOK'
    BY <1>s, <1>29 DEF ScanFails, GiveUp, Fault, FlagsOK, card, dels, mem, call, sync, net, told
  <2>3. Installing' /\ InHand'
    BY <1>s, <1>29
       DEF ScanFails, GiveUp, Fault, Installing, InHand, Writing, HaveIds, card, dels, mem,
           call, sync, net, told
  <2> QED
    BY <2>1, <2>2, <2>3 DEF Base, TypeOK
<1>30. CASE NothingUnseen
  <2>1. StateOK'
    BY <1>s, <1>30
       DEF NothingUnseen, StateOK, Places, Jobs, card, dels, mem, call, sync, net, told
  <2>2. FlagsOK'
    BY <1>s, <1>30 DEF NothingUnseen, FlagsOK, card, dels, mem, call, sync, net, told
  <2>3. Installing' /\ InHand'
    BY <1>s, <1>30
       DEF NothingUnseen, Installing, InHand, Writing, HaveIds, card, dels, mem, call, sync,
           net, told
  <2> QED
    BY <2>1, <2>2, <2>3 DEF Base, TypeOK
<1>31. CASE ApplyRemote
  <2>1. StateOK'
    <3>1. UNCHANGED <<card, dels, given, net, gone, faults, cuts>>
      BY <1>31 DEF ApplyRemote
    <3>2. walk' \in Nat
      BY <1>s, <1>31, AppliedRam
    <3>3. CASE pc' \in {"unload", "scan", "synced"} /\ UNCHANGED <<ram, call, kept>>
      BY <1>s, <3>1, <3>2, <3>3 DEF call, StateOK, Places, Jobs, card, dels, net
    <3>4. ASSUME pc' = "room", job' = "apply", undo' = ram, ram' \in Seq(InMemory),
                 repl' \in Nat, kept' \subseteq kept
          PROVE  StateOK'
      BY <1>s, <3>1, <3>2, <3>4 DEF StateOK, Places, Jobs, card, dels, net
    <3>5. ASSUME NEW it \in server, ram' = Append(ram, FromServer(it)) PROVE ram' \in Seq(InMemory) /\ Len(ram) + 1 \in Nat
      BY <1>s, <3>5, FromServerIsInMemory, AddedRam
    <3>6. ASSUME NEW i \in DOMAIN ram, ram' = RemoveAt(ram, i) PROVE ram' \in Seq(InMemory)
      BY <1>s, <3>6, Removal DEF StateOK
    <3>7. ASSUME NEW i \in DOMAIN ram, NEW it \in server, ram' = [ram EXCEPT ![i] = FromServer(it)]
          PROVE  ram' \in Seq(InMemory) /\ i \in Nat
      <4>1. DOMAIN ram = 1 .. Len(ram) /\ ram \in Seq(InMemory) /\ FromServer(it) \in InMemory
        BY <1>s, FromServerIsInMemory, LenProperties DEF StateOK
      <4> QED
        BY <3>7, <4>1, ExceptSeq
    <3> QED
      BY <1>s, <1>31, <3>3, <3>4, <3>5, <3>6, <3>7, AppliedRam
  <2>2. FlagsOK'
    BY <1>s, <1>31 DEF ApplyRemote, Call, FlagsOK, card, dels, mem, call, sync, net, told
  <2>3. Installing' /\ InHand'
    BY <1>s, <1>31, AppliedRam
       DEF ApplyRemote, Call, Installing, InHand, Writing, HaveIds, card, dels, mem, call,
           sync, net, told
  <2> QED
    BY <2>1, <2>2, <2>3 DEF Base, TypeOK
<1>32. CASE Synced
  <2>1. StateOK'
    BY <1>s, <1>32 DEF Synced, StateOK, Places, Jobs, card, dels, mem, call, sync, net, told
  <2>2. FlagsOK'
    BY <1>s, <1>32 DEF Synced, FlagsOK, card, dels, mem, call, sync, net, told
  <2>3. Installing' /\ InHand'
    BY <1>s, <1>32
       DEF Synced, Installing, InHand, Writing, HaveIds, card, dels, mem, call, sync, net, told
  <2> QED
    BY <2>1, <2>2, <2>3 DEF Base, TypeOK
<1>33. CASE Elsewhere
  <2>1. StateOK'
    BY <1>s, <1>33, ChangedElsewhere
       DEF Elsewhere, StateOK, Places, Jobs, card, dels, mem, call, sync, net, told
  <2>2. FlagsOK'
    BY <1>s, <1>33 DEF Elsewhere, FlagsOK, card, dels, mem, call, sync, net, told
  <2>3. Installing' /\ InHand'
    BY <1>s, <1>33, NewContentStays
       DEF Elsewhere, Installing, InHand, Writing, HaveIds, Stored, card, dels, mem, call,
           sync, net, told
  <2> QED
    BY <2>1, <2>2, <2>3 DEF Base, TypeOK
<1>34. CASE PowerCut
  <2>1. StateOK'
    BY <1>s, <1>34, <1>e
       DEF PowerCut, Forget, StateOK, Places, Jobs, card, dels, mem, call, sync, net, told
  <2>2. FlagsOK'
    BY <1>s, <1>34 DEF PowerCut, Forget, FlagsOK, card, dels, mem, call, sync, net, told
  <2>3. Installing' /\ InHand'
    BY <1>s, <1>34
       DEF PowerCut, Forget, Installing, InHand, Writing, HaveIds, card, dels, mem, call,
           sync, net, told
  <2> QED
    BY <2>1, <2>2, <2>3 DEF Base, TypeOK
<1>35. CASE UNCHANGED vars
  <2>1. StateOK'
    BY <1>s, <1>35 DEF vars, StateOK, Places, Jobs, card, dels, mem, call, sync, net, told
  <2>2. FlagsOK'
    BY <1>s, <1>35 DEF vars, FlagsOK, card, dels, mem, call, sync, net, told
  <2>3. Installing' /\ InHand'
    BY <1>s, <1>35, NewContentStays
       DEF vars, Installing, InHand, Writing, HaveIds, Stored, card, dels, mem, call, sync,
           net, told
  <2> QED
    BY <2>1, <2>2, <2>3 DEF Base, TypeOK
<1> QED
  BY <1>1, <1>2, <1>3, <1>4, <1>5, <1>6, <1>7, <1>8, <1>9, <1>10, <1>11, <1>12, <1>13, <1>14,
     <1>15, <1>16, <1>17, <1>18, <1>19, <1>20, <1>21, <1>22, <1>23, <1>24, <1>25, <1>26,
     <1>27, <1>28, <1>29, <1>30, <1>31, <1>32, <1>33, <1>34, <1>35
     DEF Next, OpenBook, StartSync, WriteToFile, Resumed, Run

-----------------------------------------------------------------------------
(* No clipping is lost, and none gets the text of another *)

LEMMA StoredStays ==
  ASSUME Installing,
         \/ Recovered \/ UNCHANGED <<main, bak>>
         \/ MakeRoom \/ WriteTmp \/ WriteFails \/ Park \/ SwapFails \/ Tidy
  PROVE  Stored' = Stored
<1>1. CASE Recovered \/ UNCHANGED <<main, bak>>
  BY <1>1 DEF Recovered, Stored
<1>2. CASE MakeRoom
  BY <1>2 DEF MakeRoom, Stored, card
<1>3. CASE WriteTmp \/ WriteFails
  BY <1>3 DEF WriteTmp, WriteFails, Stored
<1>4. CASE Park
  BY <1>4 DEF Park, Stored, card
<1>5. CASE SwapFails
  BY <1>5 DEF SwapFails, Stored, Installing
<1>6. CASE Tidy
  BY <1>6 DEF Tidy, Stored, Installing
<1> QED
  BY <1>1, <1>2, <1>3, <1>4, <1>5, <1>6

\* Outside writeToFile() every record in memory finds its text.
LEMMA AtRest ==
  ASSUME Inv, ~Writing
  PROVE  AllFit(ram) /\ repl = 0
<1>1. repl = 0
  BY DEF Inv, Base, InHand
<1>2. StateOK /\ Placing /\ pc # "tidy"
  BY DEF Inv, Base, TypeOK, Writing
<1>3. \A i \in DOMAIN ram : i # repl
  BY <1>1, <1>2, RamElement
<1> QED
  BY <1>1, <1>2, <1>3 DEF Placing, AllFit

LEMMA Quiet ==
  ASSUME Placing, Keeping, Owning,
         UNCHANGED <<ram, undo, repl, kept, loaded>>, Stored' = Stored,
         \A it \in server' : it.text = it.id.of,
         \/ ~Writing /\ ~Writing'
         \/ /\ pc \in {"room", "write", "park", "swap"}
            /\ pc' \in {"room", "write", "park", "swap"} \/ (pc' = "return" /\ ~ok')
         \/ pc' = pc /\ ok' = ok
  PROVE  Placing' /\ Keeping' /\ Owning'
<1>1. \A i \in DOMAIN ram : Fits(ram, i) => Fits(ram, i)'
  BY DEF Fits
<1>2. AllFit(ram) => AllFit(ram)'
  BY DEF AllFit, Fits
<1>3. AllFit(undo) => AllFit(undo)'
  BY DEF AllFit, Fits
<1>4. Placing'
  <2>1. CASE ~Writing /\ ~Writing'
    BY <1>1, <2>1 DEF Placing, Writing
  <2>2. CASE /\ pc \in {"room", "write", "park", "swap"}
             /\ pc' \in {"room", "write", "park", "swap"} \/ (pc' = "return" /\ ~ok')
    BY <1>1, <1>3, <2>2 DEF Placing
  <2>3. CASE pc' = pc /\ ok' = ok
    BY <1>1, <1>2, <1>3, <2>3 DEF Placing
  <2> QED
    BY <2>1, <2>2, <2>3
<1>5. Covers(Stored)' /\ (loaded => Covers(ram))' /\ (Covers(undo) => Covers(undo)')
  BY DEF Keeping, Covers
<1>6. Writing' => Writing
  BY DEF Writing
<1>7. Keeping'
  BY <1>5, <1>6 DEF Keeping
<1>8. Owning'
  BY DEF Owning, OwnIds
<1> QED
  BY <1>4, <1>7, <1>8

\* writeToFile() is called while every record finds its text.
LEMMA Called ==
  ASSUME Keeping, Owning, Stored' = Stored, pc' = "room", loaded' = loaded, kept' \subseteq kept,
         server' = server,
         AllFit(undo)', Covers(undo)', Covers(ram)', OwnIds(undo)', OwnIds(ram)',
         \A i \in DOMAIN ram' : i # repl' => Fits(ram, i)'
  PROVE  Placing' /\ Keeping' /\ Owning'
<1>1. Placing'
  BY DEF Placing
<1>2. Covers(Stored)'
  BY DEF Keeping, Covers
<1>3. Keeping'
  BY <1>2 DEF Keeping
<1>4. Owning'
  BY DEF Owning, OwnIds
<1> QED
  BY <1>1, <1>3, <1>4

\* The store is unloaded, or power is lost.
LEMMA Forgotten ==
  ASSUME Keeping, Owning, Stored' = Stored, Forget, kept' = kept, server' = server
  PROVE  Placing' /\ Keeping' /\ Owning'
<1>1. ram' = <<>> /\ undo' = <<>> /\ pc' = "closed" /\ loaded' = FALSE
  BY DEF Forget
<1>2. DOMAIN ram' = {} /\ DOMAIN undo' = {}
  BY <1>1
<1>3. Placing'
  BY <1>1, <1>2 DEF Placing
<1>4. Covers(Stored)' /\ ~Writing'
  BY <1>1 DEF Keeping, Covers, Writing
<1>5. Keeping'
  BY <1>1, <1>4 DEF Keeping
<1>6. Owning'
  BY <1>2 DEF Owning, OwnIds
<1> QED
  BY <1>3, <1>5, <1>6

LEMMA LoadKeeps ==
  ASSUME Inv, NEW next \in {"reading", "probe"}, LoadForBook(next)
  PROVE  Placing' /\ Keeping' /\ Owning'
<1>1. Stored' = Stored
  BY StoredStays DEF LoadForBook, Inv, Base
<1>2. ram' = Placed(Stored) /\ pc' = next /\ UNCHANGED <<undo, repl, kept, server>>
  BY DEF LoadForBook, call, told, net
<1>3. DOMAIN ram' = DOMAIN Stored
  BY <1>2, StoredIsRecords, PlacedIsInMemory DEF Inv, Base, TypeOK
<1>4. \A i \in DOMAIN Stored : /\ ram'[i].at = i /\ ram'[i].text = Stored[i].text
                               /\ ram'[i].id = Stored[i].id
  BY <1>2 DEF Placed
<1>5. Placing'
  BY <1>1, <1>2, <1>3, <1>4 DEF Placing, Fits
<1>6. Covers(Stored)' /\ Covers(ram)' /\ ~Writing'
  BY <1>1, <1>2, <1>3, <1>4 DEF Inv, Keeping, Covers, Writing
<1>7. Keeping'
  BY <1>6 DEF Keeping
<1>8. Owning'
  BY <1>1, <1>2, <1>3, <1>4 DEF Inv, Owning, OwnIds
<1> QED
  BY <1>5, <1>7, <1>8

LEMMA AddKeeps ==
  ASSUME Inv, NEW t \in Mine, AddClipping(t)
  PROVE  Placing' /\ Keeping' /\ Owning'
<1> DEFINE r == [text |-> t, id |-> NoId, pending |-> TRUE, rev |-> 0, at |-> 0]
<1>s. StateOK /\ Keeping /\ Owning /\ pc = "reading" /\ loaded
  BY DEF Inv, Base, TypeOK, AddClipping
<1>1. /\ Stored' = Stored /\ pc' = "room" /\ undo' = ram /\ repl' = Len(ram) + 1
      /\ ram' = Append(ram, r) /\ UNCHANGED <<loaded, kept, server>>
  BY DEF AddClipping, Call, card, Stored, told, net
<1>2. r \in InMemory /\ r.id = NoId
  BY DEF InMemory, Texts
<1> HIDE DEF r
<1>3. /\ DOMAIN ram' = DOMAIN ram \cup {Len(ram) + 1}
      /\ ram'[Len(ram) + 1] = r
      /\ \A i \in DOMAIN ram : ram'[i] = ram[i]
  BY <1>s, <1>1, <1>2, AddedRam
<1>4. AllFit(ram)
  BY <1>s, AtRest DEF Writing
<1>5. AllFit(undo)' /\ Covers(undo)' /\ OwnIds(undo)'
  BY <1>s, <1>1, <1>4 DEF AllFit, Fits, Covers, OwnIds, Keeping, Owning
<1>6. Covers(ram)' /\ OwnIds(ram)'
  BY <1>s, <1>1, <1>2, <1>3 DEF Covers, OwnIds, Keeping, Owning
<1>7. \A i \in DOMAIN ram' : i # repl' => Fits(ram, i)'
  BY <1>1, <1>3, <1>4 DEF AllFit, Fits
<1> QED
  BY <1>s, <1>1, <1>5, <1>6, <1>7, Called

\* A record leaves the store, by the user or by another device.
LEMMA RemovalKeeps ==
  ASSUME Inv, loaded, ~Writing, NEW i \in DOMAIN ram, ram' = RemoveAt(ram, i),
         kept' = kept \ {ram[i].text}, undo' = ram, repl' = 0, pc' = "room",
         Stored' = Stored, UNCHANGED <<loaded, server>>
  PROVE  Placing' /\ Keeping' /\ Owning'
<1>s. StateOK /\ Keeping /\ Owning
  BY DEF Inv, Base, TypeOK
<1>1. /\ \A j \in DOMAIN ram' : \E k \in DOMAIN ram : k # i /\ ram'[j] = ram[k]
      /\ \A k \in DOMAIN ram \ {i} : \E j \in DOMAIN ram' : ram'[j] = ram[k]
  <2>1. ram \in Seq(InMemory)
    BY <1>s DEF StateOK
  <2>2. /\ \A j \in DOMAIN RemoveAt(ram, i) : \E k \in DOMAIN ram : k # i /\ RemoveAt(ram, i)[j] = ram[k]
        /\ \A k \in DOMAIN ram \ {i} : \E j \in DOMAIN RemoveAt(ram, i) : RemoveAt(ram, i)[j] = ram[k]
    BY <2>1, Removal
  <2> QED
    BY <2>2, Zenon
<1>2. AllFit(ram)
  BY AtRest
<1>3. AllFit(undo)' /\ Covers(undo)' /\ OwnIds(undo)'
  BY <1>s, <1>2 DEF AllFit, Fits, Covers, OwnIds, Keeping, Owning
<1>4. OwnIds(ram)' /\ \A j \in DOMAIN ram' : Fits(ram, j)'
  <2> SUFFICES ASSUME NEW j \in DOMAIN ram'
               PROVE  /\ Fits(ram, j)'
                      /\ ram'[j].id # NoId => ram'[j].id.of = ram'[j].text
    BY DEF OwnIds
  <2>1. PICK k \in DOMAIN ram : ram'[j] = ram[k]
    BY <1>1
  <2>2. Fits(ram, k) /\ (ram[k].id # NoId => ram[k].id.of = ram[k].text)
    BY <1>s, <1>2 DEF AllFit, Owning, OwnIds
  <2> QED
    BY <2>1, <2>2 DEF Fits
<1>5. Covers(ram)'
  <2> SUFFICES ASSUME NEW t \in kept' PROVE \E j \in DOMAIN ram' : ram'[j].text = t
    BY DEF Covers
  <2>1. t \in kept /\ t # ram[i].text
    OBVIOUS
  <2>2. PICK k \in DOMAIN ram : ram[k].text = t
    BY <1>s, <2>1 DEF Keeping, Covers
  <2>3. k \in DOMAIN ram \ {i}
    BY <2>1, <2>2
  <2> QED
    BY <1>1, <2>2, <2>3
<1> QED
  BY <1>s, <1>3, <1>4, <1>5, Called

\* The records change in their ids and marks only, and the store is saved or the run goes on.
LEMMA MarkingKeeps ==
  ASSUME Inv, loaded, ~Writing, DOMAIN ram' = DOMAIN ram,
         \A i \in DOMAIN ram : /\ ram'[i].text = ram[i].text /\ ram'[i].at = ram[i].at
                               /\ ram'[i].id = ram[i].id \/ ram'[i].id.of = ram[i].text,
         \/ pc' = "room" /\ undo' = ram' /\ repl' = 0
         \/ ~Writing' /\ UNCHANGED <<undo, repl>>,
         Stored' = Stored, UNCHANGED <<loaded, server, kept>>
  PROVE  Placing' /\ Keeping' /\ Owning'
<1>s. StateOK /\ Keeping /\ Owning
  BY DEF Inv, Base, TypeOK
<1>1. AllFit(ram)
  BY AtRest
<1>2. AllFit(ram)'
  BY <1>1 DEF AllFit, Fits
<1>3. Covers(ram)' /\ OwnIds(ram)'
  BY <1>s DEF Covers, OwnIds, Keeping, Owning
<1>4. CASE pc' = "room" /\ undo' = ram' /\ repl' = 0
  <2>1. AllFit(undo)' /\ Covers(undo)' /\ OwnIds(undo)'
    BY <1>2, <1>3, <1>4 DEF AllFit, Fits, Covers, OwnIds
  <2>2. \A i \in DOMAIN ram' : Fits(ram, i)'
    BY <1>2 DEF AllFit
  <2> QED
    BY <1>s, <1>3, <1>4, <2>1, <2>2, Called
<1>5. CASE ~Writing' /\ UNCHANGED <<undo, repl>>
  <2>1. Placing'
    BY <1>2, <1>5 DEF Placing, Writing, AllFit
  <2>2. Covers(Stored)'
    BY <1>s DEF Keeping, Covers
  <2>3. Keeping'
    BY <1>3, <1>5, <2>2 DEF Keeping
  <2>4. Owning'
    BY <1>s, <1>3, <1>5 DEF Owning, OwnIds
  <2> QED
    BY <2>1, <2>3, <2>4
<1> QED
  BY <1>4, <1>5

LEMMA ApplyKeeps ==
  ASSUME Inv, ApplyRemote
  PROVE  Placing' /\ Keeping' /\ Owning'
<1>s. StateOK /\ InHand /\ Placing /\ Keeping /\ Owning
  BY DEF Inv, Base, TypeOK
<1>1. /\ Stored' = Stored /\ pc = "scan" /\ loaded /\ ~Writing
      /\ UNCHANGED <<server, loaded>>
  BY <1>s DEF ApplyRemote, InHand, Writing, Stored, card, net
<1>2. AllFit(ram) /\ repl = 0
  BY <1>1, AtRest
<1>3. \A it \in server : it.text = it.id.of
  BY <1>s DEF Owning
<1>4. CASE pc' \in {"unload", "scan", "synced"} /\ UNCHANGED <<ram, call, kept>>
  <2>1. ~Writing' /\ UNCHANGED <<undo, repl>>
    BY <1>4 DEF Writing, call
  <2> QED
    BY <1>s, <1>1, <1>3, <1>4, <2>1, Quiet
<1>5. ASSUME pc' = "room", undo' = ram, NEW it \in server, ram' = Append(ram, FromServer(it)),
             repl' = Len(ram) + 1, kept' = kept
      PROVE  Placing' /\ Keeping' /\ Owning'
  <2>1. FromServer(it) \in InMemory /\ FromServer(it).id.of = FromServer(it).text
    BY <1>s, <1>3, FromServerIsInMemory DEF FromServer
  <2>2. /\ DOMAIN ram' = DOMAIN ram \cup {Len(ram) + 1}
        /\ ram'[Len(ram) + 1] = FromServer(it)
        /\ \A i \in DOMAIN ram : ram'[i] = ram[i]
    BY <1>s, <1>5, <2>1, AddedRam
  <2>3. AllFit(undo)' /\ Covers(undo)' /\ OwnIds(undo)'
    BY <1>s, <1>1, <1>2, <1>5 DEF AllFit, Fits, Covers, OwnIds, Keeping, Owning
  <2>4. Covers(ram)' /\ OwnIds(ram)'
    BY <1>s, <1>1, <1>5, <2>1, <2>2 DEF Covers, OwnIds, Keeping, Owning
  <2>5. \A i \in DOMAIN ram' : i # repl' => Fits(ram, i)'
    BY <1>1, <1>2, <1>5, <2>2 DEF AllFit, Fits
  <2> QED
    BY <1>s, <1>1, <1>5, <2>3, <2>4, <2>5, Called
<1>6. ASSUME pc' = "room", undo' = ram, NEW i \in DOMAIN ram, ram' = RemoveAt(ram, i),
             repl' = 0, kept' = kept \ {ram[i].text}
      PROVE  Placing' /\ Keeping' /\ Owning'
  BY <1>1, <1>6, RemovalKeeps
<1>7. ASSUME pc' = "room", undo' = ram, NEW i \in DOMAIN ram, NEW it \in server,
             ram[i].id = it.id, ram' = [ram EXCEPT ![i] = FromServer(it)],
             repl' = i, kept' = kept
      PROVE  Placing' /\ Keeping' /\ Owning'
  <2>1. ram[i].id # NoId
    BY <1>s, <1>7, FilesDiffer DEF StateOK, Item
  <2>2. FromServer(it).id.of = FromServer(it).text /\ FromServer(it).text = ram[i].text
    BY <1>s, <1>3, <1>7, <2>1 DEF FromServer, Owning, OwnIds
  <2>3. DOMAIN ram' = DOMAIN ram /\ ram'[i] = FromServer(it)
        /\ \A j \in DOMAIN ram : j # i => ram'[j] = ram[j]
    BY <1>7
  <2>4. AllFit(undo)' /\ Covers(undo)' /\ OwnIds(undo)'
    BY <1>s, <1>1, <1>2, <1>7 DEF AllFit, Fits, Covers, OwnIds, Keeping, Owning
  <2>5. \A j \in DOMAIN ram : ram'[j].text = ram[j].text
    BY <2>2, <2>3
  <2>6. Covers(ram)'
    BY <1>s, <1>1, <1>7, <2>3, <2>5 DEF Covers, Keeping
  <2>7. OwnIds(ram)'
    BY <1>s, <2>2, <2>3 DEF OwnIds, Owning
  <2>8. \A j \in DOMAIN ram' : j # repl' => Fits(ram, j)'
    BY <1>1, <1>2, <1>7, <2>3 DEF AllFit, Fits
  <2> QED
    BY <1>s, <1>1, <1>7, <2>4, <2>6, <2>7, <2>8, Called
<1> QED
  BY <1>s, <1>4, <1>5, <1>6, <1>7, AppliedRam

LEMMA SwapKeeps ==
  ASSUME Inv, Swap
  PROVE  Placing' /\ Keeping' /\ Owning'
<1>s. StateOK /\ InHand /\ Installing /\ Placing /\ Keeping /\ Owning
  BY DEF Inv, Base, TypeOK
<1>1. pc = "swap" /\ pc' = "tidy" /\ loaded /\ Writing
      /\ UNCHANGED <<ram, undo, kept, loaded, server>>
  BY <1>s DEF Swap, InHand, Writing, mem, call, told, net
<1>2. tmp = NewContent /\ NewContent \in Seq(Record) /\ DOMAIN NewContent = DOMAIN ram
  BY <1>s, <1>1, NewContentIsRecords DEF Installing
<1>3. Stored' = NewContent
  BY <1>2, FilesDiffer DEF Swap, Stored
<1>4. \A i \in DOMAIN ram : TextOf(i) = ram[i].text
  BY <1>s, <1>1 DEF Placing, Fits, TextOf
<1>5. \A i \in DOMAIN ram : NewContent[i].text = ram[i].text /\ NewContent[i].id = ram[i].id
  BY <1>4 DEF NewContent
<1>6. Placing'
  BY <1>1, <1>2, <1>3, <1>5 DEF Placing
<1>7. Covers(ram)' /\ Covers(undo)'
  BY <1>s, <1>1 DEF Keeping, Covers
<1>8. Covers(Stored)'
  BY <1>1, <1>2, <1>3, <1>5, <1>7 DEF Covers
<1>9. Keeping'
  BY <1>7, <1>8 DEF Keeping
<1>10. Owning'
  BY <1>s, <1>1, <1>2, <1>3, <1>5 DEF Owning, OwnIds
<1> QED
  BY <1>6, <1>9, <1>10

LEMMA TidyKeeps ==
  ASSUME Inv, Tidy
  PROVE  Placing' /\ Keeping' /\ Owning'
<1>s. StateOK /\ InHand /\ Installing /\ Placing /\ Keeping /\ Owning
  BY DEF Inv, Base, TypeOK
<1>1. pc = "tidy" /\ pc' = "return" /\ ok' = TRUE /\ loaded /\ Writing
      /\ UNCHANGED <<undo, kept, loaded, server>>
  BY <1>s DEF Tidy, Return, InHand, Writing, call, told, net
<1>2. Stored' = Stored
  BY <1>s, StoredStays
<1>3. /\ DOMAIN ram' = DOMAIN ram
      /\ \A i \in DOMAIN ram : ram'[i].text = ram[i].text /\ ram'[i].id = ram[i].id
                               /\ ram'[i].at = i
  BY <1>s, TidiedRam
<1>4. DOMAIN Stored = DOMAIN ram /\ \A i \in DOMAIN ram : Stored[i].text = ram[i].text
  BY <1>s, <1>1 DEF Placing
<1>5. \A i \in DOMAIN ram' : Fits(ram, i)'
  BY <1>2, <1>3, <1>4 DEF Fits
<1>6. AllFit(ram)'
  BY <1>5 DEF AllFit
<1>7. Placing'
  BY <1>1, <1>5, <1>6 DEF Placing
<1>8. Covers(ram)' /\ Covers(undo)' /\ Covers(Stored)'
  BY <1>s, <1>1, <1>2, <1>3 DEF Keeping, Covers
<1>9. Keeping'
  BY <1>8 DEF Keeping
<1>10. Owning'
  BY <1>s, <1>1, <1>2, <1>3 DEF Owning, OwnIds
<1> QED
  BY <1>7, <1>9, <1>10

\* The write answered; the records are the new ones or the old ones.
LEMMA AnswerKeeps ==
  ASSUME Inv, pc = "return", ~Writing', repl' = 0, undo' = <<>>, Stored' = Stored,
         UNCHANGED <<loaded, server>>,
         \/ ram' = ram /\ (ok \/ repl = 0)
         \/ ram' = undo /\ ~ok,
         \A t \in kept' : \/ t \in kept
                          \/ \E i \in DOMAIN ram' : ram'[i].text = t
  PROVE  Placing' /\ Keeping' /\ Owning'
<1>s. StateOK /\ InHand /\ Placing /\ Keeping /\ Owning /\ Writing /\ loaded
  BY DEF Inv, Base, TypeOK, InHand, Writing
<1>1. \A i \in DOMAIN ram : i # 0
  BY <1>s, RamElement
<1>2. \A i \in DOMAIN ram' : Fits(ram, i)'
  <2>1. CASE ram' = ram /\ (ok \/ repl = 0)
    BY <1>s, <1>1, <2>1 DEF Placing, AllFit, Fits
  <2>2. CASE ram' = undo /\ ~ok
    BY <1>s, <2>2 DEF Placing, AllFit, Fits
  <2> QED
    BY <2>1, <2>2
<1>3. Placing'
  BY <1>2 DEF Placing, Writing
<1>4. \A t \in kept : \E i \in DOMAIN ram' : ram'[i].text = t
  BY <1>s DEF Keeping, Covers
<1>5. Covers(ram)'
  BY <1>4 DEF Covers
<1>6. Covers(Stored)'
  <2> SUFFICES ASSUME NEW t \in kept' PROVE \E i \in DOMAIN Stored : Stored[i].text = t
    BY DEF Covers
  <2>1. PICK i \in DOMAIN ram' : ram'[i].text = t
    BY <1>5 DEF Covers
  <2> QED
    BY <1>2, <2>1 DEF Fits
<1>7. Keeping'
  BY <1>5, <1>6 DEF Keeping
<1>8. DOMAIN undo' = {}
  OBVIOUS
<1>9. Owning'
  BY <1>s, <1>8 DEF Owning, OwnIds
<1> QED
  BY <1>3, <1>7, <1>9

LEMMA ResumedKeeps ==
  ASSUME Inv, Added \/ Removed \/ Prepared \/ UploadsFinished \/ Applied
  PROVE  Placing' /\ Keeping' /\ Owning'
<1>s. StateOK /\ InHand
  BY DEF Inv, Base, TypeOK
<1>0. /\ pc = "return" /\ ~Writing' /\ repl' = 0 /\ undo' = <<>> /\ UNCHANGED <<card, loaded, server>>
  BY DEF Added, Removed, Prepared, UploadsFinished, Applied, Resume, Writing, net
<1>1. Stored' = Stored
  BY <1>0 DEF card, Stored
<1>2. CASE Added
  <2>1. job = "add" /\ repl \in DOMAIN ram
    BY <1>s, <1>0, <1>2 DEF Added, Resume, InHand, Writing
  <2>2. CASE ok
    <3>1. ram' = ram /\ kept' = kept \cup {ram[repl].text}
      BY <1>2, <2>2 DEF Added
    <3>2. \A t \in kept' : t \in kept \/ \E i \in DOMAIN ram' : ram'[i].text = t
      BY <2>1, <3>1
    <3> QED
      BY <1>0, <1>1, <2>2, <3>1, <3>2, AnswerKeeps
  <2>3. CASE ~ok
    <3>1. ram' = undo /\ kept' = kept
      BY <1>2, <2>3 DEF Added
    <3> QED
      BY <1>0, <1>1, <2>3, <3>1, AnswerKeeps
  <2> QED
    BY <2>2, <2>3
<1>3. \A t \in Dropped(undo, ram) : \E i \in DOMAIN undo : undo[i].text = t
  BY DEF Dropped
<1>4. CASE Removed \/ Applied
  <2>1. CASE ok
    <3>1. ram' = ram /\ kept' \in {kept, kept \cup {ram[i].text : i \in DOMAIN ram}}
      BY <1>4, <2>1 DEF Removed, Applied
    <3>2. \A t \in kept' : t \in kept \/ \E i \in DOMAIN ram' : ram'[i].text = t
      BY <3>1
    <3> QED
      BY <1>0, <1>1, <2>1, <3>1, <3>2, AnswerKeeps
  <2>2. CASE ~ok
    <3>1. ram' = undo /\ kept' = kept \cup Dropped(undo, ram)
      BY <1>4, <2>2 DEF Removed, Applied
    <3>2. \A t \in kept' : t \in kept \/ \E i \in DOMAIN ram' : ram'[i].text = t
      BY <1>3, <3>1
    <3> QED
      BY <1>0, <1>1, <2>2, <3>1, <3>2, AnswerKeeps
  <2> QED
    BY <2>1, <2>2
<1>5. CASE Prepared \/ UploadsFinished
  <2>1. ram' = ram /\ kept' = kept /\ job \in {"prepare", "uploads"}
    BY <1>5 DEF Prepared, UploadsFinished, Resume, told
  <2>2. repl = 0
    BY <1>s, <2>1 DEF InHand
  <2> QED
    BY <1>0, <1>1, <2>1, <2>2, AnswerKeeps
<1> QED
  BY <1>2, <1>4, <1>5

LEMMA InvInit == Init => Inv
<1> SUFFICES ASSUME Init PROVE Inv
  OBVIOUS
<1>1. Stored = <<>> /\ ram = <<>> /\ undo = <<>> /\ kept = {} /\ server = {} /\ pc = "closed"
  BY DEF Init, Stored
<1>2. DOMAIN Stored = {} /\ DOMAIN ram = {} /\ DOMAIN undo = {}
  BY <1>1
<1>3. Placing /\ Keeping
  BY <1>1, <1>2 DEF Placing, AllFit, Keeping, Covers
<1>4. Owning
  BY <1>1, <1>2 DEF Owning, OwnIds
<1> QED
  BY <1>3, <1>4, BaseInit DEF Inv

LEMMA InvStep == ASSUME Inv, [Next]_vars PROVE Inv'
<1>b. Base'
  BY BaseStep DEF Inv
<1>s. StateOK /\ InHand /\ Installing /\ Placing /\ Keeping /\ Owning
  BY DEF Inv, Base, TypeOK
<1>o. \A it \in server : it.text = it.id.of
  BY <1>s DEF Owning
<1> SUFFICES Placing' /\ Keeping' /\ Owning'
  BY <1>b DEF Inv
<1>1. ASSUME NEW next \in {"reading", "probe"}, LoadForBook(next) PROVE Placing' /\ Keeping' /\ Owning'
  BY <1>1, LoadKeeps
<1>2. ASSUME NEW next \in {"reading", "closed"}, LoadFails(next) PROVE Placing' /\ Keeping' /\ Owning'
  <2>1. Stored' = Stored
    BY <1>s, <1>2, StoredStays DEF LoadFails, card
  <2>2. ~Writing /\ ~Writing' /\ UNCHANGED <<ram, undo, repl, kept, loaded, server>>
    BY <1>2 DEF LoadFails, Writing, mem, call, told, net
  <2> QED
    BY <1>s, <1>o, <2>1, <2>2, Quiet
<1>3. CASE \/ CloseBook \/ JournalFails \/ Probe \/ JournalUnreadable \/ FinishDeletions
           \/ UploadsDone \/ ScanFails \/ NothingUnseen \/ Synced
  <2>1. UNCHANGED <<main, bak>> /\ UNCHANGED <<ram, undo, repl, kept, loaded, server>>
    BY <1>3 DEF CloseBook, JournalFails, Probe, JournalUnreadable, FinishDeletions,
                UploadsDone, ScanFails, NothingUnseen, Synced, card, mem, call, told, net
  <2>2. ~Writing /\ ~Writing'
    BY <1>3 DEF CloseBook, JournalFails, Probe, JournalUnreadable, FinishDeletions,
                UploadsDone, ScanFails, NothingUnseen, Synced, GiveUp, Writing
  <2> QED
    BY <1>s, <1>o, <2>1, <2>2, StoredStays, Quiet
<1>4. CASE Unload
  <2>1. Stored' = Stored /\ kept' = kept /\ server' = server
    BY <1>4 DEF Unload, card, Stored, told, net
  <2>2. CASE dirty /\ loaded
    <3>1. pc' = "room" /\ undo' = ram' /\ repl' = 0 /\ UNCHANGED <<ram, loaded>>
      BY <1>4, <2>2 DEF Unload, Call, mem
    <3>2. ~Writing
      BY <1>4 DEF Unload, Writing
    <3> QED
      BY <2>1, <2>2, <3>1, <3>2, MarkingKeeps
  <2>3. CASE ~ (dirty /\ loaded)
    <3>1. Forget
      BY <1>4, <2>3 DEF Unload
    <3> QED
      BY <1>s, <2>1, <3>1, Forgotten
  <2> QED
    BY <2>2, <2>3
<1>5. ASSUME NEW t \in Mine, AddClipping(t) PROVE Placing' /\ Keeping' /\ Owning'
  BY <1>5, AddKeeps
<1>6. ASSUME NEW i \in 1 .. Len(ram), RemoveClippingAt(i) PROVE Placing' /\ Keeping' /\ Owning'
  <2>1. loaded /\ ~Writing /\ i \in DOMAIN ram
    BY <1>6 DEF RemoveClippingAt, Writing
  <2>2. /\ ram' = RemoveAt(ram, i) /\ kept' = kept \ {ram[i].text} /\ undo' = ram /\ repl' = 0
        /\ pc' = "room" /\ Stored' = Stored /\ UNCHANGED <<loaded, server>>
    BY <1>6 DEF RemoveClippingAt, Call, card, Stored, net
  <2> QED
    BY <2>1, <2>2, RemovalKeeps
<1>7. CASE MakeRoom \/ WriteTmp \/ WriteFails \/ Park \/ SwapFails
  <2>1. Stored' = Stored
    BY <1>s, <1>7, StoredStays
  <2>2. UNCHANGED <<ram, undo, repl, kept, loaded, server>>
    BY <1>7 DEF MakeRoom, WriteTmp, WriteFails, Park, SwapFails, mem, call, told, net
  <2>3. /\ pc \in {"room", "write", "park", "swap"}
        /\ pc' \in {"room", "write", "park", "swap"} \/ (pc' = "return" /\ ~ok')
    BY <1>7 DEF MakeRoom, WriteTmp, WriteFails, Park, SwapFails, Return
  <2> QED
    BY <1>s, <1>o, <2>1, <2>2, <2>3, Quiet
<1>8. CASE Swap
  BY <1>8, SwapKeeps
<1>9. CASE Tidy
  BY <1>9, TidyKeeps
<1>10. CASE Added \/ Removed \/ Prepared \/ UploadsFinished \/ Applied
  BY <1>10, ResumedKeeps
<1>11. CASE Unloaded \/ PowerCut
  <2>1. Forget /\ Stored' = Stored /\ kept' = kept /\ server' = server
    BY <1>11 DEF Unloaded, PowerCut, card, Stored, told, net
  <2> QED
    BY <1>s, <2>1, Forgotten
<1>12. CASE PrepareSync
  <2>1. ~Writing /\ loaded
    BY <1>s, <1>12 DEF PrepareSync, Writing, InHand
  <2>2. \/ pc' = "room" /\ undo' = ram' /\ repl' = 0
        \/ ~Writing' /\ UNCHANGED <<undo, repl>>
    BY <1>12 DEF PrepareSync, Call, call, Writing
  <2>3. Stored' = Stored /\ UNCHANGED <<loaded, server, kept>>
    BY <1>12 DEF PrepareSync, card, Stored, net, told
  <2> QED
    BY <1>s, <1>12, <2>1, <2>2, <2>3, DrawnRam, MarkingKeeps
<1>13. CASE FinishUploads
  <2>1. ~Writing /\ loaded
    BY <1>s, <1>13 DEF FinishUploads, Writing, InHand
  <2>2. \/ pc' = "room" /\ undo' = ram' /\ repl' = 0
        \/ ~Writing' /\ UNCHANGED <<undo, repl>>
    BY <1>13 DEF FinishUploads, Call, call, Writing
  <2>3. Stored' = Stored /\ UNCHANGED <<loaded, server, kept>>
    BY <1>13 DEF FinishUploads, card, Stored, net, told
  <2> QED
    BY <1>s, <1>13, <2>1, <2>2, <2>3, SentRam, MarkingKeeps
<1>14. CASE SendDeletion
  <2>1. Stored' = Stored /\ UNCHANGED <<ram, undo, repl, kept, loaded>>
    BY <1>14 DEF SendDeletion, card, Stored, mem, call, told
  <2>2. ~Writing /\ ~Writing'
    BY <1>14 DEF SendDeletion, GiveUp, Writing
  <2>3. \A it \in server' : it.text = it.id.of
    BY <1>s, <1>o, <1>14, DeletionSent
  <2> QED
    BY <1>s, <2>1, <2>2, <2>3, Quiet
<1>15. CASE Upload
  <2>1. Stored' = Stored /\ UNCHANGED <<ram, undo, repl, kept, loaded>>
    BY <1>15 DEF Upload, card, Stored, mem, call, told
  <2>2. ~Writing /\ ~Writing' /\ pc = "upload"
    BY <1>15 DEF Upload, GiveUp, Writing
  <2>3. HaveIds(ram) /\ AllFit(ram) /\ repl = 0
    BY <1>s, <2>2, AtRest DEF InHand
  <2>4. \A i \in DOMAIN ram : TextOf(i) = ram[i].id.of
    <3>1. \A i \in DOMAIN ram : TextOf(i) = ram[i].text
      BY <2>3 DEF AllFit, Fits, TextOf
    <3> QED
      BY <1>s, <2>3, <3>1 DEF HaveIds, Owning, OwnIds
  <2>5. \A it \in server' : it.text = it.id.of
    BY <1>s, <1>o, <1>15, <2>3, <2>4, UploadSent
  <2> QED
    BY <1>s, <2>1, <2>2, <2>5, Quiet
<1>16. CASE ApplyRemote
  BY <1>16, ApplyKeeps
<1>17. CASE Elsewhere
  <2>1. Stored' = Stored /\ UNCHANGED <<ram, undo, repl, kept, loaded, pc, ok>>
    BY <1>17 DEF Elsewhere, card, Stored, mem, call, told
  <2>2. \A it \in server' : it.text = it.id.of
    BY <1>s, <1>o, <1>17, ChangedElsewhere
  <2> QED
    BY <1>s, <2>1, <2>2, Quiet
<1>18. CASE UNCHANGED vars
  <2>1. Stored' = Stored /\ UNCHANGED <<ram, undo, repl, kept, loaded, pc, ok, server>>
    BY <1>18 DEF vars, card, Stored, mem, call, told, net
  <2> QED
    BY <1>s, <1>o, <2>1, Quiet
<1> QED
  BY <1>1, <1>2, <1>3, <1>4, <1>5, <1>6, <1>7, <1>8, <1>9, <1>10, <1>11, <1>12, <1>13,
     <1>14, <1>15, <1>16, <1>17, <1>18
     DEF Next, OpenBook, StartSync, WriteToFile, Resumed, Run

LEMMA Invariant == Spec => []Inv
<1>1. Init => Inv
  BY InvInit
<1>2. Inv /\ [Next]_vars => Inv'
  BY InvStep
<1> QED
  BY <1>1, <1>2, PTL DEF Spec

-----------------------------------------------------------------------------
(* The store as one atomic file *)

LEMMA SavingValues ==
  /\ pc \in {"room", "write", "park", "swap"} => saving = [new |-> NewContent, done |-> FALSE]
  /\ pc = "tidy" => saving = [new |-> Stored, done |-> TRUE]
  /\ pc \notin {"room", "write", "park", "swap", "tidy"} => saving = NoSave
BY DEF saving

LEMMA StoreInit == Init => Store!Init
<1> SUFFICES ASSUME Init PROVE Store!Init
  OBVIOUS
<1>1. Stored \in Seq(Record)
  BY EmptySeq DEF Init, Stored
<1>2. saving = NoSave
  BY SavingValues DEF Init
<1>3. ok \in BOOLEAN
  BY DEF Init
<1> QED
  BY <1>1, <1>2, <1>3 DEF Store!Init

LEMMA SavingIsNone ==
  ASSUME NEW x \in Seq(Record), NEW d \in BOOLEAN
  PROVE  [new |-> x, done |-> d] # NoSave
BY FilesDiffer DEF NoSave

LEMMA NewContentStaysRecords == (StateOK => NewContent \in Seq(Record))'
<1>1. StateOK => NewContent \in Seq(Record)
  BY NewContentIsRecords
<1> QED
  BY <1>1, PTL

\* writeToFile() is called.
LEMMA CallBegins ==
  ASSUME Base', ~Writing, pc' = "room", Stored' = Stored, ok' = ok
  PROVE  Store!Next
<1>1. NewContent' \in Seq(Record)
  BY NewContentStaysRecords DEF Base, TypeOK
<1>2. saving' = [new |-> NewContent', done |-> FALSE]
  BY DEF saving
<1>3. saving = NoSave
  BY SavingValues DEF Writing
<1>4. Store!Begin
  BY <1>1, <1>2, <1>3 DEF Store!Begin, Store!Save
<1> QED
  BY <1>4 DEF Store!Next

LEMMA StoreStep == Base /\ Base' /\ [Next]_vars => [Store!Next]_(Store!file)
<1> SUFFICES ASSUME Base, Base', [Next]_vars PROVE [Store!Next]_(Store!file)
  OBVIOUS
<1>s. StateOK /\ InHand /\ Installing
  BY DEF Base, TypeOK
<1>n. NewContent \in Seq(Record) /\ Stored \in Seq(Record)
  BY <1>s, NewContentIsRecords, StoredIsRecords
\* A step of writeToFile() that keeps what a reader finds and what is being written.
<1>a. ASSUME Stored' = Stored, ok' = ok, saving' = saving PROVE [Store!Next]_(Store!file)
  BY <1>a DEF Store!file
\* A step that ends the save.
<1>b. ASSUME NEW answer \in BOOLEAN, NEW x \in Seq(Record), Stored' = Stored, ok' = answer,
             saving = [new |-> x, done |-> answer], saving' = NoSave
      PROVE  Store!Next
  <2>1. saving # NoSave
    BY <1>b, SavingIsNone
  <2>2. saving.done = answer
    BY <1>b
  <2> QED
    BY <1>b, <2>1, <2>2 DEF Store!Next, Store!End
\* A step outside writeToFile().
<1>c. ASSUME pc \notin {"room", "write", "park", "swap", "tidy"},
             pc' \notin {"room", "write", "park", "swap", "tidy"}, Stored' = Stored, ok' = ok
      PROVE  [Store!Next]_(Store!file)
  <2>1. saving = NoSave /\ saving' = NoSave
    BY <1>c DEF saving, NoSave
  <2> QED
    BY <1>a, <1>c, <2>1
<1>1. CASE \/ \E next \in {"reading", "probe"} : LoadForBook(next)
           \/ \E next \in {"reading", "closed"} : LoadFails(next)
           \/ CloseBook \/ JournalFails \/ Added \/ Removed \/ Unloaded \/ Prepared
           \/ UploadsFinished \/ Applied \/ Probe \/ SendDeletion \/ JournalUnreadable
           \/ FinishDeletions \/ Upload \/ UploadsDone \/ ScanFails \/ NothingUnseen \/ Synced
  <2>1. Recovered \/ UNCHANGED <<main, bak>>
    BY <1>1 DEF LoadForBook, LoadFails, CloseBook, JournalFails, Added, Removed, Unloaded,
                Prepared, UploadsFinished, Applied, Probe, SendDeletion, JournalUnreadable,
                FinishDeletions, Upload, UploadsDone, ScanFails, NothingUnseen, Synced,
                Resume, card
  <2>2. /\ pc \notin {"room", "write", "park", "swap", "tidy"}
        /\ pc' \notin {"room", "write", "park", "swap", "tidy"}
        /\ ok' = ok
    BY <1>1 DEF LoadForBook, LoadFails, CloseBook, JournalFails, Added, Removed, Unloaded,
                Prepared, UploadsFinished, Applied, Probe, SendDeletion, JournalUnreadable,
                FinishDeletions, Upload, UploadsDone, ScanFails, NothingUnseen, Synced,
                Resume, GiveUp, Forget
  <2> QED
    BY <1>s, <1>c, <2>1, <2>2, StoredStays
<1>2. CASE \/ Unload \/ (\E t \in Mine : AddClipping(t)) \/ \E i \in 1 .. Len(ram) : RemoveClippingAt(i)
           \/ PrepareSync \/ FinishUploads \/ ApplyRemote
  <2>1. ~Writing /\ Stored' = Stored /\ ok' = ok
        /\ pc' \in {"room", "closed", "delete", "scan", "unload", "synced"}
    <3>1. CASE ApplyRemote
      <4>1. pc' \in {"room", "unload", "scan", "synced"}
        BY <1>s, <3>1, AppliedRam
      <4> QED
        BY <3>1, <4>1 DEF ApplyRemote, Writing, card, Stored
    <3>2. CASE \/ Unload \/ (\E t \in Mine : AddClipping(t))
               \/ \E i \in 1 .. Len(ram) : RemoveClippingAt(i)
               \/ PrepareSync \/ FinishUploads
      BY <3>2
         DEF Unload, AddClipping, RemoveClippingAt, PrepareSync, FinishUploads, Call, Forget,
                  Writing, card, Stored
    <3> QED
      BY <1>2, <3>1, <3>2
  <2>2. CASE pc' = "room"
    BY <2>1, <2>2, CallBegins
  <2>3. CASE pc' # "room"
    <3>1. pc \notin {"room", "write", "park", "swap", "tidy"}
      BY <2>1 DEF Writing
    <3> QED
      BY <1>c, <2>1, <2>3, <3>1
  <2> QED
    BY <2>2, <2>3
<1>3. CASE MakeRoom \/ WriteTmp \/ WriteFails \/ Park \/ SwapFails
  <2>1. Stored' = Stored
    BY <1>s, <1>3, StoredStays
  <2>2. saving = [new |-> NewContent, done |-> FALSE]
    BY <1>3, SavingValues DEF MakeRoom, WriteTmp, WriteFails, Park, SwapFails
  <2>3. \/ pc' \in {"room", "write", "park", "swap"} /\ ok' = ok
        \/ pc' = "return" /\ ok' = FALSE
    BY <1>3 DEF MakeRoom, WriteTmp, WriteFails, Park, SwapFails, Return
  <2>4. CASE pc' \in {"room", "write", "park", "swap"} /\ ok' = ok
    <3>1. UNCHANGED <<ram, repl>>
      BY <1>3 DEF MakeRoom, WriteTmp, WriteFails, Park, SwapFails, mem, call
    <3>2. NewContent' = NewContent
      BY <2>1, <3>1, NewContentStays
    <3>3. saving' = saving
      BY <2>2, <2>4, <3>2 DEF saving
    <3> QED
      BY <1>a, <2>1, <2>4, <3>3
  <2>5. CASE pc' = "return" /\ ok' = FALSE
    <3>1. saving' = NoSave
      BY <2>5 DEF saving, NoSave
    <3> QED
      BY <1>b, <1>n, <2>1, <2>2, <2>5, <3>1
  <2> QED
    BY <2>3, <2>4, <2>5
<1>4. CASE Swap
  <2>1. pc = "swap" /\ pc' = "tidy" /\ main' = tmp /\ ok' = ok
    BY <1>4 DEF Swap
  <2>2. tmp = NewContent
    BY <1>s, <2>1 DEF Installing
  <2>3. Stored' = NewContent
    BY <1>n, <2>1, <2>2, FilesDiffer DEF Stored
  <2>4. saving = [new |-> NewContent, done |-> FALSE] /\ saving # NoSave
    BY <1>n, <2>1, SavingValues, SavingIsNone
  <2>5. saving' = [new |-> NewContent, done |-> TRUE]
    BY <2>1, <2>3 DEF saving
  <2>6. saving' = [saving EXCEPT !.done = TRUE] /\ ~ saving.done /\ saving.new = NewContent
    <3>1. \A x, d, e : [[new |-> x, done |-> d] EXCEPT !.done = e] = [new |-> x, done |-> e]
      OBVIOUS
    <3> QED
      BY <2>4, <2>5, <3>1
  <2>7. Store!Commit
    BY <2>1, <2>3, <2>4, <2>6 DEF Store!Commit
  <2> QED
    BY <2>7 DEF Store!Next
<1>5. CASE Tidy
  <2>1. pc = "tidy" /\ pc' = "return" /\ ok' = TRUE
    BY <1>5 DEF Tidy, Return
  <2>2. Stored' = Stored
    BY <1>s, <1>5, StoredStays
  <2>3. saving = [new |-> Stored, done |-> TRUE] /\ saving' = NoSave
    BY <2>1, SavingValues DEF saving, NoSave
  <2> QED
    BY <1>b, <1>n, <2>1, <2>2, <2>3
<1>6. CASE Elsewhere \/ UNCHANGED vars
  <2>1. UNCHANGED <<main, bak, ram, repl, pc, ok>>
    BY <1>6 DEF Elsewhere, vars, card, mem, call
  <2>2. Stored' = Stored
    BY <2>1 DEF Stored
  <2>3. NewContent' = NewContent
    BY <2>1, <2>2, NewContentStays
  <2>4. saving' = saving
    BY <2>1, <2>2, <2>3 DEF saving, NoSave
  <2> QED
    BY <1>a, <2>1, <2>2, <2>4
<1>7. CASE PowerCut
  <2>1. Stored' = Stored /\ ok' = ok /\ pc' = "closed"
    BY <1>7 DEF PowerCut, Forget, Stored
  <2>2. saving' = NoSave
    BY <2>1 DEF saving, NoSave
  <2> QED
    BY <2>1, <2>2 DEF Store!Next, Store!Cut
<1>8. OpenBook \/ StartSync => \/ \E next \in {"reading", "probe"} : LoadForBook(next)
                               \/ \E next \in {"reading", "closed"} : LoadFails(next)
  BY DEF OpenBook, StartSync
<1>9. CASE OpenBook \/ StartSync \/ CloseBook \/ JournalFails
  BY <1>1, <1>8, <1>9
<1>10. CASE Resumed
  BY <1>1, <1>10 DEF Resumed
<1>11. CASE Run
  BY <1>1, <1>2, <1>11 DEF Run
<1>12. CASE WriteToFile
  BY <1>3, <1>4, <1>5, <1>12 DEF WriteToFile
<1>13. CASE \/ Unload \/ (\E t \in Mine : AddClipping(t)) \/ \E i \in 1 .. Len(ram) : RemoveClippingAt(i)
  BY <1>2, <1>13
<1>14. \/ OpenBook \/ StartSync \/ CloseBook \/ JournalFails
       \/ Resumed \/ Run \/ WriteToFile
       \/ Unload \/ (\E t \in Mine : AddClipping(t)) \/ (\E i \in 1 .. Len(ram) : RemoveClippingAt(i))
       \/ Elsewhere \/ PowerCut \/ UNCHANGED vars
  BY DEF Next
<1> QED
  BY <1>6, <1>7, <1>9, <1>10, <1>11, <1>12, <1>13, <1>14

-----------------------------------------------------------------------------
(* Which clipping an id stands for, and which clippings are gone *)

ServerIds == {it.id : it \in server}
Deleted   == {journal[j] : j \in DOMAIN journal}
Published == ServerIds \cup Deleted

\* A record and what is known outside the store: it has the id its text was published
\* under, if any; it is uploaded or pending; it is not one the user was told is gone.
Proper(r, ids, published, drawn, removed) ==
  /\ \A a \in published : a.of = r.text => a = r.id
  /\ r.text \in Others \/ ~ r.pending => r.id \in ids
  /\ r.text \in Mine /\ r.id # NoId => drawn[r.text] # 0
  /\ r.text \notin removed

OneEach(records) == \A i, j \in DOMAIN records : records[i].text = records[j].text => i = j
AllProper(records, ids, published, drawn, removed) ==
  \A i \in DOMAIN records : Proper(records[i], ids, published, drawn, removed)
Clean(records) ==
  OneEach(records) /\ AllProper(records, ServerIds, Published, given, gone)
Clear == Clean(Stored) /\ Clean(ram) /\ Clean(undo)

OneId ==
  /\ \A a, b \in Published : a.of = b.of => a = b
  /\ \A a \in Published : IF a.of \in Others THEN a \in ServerIds ELSE given[a.of] # 0
  /\ \A t \in gone \cap Others : \E a \in ServerIds : a.of = t

OneItem ==
  /\ \A x, y \in server : x.id = y.id \/ x.rev = y.rev => x = y
  /\ \A it \in server : 0 < it.rev /\ it.rev <= rev

\* What a reader of the card finds is what is in memory, or was before the save.
Same(r, x) == r.text = x.text /\ r.id = x.id /\ r.pending = x.pending /\ r.rev = x.rev
Matching(records) ==
  /\ DOMAIN Stored = DOMAIN records
  /\ \A i \in DOMAIN records : Same(Stored[i], records[i])
Matches ==
  /\ ~Writing => undo = <<>>
  /\ loaded /\ ~Writing /\ pc # "unload" => Matching(ram)
  /\ pc = "tidy" \/ (pc = "return" /\ ok) => Matching(ram)
  /\ /\ pc \in {"room", "write", "park", "swap"} \/ (pc = "return" /\ ~ok)
     /\ job \in {"add", "remove", "apply"}
     => Matching(undo)

\* The clipping being removed was never uploaded, or its id is in the journal.
Removing ==
  Writing /\ job = "remove" =>
    \A k \in DOMAIN undo :
      \/ undo[k].id \in Deleted \cup {NoId}
      \/ \E i \in DOMAIN ram : ram[i].text = undo[k].text

\* A clipping that is gone is deleted at the server, or will be.
Graves ==
  \A it \in server : it.live /\ it.id.of \in gone =>
    \E j \in DOMAIN journal : journal[j] = it.id /\ (pc # "delete" \/ j > walk)
AfterDeletions ==
  pc \in {"upload", "finish", "scan", "synced"} \/ (Writing /\ job \in {"uploads", "apply"})
Buried == Graves /\ (AfterDeletions => journal = <<>>)

Scanning == pc \in {"scan", "synced"} \/ (Writing /\ job = "apply")
Sending  == pc = "finish" \/ (Writing /\ job = "uploads")

\* Nothing was walked over yet.
Starting ==
  \/ pc \in {"closed", "reading", "probe", "prepare"} \/ Sending
  \/ Writing /\ job \in {"add", "remove", "prepare"}

Walked ==
  /\ Starting => walk = 0
  /\ Scanning => walk <= rev
  /\ pc = "upload" => \A i \in DOMAIN ram : i <= walk => ram[i].id \in ServerIds
  /\ Sending \/ Scanning => \A i \in DOMAIN ram : ram[i].id \in ServerIds

\* Up to the cursor the records are the items of the server.
Shows(r, it) == r.text = it.text /\ r.id = it.id /\ ~ r.pending /\ r.rev = it.rev
Cursor ==
  Scanning =>
    \A it \in server : it.rev <= walk =>
      IF it.live THEN \E i \in DOMAIN ram : Shows(ram[i], it)
      ELSE \A i \in DOMAIN ram : ram[i].id # it.id

Identity == Clear /\ OneId /\ OneItem /\ Matches /\ Removing /\ Buried /\ Walked /\ Cursor

-----------------------------------------------------------------------------
(* What the steps do to the server, and to the records *)

\* One item is put at the server, in the place of the one with its id.
Gets(new) ==
  /\ new \in Item
  /\ new.rev = rev + 1
  /\ rev' = rev + 1
  /\ server' = {it \in server : it.id # new.id} \cup {new}

LEMMA Gained ==
  ASSUME NEW new, Gets(new)
  PROVE  /\ ServerIds' = ServerIds \cup {new.id}
         /\ new \in server'
         /\ \A x \in server' : x = new \/ (x \in server /\ x.id # new.id)
         /\ \A x \in server : x.id # new.id => x \in server'
BY DEF Gets, ServerIds

LEMMA PutDeletedGets ==
  ASSUME StateOK, NEW id \in Ids, PutDeleted(id)
  PROVE  \/ UNCHANGED net /\ \E it \in server : it.id = id /\ ~it.live
         \/ \E new : Gets(new) /\ new.id = id /\ ~new.live
<1> DEFINE new == [id |-> id, text |-> id.of, live |-> FALSE, rev |-> rev + 1]
<1>1. CASE \E it \in server : it.id = id /\ ~it.live
  BY <1>1 DEF PutDeleted
<1>2. CASE ~ \E it \in server : it.id = id /\ ~it.live
  <2>1. server' = {it \in server : it.id # id} \cup {new} /\ rev' = rev + 1
    BY <1>2 DEF PutDeleted
  <2>2. new.id = id /\ ~new.live /\ new.rev = rev + 1
    OBVIOUS
  <2>3. new \in Item
    BY DEF Item, Ids, StateOK
  <2> HIDE DEF new
  <2>4. Gets(new)
    BY <2>1, <2>2, <2>3 DEF Gets
  <2> QED
    BY <2>2, <2>4
<1> QED
  BY <1>1, <1>2

LEMMA PutLiveGets ==
  ASSUME StateOK, NEW r, r.id \in Ids, r.text \in Texts, PutLive(r)
  PROVE  \/ UNCHANGED net /\ r.id \in ServerIds
         \/ \E new : Gets(new) /\ new.id = r.id
<1> DEFINE new == [id |-> r.id, text |-> r.text, live |-> TRUE, rev |-> rev + 1]
<1>1. CASE \E it \in server : it.id = r.id
  BY <1>1 DEF PutLive, ServerIds
<1>2. CASE ~ \E it \in server : it.id = r.id
  <2>1. server' = server \cup {new} /\ rev' = rev + 1
    BY <1>2 DEF PutLive
  <2>2. new.id = r.id /\ new.rev = rev + 1
    OBVIOUS
  <2>3. new \in Item
    BY DEF Item, StateOK
  <2> HIDE DEF new
  <2>4. server = {it \in server : it.id # new.id}
    BY <1>2, <2>2
  <2>5. Gets(new)
    BY <2>1, <2>2, <2>3, <2>4 DEF Gets
  <2> QED
    BY <2>2, <2>5
<1> QED
  BY <1>1, <1>2

LEMMA SendDeletionGets ==
  ASSUME StateOK, SendDeletion
  PROVE  LET j == Least(ToDelete)
         IN /\ j \in ToDelete /\ j \in DOMAIN journal /\ j \in Nat /\ journal[j] \in Ids
            /\ \A m \in ToDelete : j <= m
            /\ \/ UNCHANGED net /\ (pc' = "unload" \/ \E it \in server : it.id = journal[j] /\ ~it.live)
               \/ \E new : Gets(new) /\ new.id = journal[j] /\ ~new.live
            /\ (walk' = j /\ pc' = pc) \/ (walk' = walk /\ pc' = "unload")
<1> DEFINE j == Least(ToDelete)
<1>1. ToDelete \subseteq DOMAIN journal /\ DOMAIN journal \subseteq Nat
  BY LenProperties DEF StateOK, ToDelete
<1>2. j \in ToDelete /\ \A m \in ToDelete : j <= m
  BY <1>1, LeastIs DEF SendDeletion
<1>3. j \in DOMAIN journal /\ j \in Nat /\ journal[j] \in Ids
  BY <1>1, <1>2, LenProperties, ElementOfSeq DEF StateOK
<1>4. \/ PutDeleted(journal[j]) /\ walk' = j /\ pc' = pc
      \/ (PutDeleted(journal[j]) \/ UNCHANGED net) /\ walk' = walk /\ pc' = "unload"
  BY DEF SendDeletion, GiveUp
<1> HIDE DEF j
<1>5. \/ UNCHANGED net /\ (pc' = "unload" \/ \E it \in server : it.id = journal[j] /\ ~it.live)
      \/ \E new : Gets(new) /\ new.id = journal[j] /\ ~new.live
  BY <1>3, <1>4, PutDeletedGets
<1> QED
  BY <1>2, <1>3, <1>4, <1>5 DEF j

LEMMA UploadGets ==
  ASSUME StateOK, HaveIds(ram), Upload
  PROVE  LET i == Least(ToUpload)
         IN /\ i \in ToUpload /\ i \in DOMAIN ram /\ i \in Nat /\ ram[i].id \in Ids
            /\ \A m \in ToUpload : i <= m
            /\ \/ UNCHANGED net /\ (pc' = "unload" \/ ram[i].id \in ServerIds)
               \/ \E new : Gets(new) /\ new.id = ram[i].id
            /\ (walk' = i /\ pc' = pc) \/ (walk' = walk /\ pc' = "unload")
<1> DEFINE i == Least(ToUpload)
           r == [ram[i] EXCEPT !.text = TextOf(i)]
<1>1. ToUpload \subseteq DOMAIN ram /\ DOMAIN ram \subseteq Nat
  BY LenProperties DEF StateOK, ToUpload
<1>2. i \in ToUpload /\ \A m \in ToUpload : i <= m
  BY <1>1, LeastIs DEF Upload
<1>3. i \in DOMAIN ram /\ i \in Nat /\ ram[i] \in InMemory /\ ram[i].id \in Ids
  <2>1. i \in DOMAIN ram /\ i \in Nat /\ ram[i] \in InMemory
    BY <1>1, <1>2, RamElement
  <2> QED
    BY <2>1 DEF InMemory, HaveIds
<1>4. r.id = ram[i].id /\ r.text = TextOf(i)
  BY <1>3 DEF InMemory
<1>5. TextOf(i) \in Texts
  <2>1. NewContent[i] \in Record /\ NewContent[i].text = TextOf(i)
    BY <1>3, NewContentIsRecords, LenProperties, ElementOfSeq DEF NewContent
  <2> QED
    BY <2>1 DEF Record
<1>6. \/ PutLive(r) /\ walk' = i /\ pc' = pc
      \/ (PutLive(r) \/ UNCHANGED net) /\ walk' = walk /\ pc' = "unload"
  BY DEF Upload, GiveUp
<1> HIDE DEF i, r
<1>7. \/ UNCHANGED net /\ (pc' = "unload" \/ ram[i].id \in ServerIds)
      \/ \E new : Gets(new) /\ new.id = ram[i].id
  BY <1>3, <1>4, <1>5, <1>6, PutLiveGets
<1> QED
  BY <1>2, <1>3, <1>6, <1>7 DEF i

LEMMA ElsewhereGets ==
  ASSUME StateOK, Owning, OneItem, Elsewhere
  PROVE  \E new : /\ Gets(new)
                  /\ \/ \E old \in server : old.live /\ old.id = new.id
                     \/ /\ new.id.of \in Others
                        /\ \A it \in server : it.id.of # new.id.of
<1>1. rev \in Nat /\ rev + 1 \in Nat /\ server \subseteq Item /\ rev' = rev + 1
  BY DEF StateOK, Elsewhere
<1>2. ASSUME NEW t \in Others, AddElsewhere(t)
      PROVE  \E new : /\ Gets(new)
                      /\ new.id.of \in Others /\ \A it \in server : it.id.of # new.id.of
  <2> DEFINE new == [id |-> [of |-> t, n |-> 1], text |-> t, live |-> TRUE, rev |-> rev + 1]
  <2>1. new \in Item /\ new.id.of = t /\ new.rev = rev + 1
    BY <1>1 DEF Item, Ids, Texts
  <2>2. server' = server \cup {new}
    BY <1>2 DEF AddElsewhere
  <2> HIDE DEF new
  <2>3. \A it \in server : it.id.of # t
    BY <1>2 DEF AddElsewhere, Owning
  <2>4. server = {it \in server : it.id # new.id}
    BY <2>1, <2>3
  <2>5. Gets(new)
    BY <1>1, <2>1, <2>2, <2>4 DEF Gets
  <2> QED
    BY <2>1, <2>3, <2>5
<1>3. ASSUME NEW it \in server, ChangeElsewhere(it)
      PROVE  \E new : Gets(new) /\ \E old \in server : old.live /\ old.id = new.id
  <2>1. PICK live \in BOOLEAN :
          server' = (server \ {it}) \cup {[it EXCEPT !.live = live, !.rev = rev + 1]}
    BY <1>3 DEF ChangeElsewhere
  <2> DEFINE new == [it EXCEPT !.live = live, !.rev = rev + 1]
  <2>2. new \in Item /\ new.id = it.id /\ new.rev = rev + 1
    BY <1>1 DEF Item
  <2>3. it.live
    BY <1>3 DEF ChangeElsewhere
  <2> HIDE DEF new
  <2>4. server' = (server \ {it}) \cup {new}
    BY <2>1 DEF new
  <2>5. server \ {it} = {x \in server : x.id # new.id}
    BY <2>2 DEF OneItem
  <2>6. Gets(new)
    BY <1>1, <2>2, <2>4, <2>5 DEF Gets
  <2> QED
    BY <2>2, <2>3, <2>6
<1> QED
  BY <1>2, <1>3 DEF Elsewhere

\* Only the deletions and uploads of a sync and the other devices change the server.
LEMMA ServerStays ==
  ASSUME [Next]_vars, ~SendDeletion, ~Upload, ~Elsewhere
  PROVE  UNCHANGED net
BY DEF Next, OpenBook, StartSync, LoadForBook, LoadFails, CloseBook, Unload, AddClipping,
       RemoveClippingAt, JournalFails, WriteToFile, MakeRoom, WriteTmp, WriteFails, Park,
       Swap, SwapFails, Tidy, Resumed, Added, Removed, Unloaded, Prepared, UploadsFinished,
       Applied, Resume, Run, Probe, PrepareSync, JournalUnreadable, FinishDeletions,
       UploadsDone, FinishUploads, ScanFails, NothingUnseen, ApplyRemote, Synced, PowerCut,
       vars

LEMMA ServerSteps ==
  ASSUME StateOK, InHand, Owning, OneItem, [Next]_vars
  PROVE  UNCHANGED net \/ \E new : Gets(new)
<1>1. CASE SendDeletion
  BY <1>1, SendDeletionGets
<1>2. CASE Upload
  <2>1. HaveIds(ram)
    BY <1>2 DEF Upload, InHand
  <2> QED
    BY <1>2, <2>1, UploadGets
<1>3. CASE Elsewhere
  BY <1>3, ElsewhereGets
<1> QED
  BY <1>1, <1>2, <1>3, ServerStays

LEMMA OneItemStep ==
  ASSUME StateOK, InHand, Owning, OneItem, [Next]_vars
  PROVE  OneItem'
<1>1. CASE UNCHANGED net
  BY <1>1 DEF net, OneItem
<1>2. ASSUME NEW new, Gets(new) PROVE OneItem'
  <2>1. rev \in Nat /\ server \subseteq Item /\ new.rev = rev + 1 /\ rev' = rev + 1
    BY <1>2 DEF Gets, StateOK
  <2>2. \A x \in server : x.rev \in Nat
    BY <2>1 DEF Item
  <2>3. \A x \in server' : x = new \/ (x \in server /\ x.id # new.id)
    BY <1>2, Gained
  <2>4. \A x \in server : 0 < x.rev /\ x.rev <= rev /\ x.rev # new.rev
    BY <2>1, <2>2 DEF OneItem
  <2>5. \A x, y \in server' : x.id = y.id \/ x.rev = y.rev => x = y
    BY <2>3, <2>4 DEF OneItem
  <2>6. \A x \in server' : 0 < x.rev /\ x.rev <= rev'
    BY <2>1, <2>2, <2>3, <2>4
  <2> QED
    BY <2>5, <2>6 DEF OneItem
<1> QED
  BY <1>1, <1>2, ServerSteps


-----------------------------------------------------------------------------
(* The records stay proper *)

LEMMA KnownStays ==
  ASSUME UNCHANGED <<server, journal, given, gone>>
  PROVE  ServerIds' = ServerIds /\ Published' = Published /\ given' = given /\ gone' = gone
BY DEF ServerIds, Published, Deleted

\* Records that differ in their places and revisions only.
LEMMA AlikeProper ==
  ASSUME NEW old, NEW new, DOMAIN new = DOMAIN old,
         \A i \in DOMAIN old : /\ new[i].text = old[i].text /\ new[i].id = old[i].id
                               /\ new[i].pending = old[i].pending,
         NEW ids, NEW published, NEW drawn, NEW removed,
         OneEach(old), AllProper(old, ids, published, drawn, removed)
  PROVE  OneEach(new) /\ AllProper(new, ids, published, drawn, removed)
BY DEF OneEach, AllProper, Proper

\* What is known grows, and no text of these records gets another id.
LEMMA ProperGrows ==
  ASSUME NEW records, NEW ids, NEW published, NEW drawn, NEW removed,
         AllProper(records, ids, published, drawn, removed),
         NEW ids2, NEW published2, NEW drawn2, NEW removed2,
         ids \subseteq ids2,
         \A i \in DOMAIN records, a \in published2 :
           a.of = records[i].text => a \in published \/ a = records[i].id,
         \A i \in DOMAIN records : drawn[records[i].text] # 0 => drawn2[records[i].text] # 0,
         \A i \in DOMAIN records : records[i].text \in removed2 => records[i].text \in removed
  PROVE  AllProper(records, ids2, published2, drawn2, removed2)
BY Zenon DEF AllProper, Proper

LEMMA EmptyProper ==
  ASSUME NEW ids, NEW published, NEW drawn, NEW removed
  PROVE  OneEach(<<>>) /\ AllProper(<<>>, ids, published, drawn, removed)
BY DEF OneEach, AllProper

LEMMA QuietClear ==
  ASSUME Clear, UNCHANGED <<server, journal, given, gone>>, Stored' = Stored,
         ram' \in {ram, undo, <<>>}, undo' \in {ram, undo, <<>>}
  PROVE  Clear'
<1>1. ServerIds' = ServerIds /\ Published' = Published /\ given' = given /\ gone' = gone
  BY KnownStays
<1>2. ASSUME NEW r, r \in {Stored, ram, undo, <<>>}
      PROVE  OneEach(r) /\ AllProper(r, ServerIds', Published', given', gone')
  BY <1>1, <1>2, EmptyProper DEF Clear, Clean
<1> QED
  BY <1>2 DEF Clear, Clean

\* The world outside the records changes.
LEMMA WorldClear ==
  ASSUME Clear, UNCHANGED <<ram, undo>>, Stored' = Stored, UNCHANGED <<given, gone>>,
         ServerIds \subseteq ServerIds',
         \A r \in {Stored, ram, undo} : \A i \in DOMAIN r, a \in Published' :
           a.of = r[i].text => a \in Published \/ a = r[i].id
  PROVE  Clear'
<1>1. ASSUME NEW r \in {Stored, ram, undo}
      PROVE  OneEach(r) /\ AllProper(r, ServerIds', Published', given', gone')
  <2>1. OneEach(r) /\ AllProper(r, ServerIds, Published, given, gone)
    BY DEF Clear, Clean
  <2>2. /\ \A i \in DOMAIN r, a \in Published' : a.of = r[i].text => a \in Published \/ a = r[i].id
        /\ \A i \in DOMAIN r : given[r[i].text] # 0 => given'[r[i].text] # 0
        /\ \A i \in DOMAIN r : r[i].text \in gone' => r[i].text \in gone
    OBVIOUS
  <2> QED
    BY <2>1, <2>2, ProperGrows
<1> QED
  BY <1>1 DEF Clear, Clean

\* Only Swap changes what a reader of the card finds: it is then what is in memory.
LEMMA StoredSteps ==
  ASSUME Inv, [Next]_vars
  PROVE  IF Swap THEN Matching(ram)' /\ UNCHANGED <<ram, undo, server, journal, given, gone>>
         ELSE Stored' = Stored
<1>s. StateOK /\ InHand /\ Installing /\ Placing
  BY DEF Inv, Base, TypeOK
<1>1. CASE Swap
  <2>1. pc = "swap" /\ UNCHANGED <<ram, undo, server, journal, given, gone>>
    BY <1>1 DEF Swap, mem, call, net, dels, told
  <2>2. tmp = NewContent /\ NewContent \in Seq(Record) /\ DOMAIN NewContent = DOMAIN ram
    BY <1>s, <2>1, NewContentIsRecords DEF Installing
  <2>3. Stored' = NewContent
    BY <1>1, <2>2, FilesDiffer DEF Swap, Stored
  <2>4. \A i \in DOMAIN ram : TextOf(i) = ram[i].text
    BY <1>s, <2>1 DEF Placing, Fits, TextOf
  <2>5. \A i \in DOMAIN ram : Same(NewContent[i], ram[i])
    BY <2>4 DEF NewContent, Same
  <2> QED
    BY <1>1, <2>1, <2>2, <2>3, <2>5 DEF Matching
<1>2. CASE MakeRoom \/ WriteTmp \/ WriteFails \/ Park \/ SwapFails \/ Tidy
  BY <1>s, <1>2, StoredStays DEF Tidy, Swap, MakeRoom, WriteTmp, WriteFails, Park, SwapFails,
     Return
<1>3. CASE ~ (MakeRoom \/ WriteTmp \/ WriteFails \/ Park \/ SwapFails \/ Tidy \/ Swap)
  <2>1. Recovered \/ UNCHANGED <<main, bak>>
    BY <1>3 DEF Next, OpenBook, StartSync, LoadForBook, LoadFails, CloseBook, Unload,
       AddClipping, RemoveClippingAt, JournalFails, WriteToFile, Resumed, Added, Removed,
       Unloaded, Prepared, UploadsFinished, Applied, Resume, Run, Probe, PrepareSync,
       SendDeletion, JournalUnreadable, FinishDeletions, Upload, UploadsDone, FinishUploads,
       ScanFails, NothingUnseen, ApplyRemote, Synced, Elsewhere, PowerCut, vars, card
  <2> QED
    BY <1>s, <1>3, <2>1, StoredStays
<1> QED
  BY <1>1, <1>2, <1>3

\* The parts of Clear, for the records after the step.
LEMMA ClearParts ==
  ASSUME \A r \in {Stored', ram', undo'} :
           OneEach(r) /\ AllProper(r, ServerIds', Published', given', gone')
  PROVE  Clear'
BY DEF Clear, Clean

LEMMA ClearNow ==
  ASSUME Clear, NEW r \in {Stored, ram, undo}
  PROVE  OneEach(r) /\ AllProper(r, ServerIds, Published, given, gone)
BY DEF Clear, Clean

LEMMA SwapClear ==
  ASSUME Inv, Clear, [Next]_vars, Swap
  PROVE  Clear'
<1>1. Matching(ram)' /\ UNCHANGED <<ram, undo, server, journal, given, gone>>
  BY StoredSteps
<1>2. ServerIds' = ServerIds /\ Published' = Published /\ given' = given /\ gone' = gone
  BY <1>1, KnownStays
<1>3. OneEach(ram) /\ AllProper(ram, ServerIds, Published, given, gone)
  BY ClearNow
<1>4. /\ DOMAIN Stored' = DOMAIN ram
      /\ \A i \in DOMAIN ram : /\ Stored'[i].text = ram[i].text /\ Stored'[i].id = ram[i].id
                               /\ Stored'[i].pending = ram[i].pending
  BY <1>1 DEF Matching, Same
<1>5. OneEach(Stored') /\ AllProper(Stored', ServerIds, Published, given, gone)
  BY <1>3, <1>4, AlikeProper
<1>6. OneEach(undo) /\ AllProper(undo, ServerIds, Published, given, gone)
  BY ClearNow
<1> QED
  BY <1>1, <1>2, <1>3, <1>5, <1>6, ClearParts

\* The records in memory change, nothing else does.
LEMMA MemoryClear ==
  ASSUME Clear, UNCHANGED <<server, journal, given, gone>>, Stored' = Stored,
         undo' \in {undo, ram, ram'},
         OneEach(ram') /\ AllProper(ram', ServerIds, Published, given, gone)
  PROVE  Clear'
<1>1. ServerIds' = ServerIds /\ Published' = Published /\ given' = given /\ gone' = gone
  BY KnownStays
<1>2. \A r \in {Stored, ram, undo} :
        OneEach(r) /\ AllProper(r, ServerIds, Published, given, gone)
  BY ClearNow
<1> QED
  BY <1>1, <1>2, ClearParts

LEMMA LoadClear ==
  ASSUME Clear, Stored' = Stored, NEW next, LoadForBook(next)
  PROVE  Clear'
<1>1. ram' = Placed(Stored) /\ undo' = undo /\ UNCHANGED <<server, journal, given, gone>>
  BY DEF LoadForBook, call, net, dels, told
<1>2. /\ DOMAIN ram' = DOMAIN Stored
      /\ \A i \in DOMAIN Stored : /\ ram'[i].text = Stored[i].text /\ ram'[i].id = Stored[i].id
                                  /\ ram'[i].pending = Stored[i].pending
  BY <1>1 DEF Placed
<1>3. OneEach(ram') /\ AllProper(ram', ServerIds, Published, given, gone)
  BY <1>2, ClearNow, AlikeProper
<1> QED
  BY <1>1, <1>3, MemoryClear

LEMMA TidyClear ==
  ASSUME StateOK, Clear, Stored' = Stored, Tidy
  PROVE  Clear'
<1>1. undo' = undo /\ UNCHANGED <<server, journal, given, gone>>
  BY DEF Tidy, call, net, dels, told
<1>2. OneEach(ram') /\ AllProper(ram', ServerIds, Published, given, gone)
  BY TidiedRam, ClearNow, AlikeProper
<1> QED
  BY <1>1, <1>2, MemoryClear

\* A clipping is added: its text was never published.
LEMMA AddClear ==
  ASSUME Inv, Clear, OneId, Stored' = Stored, NEW t \in Mine, AddClipping(t)
  PROVE  Clear'
<1> DEFINE r == [text |-> t, id |-> NoId, pending |-> TRUE, rev |-> 0, at |-> 0]
<1>s. StateOK
  BY DEF Inv, Base, TypeOK
<1>1. undo' = ram /\ UNCHANGED <<server, journal, given, gone>> /\ ram' = Append(ram, r)
  BY DEF AddClipping, Call, net, dels, told
<1>2. given[t] = 0 /\ t \notin gone /\ \A i \in DOMAIN ram : ram[i].text # t
  BY DEF AddClipping
<1>3. r \in InMemory /\ r.id = NoId /\ r.text = t /\ r.pending
  BY DEF InMemory, Texts
<1> HIDE DEF r
<1>4. /\ DOMAIN ram' = DOMAIN ram \cup {Len(ram) + 1}
      /\ ram'[Len(ram) + 1] = r
      /\ \A i \in DOMAIN ram : ram'[i] = ram[i]
  BY <1>s, <1>1, <1>3, AddedRam
<1>5. t \notin Others
  BY TextsDisjoint
<1>6. Proper(r, ServerIds, Published, given, gone)
  <2>1. \A a \in Published : a.of # t
    BY <1>2, <1>5 DEF OneId
  <2> QED
    BY <1>2, <1>3, <1>5, <2>1 DEF Proper
<1>7. OneEach(ram) /\ AllProper(ram, ServerIds, Published, given, gone)
  BY ClearNow
<1>8. OneEach(ram')
  BY <1>2, <1>3, <1>4, <1>7 DEF OneEach
<1>9. AllProper(ram', ServerIds, Published, given, gone)
  BY <1>4, <1>6, <1>7 DEF AllProper
<1> QED
  BY <1>1, <1>8, <1>9, MemoryClear

\* A record leaves the memory; the others are as they were.
LEMMA RemovedIsClear ==
  ASSUME StateOK, NEW i \in 1 .. Len(ram), ram' = RemoveAt(ram, i), OneEach(ram),
         NEW ids, NEW published, NEW drawn, NEW removed,
         AllProper(ram, ids, published, drawn, removed)
  PROVE  OneEach(ram') /\ AllProper(ram', ids, published, drawn, removed)
<1>1. /\ i \in DOMAIN ram /\ \A j \in DOMAIN ram' : \E k \in DOMAIN ram : ram'[j] = ram[k]
  BY RemovedRam
<1>2. AllProper(ram', ids, published, drawn, removed)
  BY <1>1 DEF AllProper
<1>3. ram \in Seq(InMemory)
  BY DEF StateOK
<1>4. /\ DOMAIN ram = 1 .. Len(ram) /\ Len(ram) \in Nat
      /\ DOMAIN RemoveAt(ram, i) = 1 .. Len(ram) - 1
      /\ \A j \in 1 .. Len(ram) - 1 : RemoveAt(ram, i)[j] = IF j < i THEN ram[j] ELSE ram[j + 1]
  BY <1>1, <1>3, RemovalElements
<1>5. /\ DOMAIN ram' = 1 .. Len(ram) - 1
      /\ \A j \in 1 .. Len(ram) - 1 : ram'[j] = IF j < i THEN ram[j] ELSE ram[j + 1]
  BY <1>4, Zenon
<1>6. OneEach(ram')
  <2> SUFFICES ASSUME NEW j \in DOMAIN ram', NEW k \in DOMAIN ram', ram'[j].text = ram'[k].text
               PROVE  j = k
    BY DEF OneEach
  <2> DEFINE From(x) == IF x < i THEN x ELSE x + 1
  <2>1. \A x \in DOMAIN ram' : From(x) \in DOMAIN ram /\ ram'[x] = ram[From(x)]
    BY <1>4, <1>5
  <2>2. From(j) = From(k)
    BY <2>1 DEF OneEach
  <2>3. j \in Nat /\ k \in Nat /\ i \in Nat
    BY <1>4, <1>5
  <2> QED
    BY <2>2, <2>3
<1> QED
  BY <1>2, <1>6

\* Records of one text have one id, in memory and in the store.
LEMMA OneIdEach ==
  ASSUME Inv, Clear, Matching(ram), NEW i \in DOMAIN ram, ram[i].id # NoId
  PROVE  /\ \A k \in DOMAIN ram : ram[i].id.of = ram[k].text => ram[i].id = ram[k].id
         /\ \A k \in DOMAIN Stored : ram[i].id.of = Stored[k].text => ram[i].id = Stored[k].id
<1>1. ram[i].id.of = ram[i].text
  BY DEF Inv, Owning, OwnIds
<1>2. OneEach(ram)
  BY ClearNow
<1>3. \A k \in DOMAIN ram : ram[k].text = ram[i].text => k = i
  BY <1>2 DEF OneEach
<1> QED
  BY <1>1, <1>3 DEF Matching, Same

LEMMA PublishedIsIds == ASSUME StateOK PROVE Published \subseteq Ids
<1>1. ServerIds \subseteq Ids
  BY DEF StateOK, Item, ServerIds
<1>2. \A j \in DOMAIN journal : journal[j] \in Ids
  BY LenProperties, ElementOfSeq DEF StateOK
<1> QED
  BY <1>1, <1>2 DEF Published, Deleted

LEMMA JournalGrows ==
  ASSUME StateOK, NEW i \in DOMAIN ram, RemoveClippingAt(i)
  PROVE  /\ DOMAIN journal \subseteq DOMAIN journal'
         /\ \A j \in DOMAIN journal : journal'[j] = journal[j]
         /\ \A j \in DOMAIN journal' : j \in DOMAIN journal \/ (journal'[j] = ram[i].id /\ ram[i].id # NoId)
         /\ ram[i].id # NoId => \E j \in DOMAIN journal' : journal'[j] = ram[i].id
<1>1. CASE ram[i].id = NoId
  BY <1>1 DEF RemoveClippingAt, dels
<1>2. CASE ram[i].id # NoId
  <2>1. ram[i].id \in Ids
    BY <1>2, RamElement DEF InMemory
  <2>2. journal' = Append(journal, ram[i].id) /\ journal \in Seq(Ids)
    BY <1>2 DEF RemoveClippingAt, StateOK
  <2>3. /\ journal' \in Seq(Ids) /\ Len(journal') = Len(journal) + 1
        /\ journal'[Len(journal) + 1] = ram[i].id
        /\ \A j \in 1 .. Len(journal) : journal'[j] = journal[j]
    BY <2>1, <2>2, AppendProperties
  <2>4. DOMAIN journal' = 1 .. Len(journal) + 1 /\ DOMAIN journal = 1 .. Len(journal)
        /\ Len(journal) \in Nat
    BY <2>2, <2>3, LenProperties
  <2> QED
    BY <1>2, <2>3, <2>4
<1> QED
  BY <1>1, <1>2

LEMMA PublishedOnRemoval ==
  ASSUME StateOK, NEW i \in DOMAIN ram, RemoveClippingAt(i)
  PROVE  /\ ServerIds' = ServerIds
         /\ \A a \in Published' : a \in Published \/ (a = ram[i].id /\ ram[i].id # NoId)
         /\ Deleted \subseteq Deleted'
         /\ ram[i].id # NoId => ram[i].id \in Deleted'
<1>1. server' = server
  BY DEF RemoveClippingAt, net
<1>2. /\ \A j \in DOMAIN journal' : journal'[j] \in Deleted \/ (journal'[j] = ram[i].id /\ ram[i].id # NoId)
      /\ \A j \in DOMAIN journal : journal[j] \in Deleted'
      /\ ram[i].id # NoId => ram[i].id \in Deleted'
  BY JournalGrows DEF Deleted
<1> QED
  BY <1>1, <1>2 DEF Published, ServerIds, Deleted

LEMMA RemoveClear ==
  ASSUME Inv, Clear, Matches, Stored' = Stored, NEW i \in 1 .. Len(ram), RemoveClippingAt(i)
  PROVE  Clear'
<1>s. StateOK
  BY DEF Inv, Base, TypeOK
<1>1. i \in DOMAIN ram /\ ram' = RemoveAt(ram, i) /\ undo' = ram /\ UNCHANGED <<given, gone>>
  BY DEF RemoveClippingAt, Call
<1>2. Matching(ram)
  BY DEF RemoveClippingAt, Matches, Writing
<1>3. /\ ServerIds' = ServerIds
      /\ \A a \in Published' : a \in Published \/ (a = ram[i].id /\ ram[i].id # NoId)
  BY <1>s, <1>1, PublishedOnRemoval
<1>4. ASSUME NEW r \in {Stored, ram}
      PROVE  OneEach(r) /\ AllProper(r, ServerIds', Published', given', gone')
  <2>1. OneEach(r) /\ AllProper(r, ServerIds, Published, given, gone)
    BY <1>4, ClearNow
  <2>2. \A k \in DOMAIN r, a \in Published' : a.of = r[k].text => a \in Published \/ a = r[k].id
    BY <1>1, <1>2, <1>3, OneIdEach
  <2>3. /\ ServerIds \subseteq ServerIds'
        /\ \A k \in DOMAIN r : given[r[k].text] # 0 => given'[r[k].text] # 0
        /\ \A k \in DOMAIN r : r[k].text \in gone' => r[k].text \in gone
    BY <1>1, <1>3
  <2> QED
    BY <2>1, <2>2, <2>3, ProperGrows
<1>5. OneEach(ram') /\ AllProper(ram', ServerIds', Published', given', gone')
  BY <1>s, <1>1, <1>4, RemovedIsClear
<1> QED
  BY <1>1, <1>4, <1>5, ClearParts

\* The user is told: what was dropped is in no records any more.
LEMMA ToldClear ==
  ASSUME Inv, Clear, Matches, Stored' = Stored, Removed
  PROVE  Clear'
<1>1. /\ pc = "return" /\ job = "remove" /\ undo' = <<>> /\ UNCHANGED <<server, journal, given>>
  BY DEF Removed, Resume, dels, net
<1>2. CASE ~ok
  <2>1. gone' = gone /\ ram' = undo
    BY <1>2 DEF Removed
  <2> QED
    BY <1>1, <2>1, QuietClear
<1>3. CASE ok
  <2>1. gone' = gone \cup Dropped(undo, ram) /\ ram' = ram
    BY <1>3 DEF Removed
  <2>2. Matching(ram)
    BY <1>1, <1>3 DEF Matches
  <2>3. ServerIds' = ServerIds /\ Published' = Published
    BY <1>1 DEF ServerIds, Published, Deleted
  <2>4. ASSUME NEW r \in {Stored, ram}
        PROVE  OneEach(r) /\ AllProper(r, ServerIds', Published', given', gone')
    <3>1. OneEach(r) /\ AllProper(r, ServerIds, Published, given, gone)
      BY ClearNow
    <3>2. \A k \in DOMAIN r : r[k].text \notin Dropped(undo, ram)
      BY <2>2 DEF Dropped, Matching, Same
    <3>3. /\ ServerIds \subseteq ServerIds'
          /\ \A k \in DOMAIN r, a \in Published' : a.of = r[k].text => a \in Published \/ a = r[k].id
          /\ \A k \in DOMAIN r : given[r[k].text] # 0 => given'[r[k].text] # 0
          /\ \A k \in DOMAIN r : r[k].text \in gone' => r[k].text \in gone
      BY <1>1, <2>1, <2>3, <3>2
    <3> QED
      BY <3>1, <3>3, ProperGrows
  <2> QED
    BY <1>1, <2>1, <2>4, EmptyProper, ClearParts
<1> QED
  BY <1>2, <1>3

\* Ids are drawn for texts that have none: none of these was published.
LEMMA DrawClear ==
  ASSUME Inv, Clear, OneId, Matches, Stored' = Stored, PrepareSync
  PROVE  Clear'
<1>s. StateOK
  BY DEF Inv, Base, TypeOK
<1>1. UNCHANGED <<server, journal, gone>> /\ undo' \in {undo, ram'}
  BY DEF PrepareSync, Call, call, net, dels, told
<1>2. ServerIds' = ServerIds /\ Published' = Published /\ gone' = gone
  BY <1>1 DEF ServerIds, Published, Deleted
<1>3. \A u \in Texts : given[u] # 0 => given'[u] # 0
  BY <1>s, DrawnRam
<1>4. ASSUME NEW r \in {Stored, ram, undo}
      PROVE  OneEach(r) /\ AllProper(r, ServerIds', Published', given', gone')
  <2>1. OneEach(r) /\ AllProper(r, ServerIds, Published, given, gone)
    BY ClearNow
  <2>2. \A k \in DOMAIN r : r[k].text \in Mine /\ given[r[k].text] # 0 => given'[r[k].text] # 0
    BY <1>3 DEF Texts
  <2> QED
    BY <1>2, <2>1, <2>2, Zenon DEF AllProper, Proper
<1>5. /\ DOMAIN ram' = DOMAIN ram
      /\ \A i \in DOMAIN ram : /\ ram'[i].text = ram[i].text
                               /\ ram[i].id # NoId => ram'[i].id = ram[i].id
                               /\ ram[i].id = NoId => given'[ram[i].text] # 0
                               /\ ram'[i].pending = ram[i].pending
  BY <1>s, DrawnRam
<1>6. OneEach(ram')
  BY <1>4, <1>5 DEF OneEach
<1>7. ASSUME NEW i \in DOMAIN ram
      PROVE  Proper(ram'[i], ServerIds', Published', given', gone')
  <2>1. Proper(ram[i], ServerIds', Published', given', gone')
    BY <1>4 DEF AllProper
  <2>2. CASE ram[i].id # NoId
    BY <1>5, <2>1, <2>2 DEF Proper
  <2>3. CASE ram[i].id = NoId
    <3>1. \A a \in Published' : a # NoId
      BY <1>s, <1>2, FilesDiffer, PublishedIsIds
    <3>2. \A a \in Published' : a.of # ram[i].text
      BY <2>1, <2>3, <3>1 DEF Proper
    <3>3. NoId \notin ServerIds'
      BY <3>1 DEF Published
    <3> QED
      BY <1>5, <2>1, <2>3, <3>2, <3>3 DEF Proper
  <2> QED
    BY <2>2, <2>3
<1>8. AllProper(ram', ServerIds', Published', given', gone')
  BY <1>5, <1>7 DEF AllProper
<1> QED
  BY <1>1, <1>4, <1>6, <1>8, ClearParts

LEMMA ServerIdsGrow ==
  ASSUME UNCHANGED net \/ \E new : Gets(new)
  PROVE  ServerIds \subseteq ServerIds'
<1>1. CASE UNCHANGED net
  BY <1>1 DEF net, ServerIds
<1>2. ASSUME NEW new, Gets(new) PROVE ServerIds \subseteq ServerIds'
  BY <1>2, Gained
<1> QED
  BY <1>1, <1>2

LEMMA DeletionClear ==
  ASSUME Inv, Clear, Stored' = Stored, SendDeletion
  PROVE  Clear'
<1>s. StateOK
  BY DEF Inv, Base, TypeOK
<1> DEFINE j == Least(ToDelete)
<1>1. UNCHANGED <<ram, undo, journal, given, gone>>
  BY DEF SendDeletion, mem, call, told
<1>2. /\ j \in DOMAIN journal
      /\ UNCHANGED net \/ \E new : Gets(new) /\ new.id = journal[j]
  BY <1>s, SendDeletionGets
<1> HIDE DEF j
<1>3. ServerIds \subseteq ServerIds' /\ ServerIds' \subseteq ServerIds \cup Deleted
  <2>1. CASE UNCHANGED net
    BY <2>1 DEF net, ServerIds
  <2>2. ASSUME NEW new, Gets(new), new.id = journal[j]
        PROVE  ServerIds \subseteq ServerIds' /\ ServerIds' \subseteq ServerIds \cup Deleted
    BY <1>2, <2>2, Gained DEF Deleted
  <2> QED
    BY <1>2, <2>1, <2>2
<1>4. \A a \in Published' : a \in Published
  BY <1>1, <1>3 DEF Published, Deleted
<1> QED
  BY <1>1, <1>3, <1>4, WorldClear

LEMMA UploadClear ==
  ASSUME Inv, Clear, Matches, Stored' = Stored, Upload
  PROVE  Clear'
<1>s. StateOK /\ InHand
  BY DEF Inv, Base, TypeOK
<1> DEFINE i == Least(ToUpload)
<1>1. pc = "upload" /\ UNCHANGED <<ram, undo, journal, given, gone>>
  BY DEF Upload, mem, call, dels, told
<1>2. HaveIds(ram) /\ loaded
  BY <1>s, <1>1 DEF InHand
<1>3. /\ i \in DOMAIN ram
      /\ UNCHANGED net \/ \E new : Gets(new) /\ new.id = ram[i].id
  BY <1>s, <1>2, UploadGets
<1> HIDE DEF i
<1>4. ServerIds \subseteq ServerIds' /\ ServerIds' \subseteq ServerIds \cup {ram[i].id}
  <2>1. CASE UNCHANGED net
    BY <2>1 DEF net, ServerIds
  <2>2. ASSUME NEW new, Gets(new), new.id = ram[i].id
        PROVE  ServerIds \subseteq ServerIds' /\ ServerIds' \subseteq ServerIds \cup {ram[i].id}
    BY <2>2, Gained
  <2> QED
    BY <1>3, <2>1, <2>2
<1>5. \A a \in Published' : a \in Published \/ a = ram[i].id
  BY <1>1, <1>4 DEF Published, Deleted
<1>6. Matching(ram) /\ undo = <<>>
  BY <1>1, <1>2 DEF Matches, Writing
<1>7. /\ \A k \in DOMAIN ram : ram[i].id.of = ram[k].text => ram[i].id = ram[k].id
      /\ \A k \in DOMAIN Stored : ram[i].id.of = Stored[k].text => ram[i].id = Stored[k].id
  BY <1>2, <1>3, <1>6, OneIdEach DEF HaveIds
<1>8. \A r \in {Stored, ram, undo} : \A k \in DOMAIN r, a \in Published' :
        a.of = r[k].text => a \in Published \/ a = r[k].id
  BY <1>5, <1>6, <1>7
<1> QED
  BY <1>1, <1>4, <1>8, WorldClear

LEMMA ElsewhereClear ==
  ASSUME Inv, Clear, OneItem, Stored' = Stored, Elsewhere
  PROVE  Clear'
<1>s. StateOK /\ Owning
  BY DEF Inv, Base, TypeOK
<1>1. UNCHANGED <<ram, undo, journal, given, gone>>
  BY DEF Elsewhere, mem, call, dels, told
<1>2. PICK new : /\ Gets(new)
                 /\ \/ \E old \in server : old.live /\ old.id = new.id
                    \/ /\ new.id.of \in Others
                       /\ \A it \in server : it.id.of # new.id.of
  BY <1>s, ElsewhereGets
<1>3. ServerIds' = ServerIds \cup {new.id}
  BY <1>2, Gained
<1>4. \A a \in Published' : a \in Published \/ a = new.id
  BY <1>1, <1>3 DEF Published, Deleted
<1>5. ASSUME NEW r \in {Stored, ram, undo}, NEW k \in DOMAIN r, new.id.of = r[k].text
      PROVE  new.id \in Published
  <2>1. CASE \E old \in server : old.live /\ old.id = new.id
    BY <2>1 DEF Published, ServerIds
  <2>2. CASE new.id.of \in Others /\ \A it \in server : it.id.of # new.id.of
    <3>1. Proper(r[k], ServerIds, Published, given, gone)
      BY ClearNow DEF AllProper
    <3>2. r[k].id \in ServerIds
      BY <1>5, <2>2, <3>1 DEF Proper
    <3>3. PICK it \in server : it.id = r[k].id
      BY <3>2 DEF ServerIds
    <3>4. it.id # NoId
      BY <1>s, FilesDiffer DEF StateOK, Item
    <3>5. r[k].id.of = r[k].text
      BY <1>s, <3>3, <3>4 DEF Owning, OwnIds
    <3> QED
      BY <1>5, <2>2, <3>3, <3>5
  <2> QED
    BY <1>2, <2>1, <2>2
<1>6. \A r \in {Stored, ram, undo} : \A k \in DOMAIN r, a \in Published' :
        a.of = r[k].text => a \in Published \/ a = r[k].id
  BY <1>4, <1>5
<1> QED
  BY <1>1, <1>3, <1>6, WorldClear

LEMMA SentClear ==
  ASSUME Inv, Clear, Walked, Stored' = Stored, FinishUploads
  PROVE  Clear'
<1>s. StateOK
  BY DEF Inv, Base, TypeOK
<1>1. pc = "finish" /\ UNCHANGED <<server, journal, given, gone>> /\ undo' \in {undo, ram'}
  BY DEF FinishUploads, Call, call, net, dels, told
<1>2. /\ DOMAIN ram' = DOMAIN ram
      /\ \A i \in DOMAIN ram : ram'[i].text = ram[i].text /\ ram'[i].id = ram[i].id
  BY <1>s, SentRam
<1>3. \A i \in DOMAIN ram : ram[i].id \in ServerIds
  BY <1>1 DEF Walked, Sending
<1>4. OneEach(ram) /\ AllProper(ram, ServerIds, Published, given, gone)
  BY ClearNow
<1>5. OneEach(ram')
  BY <1>2, <1>4 DEF OneEach
<1>6. AllProper(ram', ServerIds, Published, given, gone)
  BY <1>2, <1>3, <1>4, Zenon DEF AllProper, Proper
<1> QED
  BY <1>1, <1>5, <1>6, MemoryClear

\* What one page does, with the item it holds: the first the cursor has not passed.
LEMMA AppliedItem ==
  ASSUME StateOK, ApplyRemote
  PROVE  /\ pc = "scan" /\ UNCHANGED <<server, rev, journal, given, gone>>
         /\ \E it \in server :
           /\ walk < it.rev /\ \A x \in server : x.rev <= walk \/ it.rev <= x.rev
           /\ \/ pc' = "unload" /\ UNCHANGED <<ram, undo, job, walk>>
              \/ /\ pc' \in {"scan", "synced"} /\ walk' = it.rev /\ UNCHANGED <<ram, undo, job>>
                 /\ IF \A i \in DOMAIN ram : ram[i].id # it.id THEN ~it.live
                    ELSE /\ it.live
                         /\ \A i \in DOMAIN ram :
                              ram[i].id = it.id => ram[i].rev = it.rev /\ ~ram[i].pending
              \/ /\ pc' = "room" /\ job' = "apply" /\ undo' = ram /\ walk' = it.rev
                 /\ \/ /\ it.live /\ \A i \in DOMAIN ram : ram[i].id # it.id
                       /\ ram' = Append(ram, FromServer(it))
                    \/ ~it.live /\ \E i \in DOMAIN ram :
                         ram[i].id = it.id /\ ram' = RemoveAt(ram, i)
                    \/ it.live /\ \E i \in DOMAIN ram :
                         ram[i].id = it.id /\ ram' = [ram EXCEPT ![i] = FromServer(it)]
<1>1. Unseen \in SUBSET Nat /\ \A x \in server : x.rev \in Nat /\ (x.rev > walk => x.rev \in Unseen)
  BY DEF StateOK, Item, Unseen
<1>2. Unseen # {}
  BY DEF ApplyRemote
<1>3. Least(Unseen) \in Unseen /\ \A n \in Unseen : Least(Unseen) <= n
  BY <1>1, <1>2, LeastIs
<1>4. PICK it \in server :
        /\ it.rev = Least(Unseen)
        /\ LET next == IF more' THEN "scan" ELSE "synced"
               at   == {i \in DOMAIN ram : ram[i].id = it.id}
           IN \/ /\ at = {}
                 /\ it.live
                 /\ IF Len(ram) < Capacity
                    THEN /\ ram' = Append(ram, FromServer(it))
                         /\ Call("apply", ram, Len(ram) + 1)
                         /\ walk' = it.rev
                    ELSE pc' = "unload" /\ UNCHANGED <<ram, call, walk>>
                 /\ UNCHANGED kept
              \/ /\ IF at = {} THEN ~it.live
                    ELSE it.live /\ \A i \in at : ram[i].rev = it.rev /\ ~ram[i].pending
                 /\ walk' = it.rev
                 /\ pc' = next
                 /\ UNCHANGED <<ram, call, kept>>
              \/ \E i \in at :
                 /\ ~it.live
                 /\ ram' = RemoveAt(ram, i)
                 /\ kept' = kept \ {ram[i].text}
                 /\ Call("apply", ram, 0)
                 /\ walk' = it.rev
              \/ \E i \in at :
                 /\ it.live
                 /\ ram[i].rev # it.rev \/ ram[i].pending
                 /\ ram' = [ram EXCEPT ![i] = FromServer(it)]
                 /\ Call("apply", ram, i)
                 /\ walk' = it.rev
                 /\ UNCHANGED kept
  BY Zenon DEF ApplyRemote
<1>5. walk \in Nat
  BY DEF StateOK
<1>6. walk < it.rev
  BY <1>1, <1>3, <1>4, <1>5 DEF Unseen
<1>7. \A x \in server : x.rev <= walk \/ it.rev <= x.rev
  BY <1>1, <1>3, <1>4, <1>5
<1>8. pc = "scan" /\ UNCHANGED <<server, rev, journal, given, gone>>
  BY DEF ApplyRemote, net, dels
<1>9. \/ pc' = "unload" /\ UNCHANGED <<ram, undo, job, walk>>
      \/ /\ pc' \in {"scan", "synced"} /\ walk' = it.rev /\ UNCHANGED <<ram, undo, job>>
         /\ IF \A i \in DOMAIN ram : ram[i].id # it.id THEN ~it.live
            ELSE /\ it.live
                 /\ \A i \in DOMAIN ram :
                      ram[i].id = it.id => ram[i].rev = it.rev /\ ~ram[i].pending
      \/ /\ pc' = "room" /\ job' = "apply" /\ undo' = ram /\ walk' = it.rev
         /\ \/ /\ it.live /\ \A i \in DOMAIN ram : ram[i].id # it.id
               /\ ram' = Append(ram, FromServer(it))
            \/ ~it.live /\ \E i \in DOMAIN ram :
                 ram[i].id = it.id /\ ram' = RemoveAt(ram, i)
            \/ it.live /\ \E i \in DOMAIN ram :
                 ram[i].id = it.id /\ ram' = [ram EXCEPT ![i] = FromServer(it)]
  BY <1>4 DEF Call, call
<1> QED
  BY <1>6, <1>7, <1>8, <1>9

\* A live item of the server is a proper record once the journal is empty.
LEMMA FromServerProper ==
  ASSUME Inv, OneId, Buried, pc = "scan", NEW it \in server, it.live
  PROVE  /\ FromServer(it) \in InMemory
         /\ FromServer(it).id = it.id /\ FromServer(it).text = it.id.of
         /\ Proper(FromServer(it), ServerIds, Published, given, gone)
<1>s. StateOK /\ Owning
  BY DEF Inv, Base, TypeOK
<1>1. FromServer(it) \in InMemory /\ FromServer(it).id = it.id /\ FromServer(it).text = it.id.of
  BY <1>s, FromServerIsInMemory DEF FromServer, Owning
<1>2. it.id \in ServerIds /\ it.id \in Published
  BY DEF ServerIds, Published
<1>3. it.id.of \notin gone
  <2>1. journal = <<>>
    BY DEF Buried, AfterDeletions
  <2> QED
    BY <2>1 DEF Buried, Graves
<1>4. it.id.of \in Mine => given[it.id.of] # 0
  BY <1>2, TextsDisjoint DEF OneId
<1>5. \A a \in Published : a.of = it.id.of => a = it.id
  BY <1>2 DEF OneId
<1> HIDE DEF FromServer
<1> QED
  BY <1>1, <1>2, <1>3, <1>4, <1>5 DEF Proper

LEMMA ApplyClear ==
  ASSUME Inv, Clear, OneId, Buried, Stored' = Stored, ApplyRemote
  PROVE  Clear'
<1>s. StateOK /\ Owning
  BY DEF Inv, Base, TypeOK
<1>1. pc = "scan" /\ UNCHANGED <<server, journal, given, gone>>
  BY <1>s, AppliedItem
<1>2. OneEach(ram) /\ AllProper(ram, ServerIds, Published, given, gone)
  BY ClearNow
<1>3. CASE UNCHANGED <<ram, undo>>
  BY <1>1, <1>3, QuietClear
<1>4. ASSUME NEW it \in server, it.live, \A i \in DOMAIN ram : ram[i].id # it.id,
             ram' = Append(ram, FromServer(it)), undo' = ram
      PROVE  Clear'
  <2>1. /\ FromServer(it) \in InMemory
        /\ FromServer(it).text = it.id.of
        /\ Proper(FromServer(it), ServerIds, Published, given, gone)
    BY <1>1, <1>4, FromServerProper
  <2>2. /\ DOMAIN ram' = DOMAIN ram \cup {Len(ram) + 1}
        /\ ram'[Len(ram) + 1] = FromServer(it)
        /\ \A i \in DOMAIN ram : ram'[i] = ram[i]
    BY <1>s, <1>4, <2>1, AddedRam
  <2>3. it.id \in Published
    BY DEF Published, ServerIds
  <2>4. \A i \in DOMAIN ram : ram[i].text # it.id.of
    BY <1>2, <1>4, <2>3 DEF AllProper, Proper
  <2>5. OneEach(ram')
    BY <1>2, <2>1, <2>2, <2>4 DEF OneEach
  <2>6. AllProper(ram', ServerIds, Published, given, gone)
    BY <1>2, <2>1, <2>2 DEF AllProper
  <2> QED
    BY <1>1, <1>4, <2>5, <2>6, MemoryClear
<1>5. ASSUME NEW i \in DOMAIN ram, ram' = RemoveAt(ram, i), undo' = ram
      PROVE  Clear'
  <2>1. i \in 1 .. Len(ram)
    BY <1>s, LenProperties DEF StateOK
  <2>2. OneEach(ram') /\ AllProper(ram', ServerIds, Published, given, gone)
    BY <1>s, <1>2, <1>5, <2>1, RemovedIsClear
  <2> QED
    BY <1>1, <1>5, <2>2, MemoryClear
<1>6. ASSUME NEW it \in server, it.live, NEW i \in DOMAIN ram, ram[i].id = it.id,
             ram' = [ram EXCEPT ![i] = FromServer(it)], undo' = ram
      PROVE  Clear'
  <2>1. /\ FromServer(it).text = it.id.of
        /\ Proper(FromServer(it), ServerIds, Published, given, gone)
    BY <1>1, <1>6, FromServerProper
  <2>2. DOMAIN ram' = DOMAIN ram /\ ram'[i] = FromServer(it)
        /\ \A j \in DOMAIN ram : j # i => ram'[j] = ram[j]
    BY <1>6
  <2>3. ram[i].text = it.id.of
    BY <1>s, <1>6, FilesDiffer DEF StateOK, Item, Owning, OwnIds
  <2>4. OneEach(ram')
    BY <1>2, <2>1, <2>2, <2>3 DEF OneEach
  <2>5. AllProper(ram', ServerIds, Published, given, gone)
    BY <1>2, <2>1, <2>2 DEF AllProper
  <2> QED
    BY <1>1, <1>6, <2>4, <2>5, MemoryClear
<1> QED
  BY <1>s, <1>3, <1>4, <1>5, <1>6, AppliedItem

\* Every other step leaves the world alone, and the records where they were.
LEMMA OtherSteps ==
  ASSUME [Next]_vars,
         ~ \E next \in {"reading", "probe"} : LoadForBook(next),
         ~ \E t \in Mine : AddClipping(t),
         ~ \E i \in 1 .. Len(ram) : RemoveClippingAt(i),
         ~ (Swap \/ Tidy \/ Removed \/ PrepareSync \/ SendDeletion \/ FinishDeletions
            \/ Upload \/ FinishUploads \/ ApplyRemote \/ Elsewhere)
  PROVE  /\ UNCHANGED <<server, rev, journal, given, gone>>
         /\ \/ UNCHANGED <<ram, undo>>
            \/ UNCHANGED ram /\ undo' = ram
            \/ UNCHANGED ram /\ undo' = <<>>
            \/ ram' = undo /\ undo' = <<>>
            \/ ram' = <<>> /\ undo' = <<>>
<1>1. CASE (\E next \in {"reading", "closed"} : LoadFails(next)) \/ CloseBook \/ JournalFails
  BY <1>1 DEF LoadFails, CloseBook, JournalFails, mem, call, dels, net, told
<1>2. CASE Unload \/ PowerCut
  BY <1>2 DEF Unload, PowerCut, Call, Forget, mem, dels, net, told
<1>3. CASE MakeRoom \/ WriteTmp \/ WriteFails \/ Park \/ SwapFails
  BY <1>3 DEF MakeRoom, WriteTmp, WriteFails, Park, SwapFails, mem, call, dels, net, told
<1>4. CASE Added \/ Unloaded \/ Prepared \/ UploadsFinished \/ Applied
  BY <1>4 DEF Added, Unloaded, Prepared, UploadsFinished, Applied, Resume, Forget, dels, net,
     told
<1>5. CASE Probe \/ JournalUnreadable \/ UploadsDone \/ ScanFails \/ NothingUnseen \/ Synced
  BY <1>5 DEF Probe, JournalUnreadable, UploadsDone, ScanFails, NothingUnseen, Synced,
     mem, call, dels, net, told
<1>6. CASE UNCHANGED vars
  BY <1>6 DEF vars, mem, call, dels, net, told
<1> QED
  BY <1>1, <1>2, <1>3, <1>4, <1>5, <1>6
     DEF Next, OpenBook, StartSync, WriteToFile, Resumed, Run

LEMMA ClearStep ==
  ASSUME Inv, Identity, [Next]_vars
  PROVE  Clear'
<1>s. StateOK
  BY DEF Inv, Base, TypeOK
<1>i. Clear /\ OneId /\ OneItem /\ Matches /\ Removing /\ Buried /\ Walked /\ Cursor
  BY DEF Identity
<1>1. CASE Swap
  BY <1>i, <1>1, SwapClear
<1>2. CASE ~Swap
  <2>1. Stored' = Stored
    BY <1>2, StoredSteps
  <2>2. CASE \E next \in {"reading", "probe"} : LoadForBook(next)
    BY <1>i, <2>1, <2>2, LoadClear
  <2>3. CASE \E t \in Mine : AddClipping(t)
    BY <1>i, <2>1, <2>3, AddClear
  <2>4. CASE \E i \in 1 .. Len(ram) : RemoveClippingAt(i)
    BY <1>i, <2>1, <2>4, RemoveClear
  <2>5. CASE Tidy
    BY <1>s, <1>i, <2>1, <2>5, TidyClear
  <2>6. CASE Removed \/ PrepareSync
    BY <1>i, <2>1, <2>6, ToldClear, DrawClear
  <2>7. CASE SendDeletion \/ Upload \/ Elsewhere
    BY <1>i, <2>1, <2>7, DeletionClear, UploadClear, ElsewhereClear
  <2>8. CASE FinishDeletions
    <3>1. UNCHANGED <<ram, undo, given, gone, server>> /\ journal' \in {<<>>, journal}
      BY <2>8 DEF FinishDeletions, mem, call, net, told
    <3>2. ServerIds' = ServerIds /\ \A a \in Published' : a \in Published
      BY <3>1 DEF Published, ServerIds, Deleted
    <3> QED
      BY <1>i, <2>1, <3>1, <3>2, WorldClear
  <2>9. CASE FinishUploads \/ ApplyRemote
    BY <1>i, <2>1, <2>9, SentClear, ApplyClear
  <2>10. CASE ~ (\/ \E next \in {"reading", "probe"} : LoadForBook(next)
                 \/ \E t \in Mine : AddClipping(t)
                 \/ \E i \in 1 .. Len(ram) : RemoveClippingAt(i)
                 \/ Tidy \/ Removed \/ PrepareSync \/ SendDeletion \/ FinishDeletions
                 \/ Upload \/ FinishUploads \/ ApplyRemote \/ Elsewhere)
    <3>1. /\ UNCHANGED <<server, rev, journal, given, gone>>
          /\ ram' \in {ram, undo, <<>>} /\ undo' \in {ram, undo, <<>>}
      BY <1>2, <2>10, OtherSteps
    <3> QED
      BY <1>i, <2>1, <3>1, QuietClear
  <2> QED
    BY <2>2, <2>3, <2>4, <2>5, <2>6, <2>7, <2>8, <2>9, <2>10
<1> QED
  BY <1>1, <1>2

-----------------------------------------------------------------------------
(* One id for a clipping, and records that are those on the card *)

LEMMA PublishedGrows ==
  ASSUME OneId, UNCHANGED <<given, gone>>, ServerIds \subseteq ServerIds',
         NEW x, \A a \in Published' : a \in Published \/ a = x,
         \A b \in Published : b.of = x.of => b = x,
         IF x.of \in Others THEN x \in ServerIds' ELSE given[x.of] # 0
  PROVE  OneId'
<1>1. \A a, b \in Published' : a.of = b.of => a = b
  BY DEF OneId
<1>2. \A a \in Published' : IF a.of \in Others THEN a \in ServerIds' ELSE given'[a.of] # 0
  BY DEF OneId
<1>3. \A t \in gone' \cap Others : \E a \in ServerIds' : a.of = t
  BY DEF OneId
<1> QED
  BY <1>1, <1>2, <1>3 DEF OneId

\* The id of a record in memory may be published.
LEMMA RecordId ==
  ASSUME Inv, Clear, NEW i \in DOMAIN ram, ram[i].id # NoId
  PROVE  LET x == ram[i].id
         IN /\ \A b \in Published : b.of = x.of => b = x
            /\ IF x.of \in Others THEN x \in ServerIds ELSE given[x.of] # 0
<1>1. ram[i].id.of = ram[i].text
  BY DEF Inv, Owning, OwnIds
<1>2. Proper(ram[i], ServerIds, Published, given, gone)
  BY ClearNow DEF AllProper
<1>3. ram[i].text \in Mine \cup Others
  BY RamElement DEF Inv, Base, TypeOK, InMemory, Texts
<1> QED
  BY <1>1, <1>2, <1>3 DEF Proper

LEMMA OneIdStep ==
  ASSUME Inv, Identity, [Next]_vars
  PROVE  OneId'
<1>s. StateOK /\ InHand /\ Owning
  BY DEF Inv, Base, TypeOK
<1>i. Clear /\ OneId /\ OneItem /\ Matches
  BY DEF Identity
<1>1. CASE \/ \E next \in {"reading", "probe"} : LoadForBook(next)
           \/ \E t \in Mine : AddClipping(t)
           \/ Swap \/ Tidy \/ FinishUploads \/ ApplyRemote
  <2>1. UNCHANGED <<server, journal, given, gone>>
    BY <1>1 DEF LoadForBook, AddClipping, Swap, Tidy, FinishUploads, ApplyRemote, dels, net, told
  <2> QED
    BY <1>i, <2>1, KnownStays DEF OneId
<1>2. CASE \E i \in 1 .. Len(ram) : RemoveClippingAt(i)
  <2>1. PICK i \in 1 .. Len(ram) : RemoveClippingAt(i)
    BY <1>2
  <2>2. i \in DOMAIN ram /\ UNCHANGED <<given, gone>>
    BY <2>1 DEF RemoveClippingAt
  <2>3. /\ ServerIds' = ServerIds
        /\ \A a \in Published' : a \in Published \/ (a = ram[i].id /\ ram[i].id # NoId)
    BY <1>s, <2>1, <2>2, PublishedOnRemoval
  <2>4. CASE ram[i].id # NoId
    <3>1. /\ \A b \in Published : b.of = ram[i].id.of => b = ram[i].id
          /\ IF ram[i].id.of \in Others THEN ram[i].id \in ServerIds ELSE given[ram[i].id.of] # 0
      BY <1>i, <2>2, <2>4, RecordId
    <3> QED
      BY <1>i, <2>2, <2>3, <3>1, PublishedGrows
  <2>5. CASE ram[i].id = NoId
    <3>1. \A a \in Published' : a \in Published
      BY <2>3, <2>5
    <3> QED
      BY <1>i, <2>2, <2>3, <3>1 DEF OneId
  <2> QED
    BY <2>4, <2>5
<1>3. CASE Removed
  <2>1. /\ UNCHANGED <<server, journal, given>>
        /\ gone' \subseteq gone \cup Dropped(undo, ram)
    BY <1>3 DEF Removed, Resume, dels, net
  <2>2. ServerIds' = ServerIds /\ Published' = Published
    BY <2>1 DEF ServerIds, Published, Deleted
  <2>3. ASSUME NEW t \in Dropped(undo, ram), t \in Others
        PROVE  \E a \in ServerIds : a.of = t
    <3>1. PICK k \in DOMAIN undo : undo[k].text = t
      BY DEF Dropped
    <3>2. undo[k].id \in ServerIds
      BY <1>i, <2>3, <3>1, ClearNow DEF AllProper, Proper
    <3>3. undo[k].id # NoId
      BY <1>s, <3>2, FilesDiffer, PublishedIsIds DEF Published
    <3>4. undo[k].id.of = t
      BY <1>s, <3>1, <3>3 DEF Owning, OwnIds
    <3> QED
      BY <3>2, <3>4
  <2> QED
    BY <1>i, <2>1, <2>2, <2>3 DEF OneId
<1>4. CASE PrepareSync
  <2>1. UNCHANGED <<server, journal, gone>>
    BY <1>4 DEF PrepareSync, dels, net, told
  <2>2. ServerIds' = ServerIds /\ Published' = Published
    BY <2>1 DEF ServerIds, Published, Deleted
  <2>3. \A a \in Published : given[a.of] # 0 => given'[a.of] # 0
    BY <1>s, <1>4, DrawnRam, PublishedIsIds DEF Ids
  <2> QED
    BY <1>i, <2>1, <2>2, <2>3 DEF OneId
<1>5. CASE SendDeletion
  <2> DEFINE j == Least(ToDelete)
  <2>1. UNCHANGED <<journal, given, gone>>
    BY <1>5 DEF SendDeletion, told
  <2>2. /\ j \in DOMAIN journal
        /\ UNCHANGED net \/ \E new : Gets(new) /\ new.id = journal[j]
    BY <1>s, <1>5, SendDeletionGets
  <2> HIDE DEF j
  <2>3. ServerIds \subseteq ServerIds' /\ ServerIds' \subseteq ServerIds \cup Deleted
    <3>1. CASE UNCHANGED net
      BY <3>1 DEF net, ServerIds
    <3>2. ASSUME NEW new, Gets(new), new.id = journal[j]
          PROVE  ServerIds \subseteq ServerIds' /\ ServerIds' \subseteq ServerIds \cup Deleted
      BY <2>2, <3>2, Gained DEF Deleted
    <3> QED
      BY <2>2, <3>1, <3>2
  <2>4. \A a \in Published' : a \in Published
    BY <2>1, <2>3 DEF Published, Deleted
  <2> QED
    BY <1>i, <2>1, <2>3, <2>4 DEF OneId
<1>6. CASE FinishDeletions
  <2>1. UNCHANGED <<given, gone, server>> /\ journal' \in {<<>>, journal}
    BY <1>6 DEF FinishDeletions, net, told
  <2>2. ServerIds' = ServerIds /\ \A a \in Published' : a \in Published
    BY <2>1 DEF Published, ServerIds, Deleted
  <2> QED
    BY <1>i, <2>1, <2>2 DEF OneId
<1>7. CASE Upload
  <2> DEFINE i == Least(ToUpload)
  <2>1. pc = "upload" /\ UNCHANGED <<journal, given, gone>>
    BY <1>7 DEF Upload, dels, told
  <2>2. HaveIds(ram)
    BY <1>s, <2>1 DEF InHand
  <2>3. /\ i \in DOMAIN ram
        /\ UNCHANGED net \/ \E new : Gets(new) /\ new.id = ram[i].id
    BY <1>s, <1>7, <2>2, UploadGets
  <2> HIDE DEF i
  <2>4. /\ \A b \in Published : b.of = ram[i].id.of => b = ram[i].id
        /\ IF ram[i].id.of \in Others THEN ram[i].id \in ServerIds ELSE given[ram[i].id.of] # 0
    BY <1>i, <2>2, <2>3, RecordId DEF HaveIds
  <2>5. CASE UNCHANGED net
    BY <1>i, <2>1, <2>5, KnownStays DEF net, OneId
  <2>6. ASSUME NEW new, Gets(new), new.id = ram[i].id PROVE OneId'
    <3>1. ServerIds' = ServerIds \cup {ram[i].id}
      BY <2>6, Gained
    <3>2. \A a \in Published' : a \in Published \/ a = ram[i].id
      BY <2>1, <3>1 DEF Published, Deleted
    <3> QED
      BY <1>i, <2>1, <2>4, <3>1, <3>2, PublishedGrows
  <2> QED
    BY <2>3, <2>5, <2>6
<1>8. CASE Elsewhere
  <2>1. UNCHANGED <<journal, given, gone>>
    BY <1>8 DEF Elsewhere, dels, told
  <2>2. PICK new : /\ Gets(new)
                   /\ \/ \E old \in server : old.live /\ old.id = new.id
                      \/ /\ new.id.of \in Others
                         /\ \A it \in server : it.id.of # new.id.of
    BY <1>s, <1>i, <1>8, ElsewhereGets
  <2>3. ServerIds' = ServerIds \cup {new.id}
    BY <2>2, Gained
  <2>4. \A a \in Published' : a \in Published \/ a = new.id
    BY <2>1, <2>3 DEF Published, Deleted
  <2>5. CASE \E old \in server : old.live /\ old.id = new.id
    <3>1. new.id \in ServerIds
      BY <2>5 DEF ServerIds
    <3>2. \A a \in Published' : a \in Published
      BY <2>4, <3>1 DEF Published
    <3> QED
      BY <1>i, <2>1, <2>3, <3>2 DEF OneId
  <2>6. CASE new.id.of \in Others /\ \A it \in server : it.id.of # new.id.of
    <3>1. \A b \in Published : b.of # new.id.of
      BY <1>i, <2>6 DEF OneId, ServerIds
    <3> QED
      BY <1>i, <2>1, <2>3, <2>4, <2>6, <3>1, PublishedGrows
  <2> QED
    BY <2>2, <2>5, <2>6
<1>9. CASE ~ (\/ \E next \in {"reading", "probe"} : LoadForBook(next)
              \/ \E t \in Mine : AddClipping(t)
              \/ \E i \in 1 .. Len(ram) : RemoveClippingAt(i)
              \/ Swap \/ Tidy \/ Removed \/ PrepareSync \/ SendDeletion \/ FinishDeletions
              \/ Upload \/ FinishUploads \/ ApplyRemote \/ Elsewhere)
  <2>1. UNCHANGED <<server, journal, given, gone>>
    BY <1>9, OtherSteps
  <2> QED
    BY <1>i, <2>1, KnownStays DEF OneId
<1> QED
  BY <1>1, <1>2, <1>3, <1>4, <1>5, <1>6, <1>7, <1>8, <1>9

LEMMA MatchingStays ==
  ASSUME Stored' = Stored
  PROVE  /\ ram' = ram /\ Matching(ram) => Matching(ram)'
         /\ undo' = undo /\ Matching(undo) => Matching(undo)'
         /\ ram' = undo /\ Matching(undo) => Matching(ram)'
         /\ undo' = ram /\ Matching(ram) => Matching(undo)'
BY DEF Matching

\* The records in memory are marked, or get other places, and look the same.
LEMMA MatchingMarked ==
  ASSUME Stored' = Stored, Matching(ram), DOMAIN ram' = DOMAIN ram,
         \A i \in DOMAIN ram : /\ ram'[i].text = ram[i].text /\ ram'[i].id = ram[i].id
                               /\ ram'[i].pending = ram[i].pending /\ ram'[i].rev = ram[i].rev
  PROVE  Matching(ram)'
BY DEF Matching, Same

LEMMA MatchesStep ==
  ASSUME Inv, Identity, [Next]_vars
  PROVE  Matches'
<1>s. StateOK /\ FlagsOK /\ InHand /\ Installing
  BY DEF Inv, Base, TypeOK
<1>m. Matches
  BY DEF Identity
<1>t. ~Swap => Stored' = Stored
  BY StoredSteps
<1>1. ASSUME NEW next \in {"reading", "probe"}, LoadForBook(next) PROVE Matches'
  <2>1. /\ ram' = Placed(Stored) /\ undo' = undo /\ pc = "closed" /\ pc' = next /\ ~Swap
    BY <1>1 DEF LoadForBook, call, Swap
  <2>2. Matching(ram)'
    BY <1>t, <2>1 DEF Placed, Matching, Same
  <2>3. undo = <<>>
    BY <1>m, <2>1 DEF Matches, Writing
  <2> QED
    BY <2>1, <2>2, <2>3 DEF Matches
<1>2. CASE \/ \E next \in {"reading", "closed"} : LoadFails(next)
           \/ CloseBook \/ JournalFails
           \/ Probe \/ JournalUnreadable \/ UploadsDone \/ ScanFails \/ NothingUnseen \/ Synced
           \/ SendDeletion \/ FinishDeletions \/ Upload
  <2>1. /\ UNCHANGED <<ram, undo, loaded>> /\ ~Swap /\ ~Writing /\ ~Writing'
        /\ pc' # "unload" => pc # "unload"
    BY <1>2 DEF LoadFails, CloseBook, JournalFails, Probe, JournalUnreadable, UploadsDone,
       ScanFails, NothingUnseen, Synced, SendDeletion, FinishDeletions, Upload, GiveUp, mem,
       call, Swap, Writing
  <2> QED
    BY <1>m, <1>t, <2>1, MatchingStays DEF Matches, Writing
<1>3. CASE Unload \/ Unloaded \/ PowerCut
  <2>1. CASE Forget
    <3>1. undo' = <<>> /\ loaded' = FALSE /\ pc' = "closed"
      BY <2>1 DEF Forget
    <3> QED
      BY <3>1 DEF Matches
  <2>2. CASE ~Forget
    <3>1. pc' = "room" /\ job' = "unload"
      BY <1>3, <2>2 DEF Unload, Unloaded, PowerCut, Call
    <3> QED
      BY <3>1 DEF Matches, Writing
  <2> QED
    BY <2>1, <2>2
<1>4. CASE \/ \E t \in Mine : AddClipping(t)
           \/ \E i \in 1 .. Len(ram) : RemoveClippingAt(i)
  <2>1. pc = "reading" /\ loaded /\ pc' = "room" /\ undo' = ram /\ ~Swap
    BY <1>4 DEF AddClipping, RemoveClippingAt, Call, Swap
  <2>2. Matching(undo)'
    BY <1>m, <1>t, <2>1, MatchingStays DEF Matches, Writing
  <2> QED
    BY <2>1, <2>2 DEF Matches, Writing
<1>5. CASE MakeRoom \/ WriteTmp \/ WriteFails \/ Park \/ SwapFails
  <2>1. /\ pc \in {"room", "write", "park", "swap"}
        /\ pc' \in {"room", "write", "park", "swap"} \/ (pc' = "return" /\ ~ok')
        /\ UNCHANGED <<undo, job>>
    BY <1>5 DEF MakeRoom, WriteTmp, WriteFails, Park, SwapFails, Return, call
  <2>2. Stored' = Stored
    BY <1>s, <1>5, StoredStays
  <2>3. job \in {"add", "remove", "apply"} => Matching(undo)'
    BY <1>m, <2>1, <2>2, MatchingStays DEF Matches
  <2> QED
    BY <2>1, <2>3 DEF Matches, Writing
<1>6. CASE Swap
  <2>1. Matching(ram)'
    BY <1>6, StoredSteps
  <2>2. pc' = "tidy"
    BY <1>6 DEF Swap
  <2> QED
    BY <2>1, <2>2 DEF Matches, Writing
<1>7. CASE Tidy
  <2>1. pc = "tidy" /\ pc' = "return" /\ ok' = TRUE /\ ~Swap
    BY <1>7 DEF Tidy, Return, Swap
  <2>2. Matching(ram)
    BY <1>m, <2>1 DEF Matches
  <2>3. Matching(ram)'
    BY <1>s, <1>t, <1>7, <2>1, <2>2, TidiedRam, MatchingMarked
  <2> QED
    BY <2>1, <2>3 DEF Matches, Writing
<1>8. CASE Added \/ Removed \/ Applied
  <2>1. /\ pc = "return" /\ job \in {"add", "remove", "apply"} /\ ~Writing' /\ undo' = <<>>
        /\ ram' = IF ok THEN ram ELSE undo
        /\ pc' # "unload" => pc' \in {"reading", "scan", "synced"}
        /\ ~Swap
    BY <1>8 DEF Added, Removed, Applied, Resume, Writing, Swap
  <2>2. IF ok THEN Matching(ram) ELSE Matching(undo)
    BY <1>m, <2>1 DEF Matches
  <2>3. Matching(ram)'
    <3>1. CASE ok
      BY <1>t, <2>1, <2>2, <3>1, MatchingStays
    <3>2. CASE ~ok
      BY <1>t, <2>1, <2>2, <3>2, MatchingStays
    <3> QED
      BY <3>1, <3>2
  <2> QED
    BY <2>1, <2>3 DEF Matches, Writing
<1>9. CASE Prepared \/ UploadsFinished
  <2>1. pc = "return" /\ ~Writing' /\ undo' = <<>> /\ ram' = ram /\ (~ok => pc' = "unload") /\ ~Swap
    BY <1>9 DEF Prepared, UploadsFinished, Resume, Writing, Swap
  <2>2. ok => Matching(ram)'
    BY <1>m, <1>t, <2>1, MatchingStays DEF Matches
  <2> QED
    BY <2>1, <2>2 DEF Matches, Writing
<1>10. CASE PrepareSync
  <2>1. pc = "prepare" /\ loaded /\ ~Swap
    BY <1>s, <1>10 DEF PrepareSync, Swap, InHand
  <2>2. Matching(ram) /\ undo = <<>>
    BY <1>m, <2>1 DEF Matches, Writing
  <2>3. CASE dirty'
    <3>1. pc' = "room" /\ job' = "prepare"
      BY <1>10, <2>3 DEF PrepareSync, Call
    <3> QED
      BY <3>1 DEF Matches, Writing
  <2>4. CASE ~ dirty'
    <3>1. pc' = "delete" /\ undo' = undo
      BY <1>10, <2>4 DEF PrepareSync, call
    <3>2. \A i \in DOMAIN ram : ram[i].id # NoId
      BY <1>10, <2>4 DEF PrepareSync, IdsIn
    <3>3. Matching(ram)'
      BY <1>s, <1>t, <1>10, <2>1, <2>2, <3>2, DrawnRam, MatchingMarked
    <3> QED
      BY <2>2, <3>1, <3>3 DEF Matches, Writing
  <2> QED
    BY <2>3, <2>4
<1>11. CASE FinishUploads
  <2>1. pc = "finish" /\ loaded /\ ~Swap
    BY <1>s, <1>11 DEF FinishUploads, Swap, InHand
  <2>2. Matching(ram) /\ undo = <<>>
    BY <1>m, <2>1 DEF Matches, Writing
  <2>3. CASE dirty'
    <3>1. pc' = "room" /\ job' = "uploads"
      BY <1>11, <2>3 DEF FinishUploads, Call
    <3> QED
      BY <3>1 DEF Matches, Writing
  <2>4. CASE ~ dirty'
    <3>1. pc' = "scan" /\ undo' = undo
      BY <1>11, <2>4 DEF FinishUploads, call
    <3>2. \A i \in DOMAIN ram : ~ ram[i].pending
      BY <1>11, <2>4 DEF FinishUploads
    <3>3. /\ DOMAIN ram' = DOMAIN ram
          /\ \A i \in DOMAIN ram : /\ ram'[i].text = ram[i].text /\ ram'[i].id = ram[i].id
                                   /\ ~ ram'[i].pending /\ ram'[i].rev = ram[i].rev
                                   /\ ram'[i].pending \in BOOLEAN
      <4>1. /\ ram' \in Seq(InMemory) /\ DOMAIN ram' = DOMAIN ram
            /\ \A i \in DOMAIN ram : /\ ram'[i].text = ram[i].text /\ ram'[i].id = ram[i].id
                                     /\ ~ ram'[i].pending /\ ram'[i].rev = ram[i].rev
        BY <1>s, <1>11, SentRam
      <4>2. \A i \in DOMAIN ram' : ram'[i] \in InMemory
        BY <4>1, LenProperties, ElementOfSeq
      <4> QED
        BY <4>1, <4>2 DEF InMemory
    <3>4. \A i \in DOMAIN ram : ram[i].pending \in BOOLEAN
      BY <1>s, RamElement DEF InMemory
    <3>5. \A i \in DOMAIN ram : ram'[i].pending = ram[i].pending
      BY <3>2, <3>3, <3>4, Zenon
    <3>6. Matching(ram)'
      BY <1>t, <2>1, <2>2, <3>3, <3>5, MatchingMarked
    <3> QED
      BY <2>2, <3>1, <3>6 DEF Matches, Writing
  <2> QED
    BY <2>3, <2>4
<1>12. CASE ApplyRemote
  <2>1. pc = "scan" /\ loaded /\ ~Swap /\ loaded' = loaded
    BY <1>s, <1>12 DEF ApplyRemote, Swap, InHand
  <2>2. Matching(ram) /\ undo = <<>>
    BY <1>m, <2>1 DEF Matches, Writing
  <2>3. \/ pc' \in {"unload", "scan", "synced"} /\ UNCHANGED <<ram, undo>>
        \/ pc' = "room" /\ undo' = ram
    BY <1>s, <1>12, AppliedItem
  <2>4. CASE pc' = "room" /\ undo' = ram
    BY <1>t, <2>1, <2>2, <2>4, MatchingStays DEF Matches, Writing
  <2>5. CASE pc' \in {"unload", "scan", "synced"} /\ UNCHANGED <<ram, undo>>
    <3>1. Matching(ram)'
      BY <1>t, <2>1, <2>2, <2>5, MatchingStays
    <3> QED
      BY <2>2, <2>5, <3>1 DEF Matches, Writing
  <2> QED
    BY <2>3, <2>4, <2>5
<1>13. CASE Elsewhere \/ UNCHANGED vars
  <2>1. UNCHANGED <<ram, undo, loaded, pc, ok, job, main, bak>>
    BY <1>13 DEF Elsewhere, vars, mem, call, card
  <2>2. Stored' = Stored
    BY <2>1 DEF Stored
  <2> QED
    BY <1>m, <2>1, <2>2, MatchingStays DEF Matches, Writing
<1> QED
  BY <1>1, <1>2, <1>3, <1>4, <1>5, <1>6, <1>7, <1>8, <1>9, <1>10, <1>11, <1>12, <1>13
     DEF Next, OpenBook, StartSync, WriteToFile, Resumed, Run

LEMMA RemovingStep ==
  ASSUME Inv, Identity, [Next]_vars
  PROVE  Removing'
<1>s. StateOK
  BY DEF Inv, Base, TypeOK
<1>r. Removing
  BY DEF Identity
<1>1. CASE \E i \in 1 .. Len(ram) : RemoveClippingAt(i)
  <2>1. PICK i \in 1 .. Len(ram) : RemoveClippingAt(i)
    BY <1>1
  <2>2. undo' = ram /\ ram' = RemoveAt(ram, i)
    BY <2>1 DEF RemoveClippingAt, Call
  <2>3. /\ i \in DOMAIN ram
        /\ \A k \in DOMAIN ram \ {i} : \E j \in DOMAIN ram' : ram'[j] = ram[k]
    BY <1>s, <2>2, RemovedRam
  <2>4. ram[i].id \in Deleted' \cup {NoId}
    BY <1>s, <2>1, <2>3, PublishedOnRemoval
  <2>5. ASSUME NEW k \in DOMAIN ram
        PROVE  \/ ram[k].id \in Deleted' \cup {NoId}
               \/ \E j \in DOMAIN ram' : ram'[j].text = ram[k].text
    BY <2>3, <2>4
  <2> QED
    BY <2>2, <2>5 DEF Removing
<1>2. CASE MakeRoom \/ WriteTmp \/ WriteFails \/ Park \/ Swap \/ SwapFails \/ Elsewhere \/ UNCHANGED vars
  <2>1. UNCHANGED <<ram, undo, job, journal>> /\ (Writing' => Writing)
    BY <1>2 DEF MakeRoom, WriteTmp, WriteFails, Park, Swap, SwapFails, Elsewhere, vars, Return,
       mem, call, dels, Writing
  <2> QED
    BY <1>r, <2>1 DEF Removing, Deleted
<1>3. CASE Tidy
  <2>1. UNCHANGED <<undo, job, journal>> /\ Writing
    BY <1>3 DEF Tidy, call, dels, Writing
  <2>2. DOMAIN ram' = DOMAIN ram /\ \A i \in DOMAIN ram : ram'[i].text = ram[i].text
    BY <1>s, <1>3, TidiedRam
  <2> QED
    BY <1>r, <2>1, <2>2 DEF Removing, Deleted
<1>4. CASE \/ \E next \in {"reading", "probe"} : LoadForBook(next)
           \/ \E next \in {"reading", "closed"} : LoadFails(next)
           \/ \E t \in Mine : AddClipping(t)
           \/ CloseBook \/ JournalFails \/ Unload \/ PowerCut \/ Resumed
  <2>1. ~Writing' \/ job' # "remove"
    BY <1>4 DEF LoadForBook, LoadFails, AddClipping, CloseBook, JournalFails, Unload, PowerCut,
       Resumed, Added, Removed, Unloaded, Prepared, UploadsFinished, Applied, Resume, Forget,
       Call, Writing
  <2> QED
    BY <2>1 DEF Removing
<1>5. CASE Run
  <2>1. CASE ApplyRemote
    <3>1. pc' \in {"unload", "scan", "synced"} \/ job' = "apply"
      BY <1>s, <2>1, AppliedItem
    <3> QED
      BY <3>1 DEF Removing, Writing
  <2>2. CASE Run /\ ~ApplyRemote
    <3>1. ~Writing' \/ job' # "remove"
      BY <2>2 DEF Run, Probe, PrepareSync, SendDeletion, JournalUnreadable, FinishDeletions,
         Upload, UploadsDone, FinishUploads, ScanFails, NothingUnseen, Synced, GiveUp, Call,
         Writing
    <3> QED
      BY <3>1 DEF Removing
  <2> QED
    BY <1>5, <2>1, <2>2
<1> QED
  BY <1>1, <1>2, <1>3, <1>4, <1>5 DEF Next, OpenBook, StartSync, WriteToFile

-----------------------------------------------------------------------------
(* What is gone is deleted at the server *)

LEMMA EmptyJournal ==
  ASSUME Inv, [Next]_vars, AfterDeletions => journal = <<>>, AfterDeletions'
  PROVE  journal' = <<>>
<1>s. StateOK
  BY DEF Inv, Base, TypeOK
<1>1. CASE FinishDeletions
  BY <1>1 DEF FinishDeletions, GiveUp, AfterDeletions, Writing
<1>2. CASE UploadsDone \/ Upload \/ FinishUploads \/ NothingUnseen \/ ApplyRemote
  <2>1. AfterDeletions /\ journal' = journal
    BY <1>2 DEF UploadsDone, Upload, FinishUploads, NothingUnseen, ApplyRemote, dels,
       AfterDeletions
  <2> QED
    BY <2>1
<1>3. CASE WriteToFile \/ UploadsFinished \/ Applied \/ Elsewhere \/ UNCHANGED vars
  <2>1. AfterDeletions /\ journal' = journal
    BY <1>3 DEF WriteToFile, MakeRoom, WriteTmp, WriteFails, Park, Swap, SwapFails, Tidy,
       UploadsFinished, Applied, Resume, Elsewhere, vars, Return, call, dels, AfterDeletions,
       Writing
  <2> QED
    BY <2>1
<1>4. CASE \/ \E next \in {"reading", "probe"} : LoadForBook(next)
           \/ \E next \in {"reading", "closed"} : LoadFails(next)
           \/ \E t \in Mine : AddClipping(t)
           \/ \E i \in 1 .. Len(ram) : RemoveClippingAt(i)
           \/ CloseBook \/ JournalFails \/ Unload \/ PowerCut
           \/ Added \/ Removed \/ Unloaded \/ Prepared
  <2>1. ~AfterDeletions'
    BY <1>4 DEF LoadForBook, LoadFails, AddClipping, RemoveClippingAt, CloseBook, JournalFails,
       Unload, PowerCut, Added, Removed, Unloaded, Prepared, Resume, Forget, Call,
       AfterDeletions, Writing
  <2> QED
    BY <2>1
<1>5. CASE Probe \/ PrepareSync \/ SendDeletion \/ JournalUnreadable \/ ScanFails \/ Synced
  <2>1. ~AfterDeletions'
    BY <1>5 DEF Probe, PrepareSync, SendDeletion, JournalUnreadable, ScanFails, Synced, GiveUp,
       Call, AfterDeletions, Writing
  <2> QED
    BY <2>1
<1> QED
  BY <1>1, <1>2, <1>3, <1>4, <1>5 DEF Next, OpenBook, StartSync, Resumed, Run

\* The walk over the journal starts at its beginning.
LEMMA DeleteBegins ==
  ASSUME Inv, Walked, [Next]_vars, pc' = "delete", ~SendDeletion
  PROVE  walk' = walk /\ (pc = "delete" \/ walk = 0)
<1>s. StateOK
  BY DEF Inv, Base, TypeOK
<1>1. CASE PrepareSync \/ Prepared \/ Elsewhere \/ UNCHANGED vars
  <2>1. walk' = walk /\ (pc = "delete" \/ pc = "prepare" \/ (pc = "return" /\ job = "prepare"))
    BY <1>1 DEF PrepareSync, Prepared, Resume, Elsewhere, vars, sync
  <2> QED
    BY <2>1 DEF Walked, Starting, Writing
<1>2. CASE ApplyRemote
  BY <1>s, <1>2, AppliedItem
<1>3. CASE ~ (PrepareSync \/ Prepared \/ Elsewhere \/ UNCHANGED vars \/ ApplyRemote)
  BY <1>3 DEF Next, OpenBook, StartSync, LoadForBook, LoadFails, CloseBook, Unload,
     AddClipping, RemoveClippingAt, JournalFails, WriteToFile, MakeRoom, WriteTmp, WriteFails,
     Park, Swap, SwapFails, Tidy, Return, Resumed, Added, Removed, Unloaded, UploadsFinished,
     Applied, Resume, Forget, Call, Run, Probe, JournalUnreadable, FinishDeletions, Upload,
     UploadsDone, FinishUploads, ScanFails, NothingUnseen, Synced, PowerCut, GiveUp
<1> QED
  BY <1>1, <1>2, <1>3

\* No item of the server whose text is gone has a record in memory.
LEMMA GoneIsNotHere ==
  ASSUME Inv, Clear, NEW id, id.of \in gone, id # NoId
  PROVE  id \notin IdsIn(ram)
<1> SUFFICES ASSUME NEW i \in DOMAIN ram, ram[i].id = id PROVE FALSE
  BY DEF IdsIn
<1>1. ram[i].text = id.of
  BY DEF Inv, Owning, OwnIds
<1>2. ram[i].text \notin gone
  BY ClearNow DEF AllProper, Proper
<1> QED
  BY <1>1, <1>2

LEMMA GravesStep ==
  ASSUME Inv, Identity, [Next]_vars
  PROVE  Graves'
<1>s. StateOK /\ InHand /\ Owning
  BY DEF Inv, Base, TypeOK
<1>i. Clear /\ OneId /\ OneItem /\ Matches /\ Removing /\ Graves /\ Walked
  BY DEF Identity, Buried
<1>n. DOMAIN journal \subseteq Nat \ {0}
  BY <1>s, LenProperties DEF StateOK
<1>d. \A it \in server : it.id # NoId
  BY <1>s, FilesDiffer DEF StateOK, Item
<1>w. walk \in Nat
  BY <1>s DEF StateOK
<1>1. CASE Removed
  <2>1. /\ UNCHANGED <<server, journal>> /\ pc' = "reading"
        /\ gone' \subseteq gone \cup Dropped(undo, ram)
        /\ Writing /\ job = "remove"
    BY <1>1 DEF Removed, Resume, dels, net, Writing
  <2>2. ASSUME NEW it \in server, it.id.of \in Dropped(undo, ram)
        PROVE  \E j \in DOMAIN journal : journal[j] = it.id
    <3>1. PICK k \in DOMAIN undo : /\ undo[k].text = it.id.of
                                   /\ ~ \E i \in DOMAIN ram : ram[i].text = undo[k].text
      BY <2>2 DEF Dropped
    <3>2. it.id \in Published
      BY DEF Published, ServerIds
    <3>3. undo[k].id = it.id
      BY <1>i, <3>1, <3>2, ClearNow DEF AllProper, Proper
    <3>4. it.id \in Deleted
      BY <1>i, <1>d, <2>1, <3>1, <3>3 DEF Removing
    <3> QED
      BY <3>4 DEF Deleted
  <2> QED
    BY <1>i, <2>1, <2>2 DEF Graves
<1>2. CASE SendDeletion
  <2> DEFINE m == Least(ToDelete)
  <2>1. UNCHANGED <<journal, gone>> /\ pc = "delete"
    BY <1>2 DEF SendDeletion, told
  <2>2. /\ m \in ToDelete /\ m \in Nat /\ \A k \in ToDelete : m <= k
        /\ \/ UNCHANGED net /\ (pc' = "unload" \/ \E it \in server : it.id = journal[m] /\ ~it.live)
           \/ \E new : Gets(new) /\ new.id = journal[m] /\ ~new.live
        /\ (walk' = m /\ pc' = pc) \/ (walk' = walk /\ pc' = "unload")
    BY <1>s, <1>2, SendDeletionGets
  <2> HIDE DEF m
  <2>3. SUFFICES ASSUME NEW it \in server', it.live, it.id.of \in gone
                 PROVE  \E j \in DOMAIN journal : journal[j] = it.id /\ (pc' # "delete" \/ j > walk')
    BY <2>1 DEF Graves
  <2>4. it \in server /\ (pc' # "unload" => it.id # journal[m])
    <3>1. CASE UNCHANGED net /\ (pc' = "unload" \/ \E x \in server : x.id = journal[m] /\ ~x.live)
      BY <1>i, <2>3, <3>1 DEF net, OneItem
    <3>2. ASSUME NEW new, Gets(new), new.id = journal[m], ~new.live
          PROVE  it \in server /\ it.id # journal[m]
      BY <2>3, <3>2, Gained
    <3> QED
      BY <2>2, <3>1, <3>2
  <2>5. PICK j \in DOMAIN journal : journal[j] = it.id /\ j > walk
    BY <1>i, <2>1, <2>3, <2>4 DEF Graves
  <2>6. it.id \notin IdsIn(ram)
    BY <1>i, <1>d, <2>3, <2>4, GoneIsNotHere
  <2>7. j \in ToDelete
    BY <2>5, <2>6 DEF ToDelete
  <2>8. pc' = "delete" => j > walk'
    <3>1. ASSUME pc' = "delete" PROVE j > walk'
      <4>1. walk' = m /\ m <= j /\ j # m /\ j \in Nat
        BY <1>n, <2>2, <2>4, <2>5, <2>7, <3>1
      <4> QED
        BY <2>2, <4>1
    <3> QED
      BY <3>1
  <2> QED
    BY <2>5, <2>8
<1>3. CASE FinishDeletions
  <2>1. pc = "delete" /\ ToDelete = {} /\ UNCHANGED <<server, gone>>
    BY <1>3 DEF FinishDeletions, net, told
  <2>2. ASSUME NEW it \in server, it.live, it.id.of \in gone PROVE FALSE
    <3>1. PICK j \in DOMAIN journal : journal[j] = it.id /\ j > walk
      BY <1>i, <2>1, <2>2 DEF Graves
    <3>2. it.id \notin IdsIn(ram)
      BY <1>i, <1>d, <2>2, GoneIsNotHere
    <3>3. j \in ToDelete
      BY <3>1, <3>2 DEF ToDelete
    <3> QED
      BY <2>1, <3>3
  <2> QED
    BY <2>1, <2>2 DEF Graves
<1>4. CASE Upload
  <2> DEFINE i == Least(ToUpload)
  <2>1. pc = "upload" /\ UNCHANGED <<journal, gone>> /\ pc' # "delete"
    BY <1>4 DEF Upload, GiveUp, dels, told
  <2>2. HaveIds(ram)
    BY <1>s, <2>1 DEF InHand
  <2>3. /\ i \in DOMAIN ram
        /\ UNCHANGED net \/ \E new : Gets(new) /\ new.id = ram[i].id
    BY <1>s, <1>4, <2>2, UploadGets
  <2> HIDE DEF i
  <2>4. CASE UNCHANGED net
    BY <1>i, <2>1, <2>4 DEF net, Graves
  <2>5. ASSUME NEW new, Gets(new), new.id = ram[i].id PROVE Graves'
    <3>1. \A x \in server' : x = new \/ x \in server
      BY <2>5, Gained
    <3>2. new.id.of \notin gone
      BY <1>i, <2>2, <2>3, <2>5, GoneIsNotHere DEF IdsIn, HaveIds
    <3> QED
      BY <1>i, <2>1, <3>1, <3>2 DEF Graves
  <2> QED
    BY <2>3, <2>4, <2>5
<1>5. CASE Elsewhere
  <2>1. UNCHANGED <<journal, gone, pc, walk>>
    BY <1>5 DEF Elsewhere, dels, told, sync
  <2>2. PICK new : /\ Gets(new)
                   /\ \/ \E old \in server : old.live /\ old.id = new.id
                      \/ /\ new.id.of \in Others
                         /\ \A it \in server : it.id.of # new.id.of
    BY <1>s, <1>i, <1>5, ElsewhereGets
  <2>3. \A x \in server' : x = new \/ x \in server
    BY <2>2, Gained
  <2>4. CASE \E old \in server : old.live /\ old.id = new.id
    BY <1>i, <2>1, <2>3, <2>4 DEF Graves
  <2>5. CASE new.id.of \in Others /\ \A it \in server : it.id.of # new.id.of
    <3>1. new.id.of \notin gone
      BY <1>i, <2>5 DEF OneId, ServerIds
    <3> QED
      BY <1>i, <2>1, <2>3, <3>1 DEF Graves
  <2> QED
    BY <2>2, <2>4, <2>5
<1>6. CASE \E i \in 1 .. Len(ram) : RemoveClippingAt(i)
  <2>1. PICK i \in 1 .. Len(ram) : RemoveClippingAt(i)
    BY <1>6
  <2>2. i \in DOMAIN ram /\ UNCHANGED <<server, gone>> /\ pc' # "delete"
    BY <2>1 DEF RemoveClippingAt, Call, net
  <2>3. \A j \in DOMAIN journal : j \in DOMAIN journal' /\ journal'[j] = journal[j]
    BY <1>s, <2>1, <2>2, JournalGrows
  <2> QED
    BY <1>i, <2>2, <2>3 DEF Graves
<1>7. CASE ~ (\/ Removed \/ SendDeletion \/ FinishDeletions \/ Upload \/ Elsewhere
              \/ \E i \in 1 .. Len(ram) : RemoveClippingAt(i))
  <2>1. UNCHANGED <<server, journal, gone>>
    <3>1. CASE \/ \E next \in {"reading", "probe"} : LoadForBook(next)
               \/ \E t \in Mine : AddClipping(t)
               \/ Swap \/ Tidy \/ PrepareSync \/ FinishUploads \/ ApplyRemote
      BY <3>1 DEF LoadForBook, AddClipping, Swap, Tidy, PrepareSync, FinishUploads,
         ApplyRemote, dels, net, told
    <3>2. CASE ~ (\/ \E next \in {"reading", "probe"} : LoadForBook(next)
                  \/ \E t \in Mine : AddClipping(t)
                  \/ Swap \/ Tidy \/ PrepareSync \/ FinishUploads \/ ApplyRemote)
      BY <1>7, <3>2, OtherSteps
    <3> QED
      BY <3>1, <3>2
  <2>2. pc' = "delete" => walk' = walk /\ (pc = "delete" \/ walk = 0)
    BY <1>i, <1>7, DeleteBegins
  <2>3. \A j \in DOMAIN journal : (pc # "delete" \/ j > walk) => (pc' # "delete" \/ j > walk')
    BY <1>n, <1>w, <2>2
  <2> QED
    BY <1>i, <2>1, <2>3 DEF Graves
<1> QED
  BY <1>1, <1>2, <1>3, <1>4, <1>5, <1>6, <1>7

-----------------------------------------------------------------------------
(* The walks of a sync, and its cursor *)

LEMMA StartsAtZero ==
  ASSUME Inv, Walked, [Next]_vars, Starting'
  PROVE  walk' = 0
<1>s. StateOK
  BY DEF Inv, Base, TypeOK
<1>1. CASE \/ \E next \in {"reading", "probe"} : LoadForBook(next)
           \/ \E next \in {"reading", "closed"} : LoadFails(next)
           \/ \E t \in Mine : AddClipping(t)
           \/ \E i \in 1 .. Len(ram) : RemoveClippingAt(i)
           \/ CloseBook \/ JournalFails \/ Added \/ Removed \/ Prepared
           \/ Probe \/ PrepareSync \/ FinishUploads
  <2>1. Starting /\ walk' = walk
    BY <1>1 DEF LoadForBook, LoadFails, AddClipping, RemoveClippingAt, CloseBook,
       JournalFails, Added, Removed, Prepared, Resume, Probe, PrepareSync, FinishUploads, sync,
       Starting, Sending, Writing
  <2> QED
    BY <2>1 DEF Walked
<1>2. CASE WriteToFile \/ Elsewhere \/ UNCHANGED vars
  <2>1. Starting /\ walk' = walk
    BY <1>2 DEF WriteToFile, MakeRoom, WriteTmp, WriteFails, Park, Swap, SwapFails, Tidy,
       Elsewhere, vars, Return, call, sync, Starting, Sending, Writing
  <2> QED
    BY <2>1 DEF Walked
<1>3. CASE Unload \/ Unloaded \/ PowerCut \/ UploadsDone
  BY <1>3 DEF Unload, Unloaded, PowerCut, UploadsDone, Forget, Call, Starting, Sending, Writing
<1>4. CASE ApplyRemote
  BY <1>s, <1>4, AppliedItem DEF Starting, Sending, Writing
<1>5. CASE \/ UploadsFinished \/ Applied \/ SendDeletion \/ JournalUnreadable \/ FinishDeletions
           \/ Upload \/ ScanFails \/ NothingUnseen \/ Synced
  BY <1>5 DEF UploadsFinished, Applied, Resume, SendDeletion, JournalUnreadable,
     FinishDeletions, Upload, ScanFails, NothingUnseen, Synced, GiveUp, Starting, Sending,
     Writing
<1> QED
  BY <1>1, <1>2, <1>3, <1>4, <1>5 DEF Next, OpenBook, StartSync, Resumed, Run

\* How the scan is entered and how it goes on.
LEMMA ScanSteps ==
  ASSUME Inv, [Next]_vars, Scanning'
  PROVE  \/ ApplyRemote
         \/ /\ Sending /\ UNCHANGED <<walk, server, rev>> /\ DOMAIN ram' = DOMAIN ram
            /\ \A i \in DOMAIN ram : ram'[i].id = ram[i].id
         \/ /\ Scanning /\ walk' = walk /\ DOMAIN ram' = DOMAIN ram
            /\ \A i \in DOMAIN ram : Same(ram'[i], ram[i])
            /\ UNCHANGED <<server, rev>> \/ Elsewhere
<1>s. StateOK
  BY DEF Inv, Base, TypeOK
<1>1. CASE FinishUploads
  <2>1. pc = "finish" /\ UNCHANGED <<walk, server, rev>>
    BY <1>1 DEF FinishUploads, sync, net
  <2> QED
    BY <1>s, <1>1, <2>1, SentRam DEF Sending
<1>2. CASE UploadsFinished
  <2>1. Writing /\ job = "uploads" /\ UNCHANGED <<ram, walk, server, rev>>
    BY <1>2 DEF UploadsFinished, Resume, Writing, sync, net
  <2> QED
    BY <2>1 DEF Sending
<1>3. CASE MakeRoom \/ WriteTmp \/ WriteFails \/ Park \/ Swap \/ SwapFails \/ Elsewhere
           \/ UNCHANGED vars
  <2>1. Scanning /\ UNCHANGED <<ram, walk>> /\ (UNCHANGED <<server, rev>> \/ Elsewhere)
    BY <1>3 DEF MakeRoom, WriteTmp, WriteFails, Park, Swap, SwapFails, Elsewhere, vars, Return,
       mem, call, sync, net, Scanning, Writing
  <2> QED
    BY <2>1 DEF Same
<1>4. CASE Tidy
  <2>1. Scanning /\ UNCHANGED <<walk, server, rev>>
    BY <1>4 DEF Tidy, Return, call, sync, net, Scanning, Writing
  <2> QED
    BY <1>s, <1>4, <2>1, TidiedRam DEF Same
<1>5. CASE Applied
  <2>1. Scanning /\ UNCHANGED <<ram, walk, server, rev>>
    BY <1>5 DEF Applied, Resume, sync, net, Scanning, Writing
  <2> QED
    BY <2>1 DEF Same
<1>6. CASE NothingUnseen
  <2>1. Scanning /\ UNCHANGED <<ram, walk, server, rev>>
    BY <1>6 DEF NothingUnseen, mem, sync, net, Scanning
  <2> QED
    BY <2>1 DEF Same
<1>7. CASE \/ \E next \in {"reading", "probe"} : LoadForBook(next)
           \/ \E next \in {"reading", "closed"} : LoadFails(next)
           \/ \E t \in Mine : AddClipping(t)
           \/ \E i \in 1 .. Len(ram) : RemoveClippingAt(i)
           \/ CloseBook \/ JournalFails \/ Unload \/ PowerCut
           \/ Added \/ Removed \/ Unloaded \/ Prepared
  BY <1>7 DEF LoadForBook, LoadFails, AddClipping, RemoveClippingAt, CloseBook, JournalFails,
     Unload, PowerCut, Added, Removed, Unloaded, Prepared, Resume, Forget, Call, Scanning,
     Writing
<1>8. CASE \/ Probe \/ PrepareSync \/ SendDeletion \/ JournalUnreadable \/ FinishDeletions
           \/ Upload \/ UploadsDone \/ ScanFails \/ Synced
  BY <1>8 DEF Probe, PrepareSync, SendDeletion, JournalUnreadable, FinishDeletions, Upload,
     UploadsDone, ScanFails, Synced, GiveUp, Call, Scanning, Writing
<1> QED
  BY <1>1, <1>2, <1>3, <1>4, <1>5, <1>6, <1>7, <1>8
     DEF Next, OpenBook, StartSync, WriteToFile, Resumed, Run

\* How the sending of uploads is finished.
LEMMA SendingSteps ==
  ASSUME Inv, [Next]_vars, Sending'
  PROVE  \/ UploadsDone
         \/ /\ Sending /\ DOMAIN ram' = DOMAIN ram
            /\ \A i \in DOMAIN ram : ram'[i].id = ram[i].id
<1>s. StateOK
  BY DEF Inv, Base, TypeOK
<1>1. CASE FinishUploads
  <2>1. pc = "finish"
    BY <1>1 DEF FinishUploads
  <2> QED
    BY <1>s, <1>1, <2>1, SentRam DEF Sending
<1>2. CASE MakeRoom \/ WriteTmp \/ WriteFails \/ Park \/ Swap \/ SwapFails \/ Elsewhere
           \/ UNCHANGED vars
  <2>1. Sending /\ UNCHANGED ram
    BY <1>2 DEF MakeRoom, WriteTmp, WriteFails, Park, Swap, SwapFails, Elsewhere, vars, Return,
       mem, call, Sending, Writing
  <2> QED
    BY <2>1
<1>3. CASE Tidy
  <2>1. Sending
    BY <1>3 DEF Tidy, Return, call, Sending, Writing
  <2> QED
    BY <1>s, <1>3, <2>1, TidiedRam
<1>4. CASE ApplyRemote
  BY <1>s, <1>4, AppliedItem DEF Sending, Writing
<1>5. CASE \/ \E next \in {"reading", "probe"} : LoadForBook(next)
           \/ \E next \in {"reading", "closed"} : LoadFails(next)
           \/ \E t \in Mine : AddClipping(t)
           \/ \E i \in 1 .. Len(ram) : RemoveClippingAt(i)
           \/ CloseBook \/ JournalFails \/ Unload \/ PowerCut \/ Resumed
  BY <1>5 DEF LoadForBook, LoadFails, AddClipping, RemoveClippingAt, CloseBook, JournalFails,
     Unload, PowerCut, Resumed, Added, Removed, Unloaded, Prepared, UploadsFinished, Applied,
     Resume, Forget, Call, Sending, Writing
<1>6. CASE \/ Probe \/ PrepareSync \/ SendDeletion \/ JournalUnreadable \/ FinishDeletions
           \/ Upload \/ ScanFails \/ NothingUnseen \/ Synced
  BY <1>6 DEF Probe, PrepareSync, SendDeletion, JournalUnreadable, FinishDeletions, Upload,
     ScanFails, NothingUnseen, Synced, GiveUp, Call, Sending, Writing
<1> QED
  BY <1>1, <1>2, <1>3, <1>4, <1>5, <1>6
     DEF Next, OpenBook, StartSync, WriteToFile, Resumed, Run, UploadsDone

\* The records an item is applied to: the others stay, and it is there if it is live.
LEMMA AppliedRecords ==
  ASSUME Inv, Identity, ApplyRemote, NEW it \in server, pc' # "unload",
         \/ UNCHANGED ram
         \/ it.live /\ ram' = Append(ram, FromServer(it))
         \/ ~it.live /\ \E i \in DOMAIN ram : ram[i].id = it.id /\ ram' = RemoveAt(ram, i)
         \/ it.live /\ \E i \in DOMAIN ram :
              ram[i].id = it.id /\ ram' = [ram EXCEPT ![i] = FromServer(it)]
  PROVE  /\ \A j \in DOMAIN ram' : \/ \E i \in DOMAIN ram : ram'[j] = ram[i]
                                   \/ it.live /\ ram'[j] = FromServer(it)
         /\ \A i \in DOMAIN ram : ram[i].id # it.id => \E j \in DOMAIN ram' : ram'[j] = ram[i]
         /\ ~ UNCHANGED ram /\ it.live => \E j \in DOMAIN ram' : ram'[j] = FromServer(it)
         /\ ~ UNCHANGED ram /\ ~it.live => \A j \in DOMAIN ram' : ram'[j].id # it.id
<1>s. StateOK /\ Owning
  BY DEF Inv, Base, TypeOK
<1>i. Clear
  BY DEF Identity
<1>1. CASE UNCHANGED ram
  BY <1>1
<1>2. CASE ~ UNCHANGED ram /\ it.live /\ ram' = Append(ram, FromServer(it))
  <2>1. FromServer(it) \in InMemory
    BY <1>s, FromServerIsInMemory
  <2>2. /\ DOMAIN ram' = DOMAIN ram \cup {Len(ram) + 1}
        /\ ram'[Len(ram) + 1] = FromServer(it)
        /\ \A i \in DOMAIN ram : ram'[i] = ram[i]
    BY <1>s, <1>2, <2>1, AddedRam
  <2> QED
    BY <1>2, <2>2
<1>3. ASSUME ~ UNCHANGED ram, ~it.live, NEW i \in DOMAIN ram, ram[i].id = it.id, ram' = RemoveAt(ram, i)
      PROVE  /\ \A j \in DOMAIN ram' : \E k \in DOMAIN ram : ram'[j] = ram[k]
             /\ \A k \in DOMAIN ram : ram[k].id # it.id => \E j \in DOMAIN ram' : ram'[j] = ram[k]
             /\ \A j \in DOMAIN ram' : ram'[j].id # it.id
  <2>1. i \in 1 .. Len(ram)
    BY <1>s, LenProperties DEF StateOK
  <2>2. /\ \A j \in DOMAIN ram' : \E k \in DOMAIN ram : k # i /\ ram'[j] = ram[k]
        /\ \A k \in DOMAIN ram \ {i} : \E j \in DOMAIN ram' : ram'[j] = ram[k]
    BY <1>s, <1>3, <2>1, RemovedRam
  <2>3. it.id # NoId
    BY <1>s, FilesDiffer DEF StateOK, Item
  <2>4. \A k \in DOMAIN ram : k # i => ram[k].id # it.id
    BY <1>s, <1>i, <1>3, <2>3, ClearNow DEF Owning, OwnIds, OneEach
  <2> QED
    BY <1>3, <2>2, <2>4
<1>4. ASSUME it.live, NEW i \in DOMAIN ram, ram[i].id = it.id,
             ram' = [ram EXCEPT ![i] = FromServer(it)]
      PROVE  /\ \A j \in DOMAIN ram' : \/ \E k \in DOMAIN ram : ram'[j] = ram[k]
                                       \/ ram'[j] = FromServer(it)
             /\ \A k \in DOMAIN ram : ram[k].id # it.id => \E j \in DOMAIN ram' : ram'[j] = ram[k]
             /\ \E j \in DOMAIN ram' : ram'[j] = FromServer(it)
  <2>1. DOMAIN ram' = DOMAIN ram /\ ram'[i] = FromServer(it)
        /\ \A j \in DOMAIN ram : j # i => ram'[j] = ram[j]
    BY <1>4
  <2> QED
    BY <1>4, <2>1
<1> QED
  BY <1>1, <1>2, <1>3, <1>4

\* AppliedItem and AppliedRecords together: the page's item, and what it does.
LEMMA AppliedPage ==
  ASSUME Inv, Identity, ApplyRemote, pc' # "unload"
  PROVE  \E it \in server :
           /\ walk < it.rev /\ walk' = it.rev
           /\ \A x \in server : x.rev <= walk \/ it.rev <= x.rev
           /\ \A j \in DOMAIN ram' : \/ \E i \in DOMAIN ram : ram'[j] = ram[i]
                                     \/ it.live /\ ram'[j] = FromServer(it)
           /\ \A i \in DOMAIN ram : ram[i].id # it.id => \E j \in DOMAIN ram' : ram'[j] = ram[i]
           /\ it.live => \E j \in DOMAIN ram' : Shows(ram'[j], it)
           /\ ~it.live => \A j \in DOMAIN ram' : ram'[j].id # it.id
<1>s. StateOK /\ Owning
  BY DEF Inv, Base, TypeOK
<1>1. PICK it \in server :
        /\ walk < it.rev /\ \A x \in server : x.rev <= walk \/ it.rev <= x.rev
        /\ walk' = it.rev
        /\ \/ /\ UNCHANGED <<ram, undo, job>>
              /\ IF \A i \in DOMAIN ram : ram[i].id # it.id THEN ~it.live
                 ELSE /\ it.live
                      /\ \A i \in DOMAIN ram :
                           ram[i].id = it.id => ram[i].rev = it.rev /\ ~ram[i].pending
           \/ it.live /\ ram' = Append(ram, FromServer(it))
           \/ ~it.live /\ \E i \in DOMAIN ram : ram[i].id = it.id /\ ram' = RemoveAt(ram, i)
           \/ it.live /\ \E i \in DOMAIN ram :
                ram[i].id = it.id /\ ram' = [ram EXCEPT ![i] = FromServer(it)]
  BY <1>s, AppliedItem
<1>2. /\ \A j \in DOMAIN ram' : \/ \E i \in DOMAIN ram : ram'[j] = ram[i]
                                \/ it.live /\ ram'[j] = FromServer(it)
      /\ \A i \in DOMAIN ram : ram[i].id # it.id => \E j \in DOMAIN ram' : ram'[j] = ram[i]
      /\ ~ UNCHANGED ram /\ it.live => \E j \in DOMAIN ram' : ram'[j] = FromServer(it)
      /\ ~ UNCHANGED ram /\ ~it.live => \A j \in DOMAIN ram' : ram'[j].id # it.id
  BY <1>1, AppliedRecords
<1>3. it.text = it.id.of /\ it.id # NoId
  BY <1>s, FilesDiffer DEF Owning, StateOK, Item
<1>4. Shows(FromServer(it), it)
  BY DEF Shows, FromServer
<1>5. CASE ~ UNCHANGED ram
  BY <1>1, <1>2, <1>4, <1>5
<1>6. CASE UNCHANGED ram
  <2>1. CASE \A i \in DOMAIN ram : ram[i].id # it.id
    <3>1. ~it.live
      <4>1. CASE ram' = Append(ram, FromServer(it))
        <5>1. FromServer(it) \in InMemory
          BY <1>s, FromServerIsInMemory
        <5>2. /\ DOMAIN ram' = DOMAIN ram \cup {Len(ram) + 1}
              /\ Len(ram) + 1 \notin DOMAIN ram
          BY <1>s, <4>1, <5>1, AddedRam
        <5> QED
          BY <1>6, <5>2
      <4> QED
        BY <1>1, <2>1, <4>1
    <3> QED
      BY <1>1, <1>2, <1>6, <2>1, <3>1
  <2>2. ASSUME NEW i \in DOMAIN ram, ram[i].id = it.id, it.live,
               ram[i].rev = it.rev, ~ram[i].pending
        PROVE  \E j \in DOMAIN ram' : Shows(ram'[j], it)
    <3>1. ram[i].text = it.text
      BY <1>s, <1>3, <2>2 DEF Owning, OwnIds
    <3>2. Shows(ram[i], it)
      BY <2>2, <3>1 DEF Shows
    <3> QED
      BY <1>6, <3>2
  <2>3. CASE ~ \A i \in DOMAIN ram : ram[i].id # it.id
    <3>1. PICK i \in DOMAIN ram : ram[i].id = it.id
      BY <2>3
    <3>2. CASE it.live /\ ram[i].rev = it.rev /\ ~ram[i].pending
      BY <1>1, <1>2, <2>2, <3>1, <3>2
    <3>3. CASE ~it.live /\ \E k \in DOMAIN ram : ram[k].id = it.id /\ ram' = RemoveAt(ram, k)
      <4>1. PICK k \in DOMAIN ram : ram[k].id = it.id /\ ram' = RemoveAt(ram, k)
        BY <3>3
      <4>2. /\ DOMAIN RemoveAt(ram, k) = 1 .. Len(ram) - 1
            /\ DOMAIN ram = 1 .. Len(ram) /\ Len(ram) \in Nat
        BY <1>s, RemovalElements DEF StateOK
      <4>3. DOMAIN ram' = 1 .. Len(ram) - 1
        BY <4>1, <4>2, Zenon
      <4> QED
        BY <1>6, <4>2, <4>3
    <3>4. CASE it.live /\ ram' = Append(ram, FromServer(it))
      <4>1. FromServer(it) \in InMemory
        BY <1>s, FromServerIsInMemory
      <4>2. /\ DOMAIN ram' = DOMAIN ram \cup {Len(ram) + 1}
            /\ Len(ram) + 1 \notin DOMAIN ram
        BY <1>s, <3>4, <4>1, AddedRam
      <4> QED
        BY <1>6, <4>2
    <3>5. CASE it.live /\ \E k \in DOMAIN ram :
                 ram[k].id = it.id /\ ram' = [ram EXCEPT ![k] = FromServer(it)]
      <4>1. PICK k \in DOMAIN ram : ram' = [ram EXCEPT ![k] = FromServer(it)]
        BY <3>5
      <4>2. k \in DOMAIN ram' /\ ram'[k] = FromServer(it)
        BY <4>1
      <4> QED
        BY <1>1, <1>2, <1>4, <3>5, <4>2
    <3> QED
      BY <1>1, <2>3, <3>1, <3>2, <3>3, <3>4, <3>5
  <2> QED
    BY <2>1, <2>3
<1> QED
  BY <1>5, <1>6

LEMMA WalkedStep ==
  ASSUME Inv, Identity, [Next]_vars
  PROVE  Walked'
<1>s. StateOK /\ InHand /\ Owning
  BY DEF Inv, Base, TypeOK
<1>i. Clear /\ OneItem /\ Walked
  BY DEF Identity
<1>n. walk \in Nat /\ rev \in Nat /\ server \subseteq Item /\ \A x \in server : x.rev \in Nat
  BY <1>s DEF StateOK, Item
<1>g. ServerIds \subseteq ServerIds'
  BY <1>s, <1>i, ServerSteps, ServerIdsGrow
<1>z. Starting' => walk' = 0
  BY <1>i, StartsAtZero
<1>1. ASSUME Scanning' PROVE walk' <= rev'
  <2>1. CASE ApplyRemote
    <3>1. pc' # "unload"
      BY <1>1 DEF Scanning, Writing
    <3>2. PICK it \in server : walk' = it.rev
      BY <2>1, <3>1, AppliedPage
    <3>3. rev' = rev
      BY <1>s, <2>1, AppliedItem
    <3> QED
      BY <1>i, <3>2, <3>3 DEF OneItem
  <2>2. CASE Sending /\ UNCHANGED <<walk, server, rev>>
    <3>1. walk = 0
      BY <1>i, <2>2 DEF Walked, Starting
    <3> QED
      BY <1>n, <2>2, <3>1
  <2>3. CASE Scanning /\ walk' = walk /\ (UNCHANGED <<server, rev>> \/ Elsewhere)
    <3>1. walk <= rev
      BY <1>i, <2>3 DEF Walked
    <3>2. rev' = rev \/ rev' = rev + 1
      BY <2>3 DEF Elsewhere
    <3> QED
      BY <1>n, <2>3, <3>1, <3>2
  <2> QED
    BY <1>1, <2>1, <2>2, <2>3, ScanSteps
<1>2. ASSUME pc' = "upload" PROVE \A i \in DOMAIN ram' : i <= walk' => ram'[i].id \in ServerIds'
  <2>1. CASE FinishDeletions
    <3>1. walk' = 0 /\ ram' = ram
      BY <1>2, <2>1 DEF FinishDeletions, GiveUp, mem
    <3>2. \A i \in DOMAIN ram : ~ (i <= 0)
      BY <1>s, LenProperties DEF StateOK
    <3> QED
      BY <3>1, <3>2
  <2>2. CASE Upload
    <3> DEFINE m == Least(ToUpload)
    <3>1. HaveIds(ram) /\ pc = "upload" /\ ram' = ram
      BY <1>s, <2>2 DEF Upload, InHand, mem
    <3>2. /\ m \in DOMAIN ram /\ m \in Nat /\ \A k \in ToUpload : m <= k
          /\ \/ UNCHANGED net /\ (pc' = "unload" \/ ram[m].id \in ServerIds)
             \/ \E new : Gets(new) /\ new.id = ram[m].id
          /\ (walk' = m /\ pc' = pc) \/ (walk' = walk /\ pc' = "unload")
      BY <1>s, <2>2, <3>1, UploadGets
    <3> HIDE DEF m
    <3>3. walk' = m /\ ram[m].id \in ServerIds'
      BY <1>2, <1>g, <3>2, Gained
    <3>4. ASSUME NEW i \in DOMAIN ram, i <= m PROVE ram[i].id \in ServerIds'
      <4>1. i \in Nat
        BY <1>s, RamElement
      <4>2. CASE i \in ToUpload
        BY <3>2, <3>3, <3>4, <4>1, <4>2
      <4>3. CASE i <= walk
        BY <1>g, <1>i, <3>1, <4>3 DEF Walked
      <4>4. CASE ~ ram[i].pending
        <5>1. ram[i].id \in ServerIds
          BY <1>i, <4>4, ClearNow DEF AllProper, Proper
        <5> QED
          BY <1>g, <5>1
      <4> QED
        BY <1>n, <4>1, <4>2, <4>3, <4>4 DEF ToUpload
    <3> QED
      BY <3>1, <3>3, <3>4
  <2>3. CASE Elsewhere \/ UNCHANGED vars
    <3>1. UNCHANGED <<ram, walk, pc>>
      BY <2>3 DEF Elsewhere, vars, mem, sync
    <3> QED
      BY <1>2, <1>g, <1>i, <3>1 DEF Walked
  <2>4. CASE ApplyRemote
    BY <1>s, <1>2, <2>4, AppliedItem
  <2>5. CASE ~ (FinishDeletions \/ Upload \/ Elsewhere \/ UNCHANGED vars \/ ApplyRemote)
    BY <1>2, <2>5 DEF Next, OpenBook, StartSync, LoadForBook, LoadFails, CloseBook, Unload,
       AddClipping, RemoveClippingAt, JournalFails, WriteToFile, MakeRoom, WriteTmp, WriteFails,
       Park, Swap, SwapFails, Tidy, Return, Resumed, Added, Removed, Unloaded, Prepared,
       UploadsFinished, Applied, Resume, Forget, Call, Run, Probe, PrepareSync, SendDeletion,
       JournalUnreadable, UploadsDone, FinishUploads, ScanFails, NothingUnseen, Synced,
       PowerCut, GiveUp
  <2> QED
    BY <2>1, <2>2, <2>3, <2>4, <2>5
<1>3. ASSUME Sending' PROVE \A i \in DOMAIN ram' : ram'[i].id \in ServerIds'
  <2>1. CASE UploadsDone
    <3>1. pc = "upload" /\ ToUpload = {} /\ ram' = ram
      BY <2>1 DEF UploadsDone, mem
    <3>2. ASSUME NEW i \in DOMAIN ram PROVE ram[i].id \in ServerIds
      <4>1. i \in Nat
        BY <1>s, RamElement
      <4>2. i <= walk \/ ~ ram[i].pending
        BY <1>n, <3>1, <4>1 DEF ToUpload
      <4>3. CASE i <= walk
        BY <1>i, <3>1, <4>3 DEF Walked
      <4>4. CASE ~ ram[i].pending
        BY <1>i, <4>4, ClearNow DEF AllProper, Proper
      <4> QED
        BY <4>2, <4>3, <4>4
    <3> QED
      BY <1>g, <3>1, <3>2
  <2>2. CASE Sending /\ DOMAIN ram' = DOMAIN ram /\ \A i \in DOMAIN ram : ram'[i].id = ram[i].id
    BY <1>g, <1>i, <2>2 DEF Walked
  <2> QED
    BY <1>3, <2>1, <2>2, SendingSteps
<1>4. ASSUME Scanning' PROVE \A i \in DOMAIN ram' : ram'[i].id \in ServerIds'
  <2>1. CASE ApplyRemote
    <3>1. pc' # "unload" /\ pc = "scan"
      BY <1>4, <2>1 DEF Scanning, Writing, ApplyRemote
    <3>2. PICK it \in server :
            \A j \in DOMAIN ram' : \/ \E i \in DOMAIN ram : ram'[j] = ram[i]
                                   \/ it.live /\ ram'[j] = FromServer(it)
      BY <2>1, <3>1, AppliedPage
    <3>3. \A i \in DOMAIN ram : ram[i].id \in ServerIds
      BY <1>i, <3>1 DEF Walked, Scanning
    <3>4. FromServer(it).id \in ServerIds
      BY DEF FromServer, ServerIds
    <3> QED
      BY <1>g, <3>2, <3>3, <3>4
  <2>2. CASE /\ Sending \/ Scanning
             /\ DOMAIN ram' = DOMAIN ram /\ \A i \in DOMAIN ram : ram'[i].id = ram[i].id
    BY <1>g, <1>i, <2>2 DEF Walked
  <2> QED
    BY <1>4, <2>1, <2>2, ScanSteps DEF Same
<1> QED
  BY <1>z, <1>1, <1>2, <1>3, <1>4 DEF Walked

LEMMA CursorStep ==
  ASSUME Inv, Identity, [Next]_vars
  PROVE  Cursor'
<1>s. StateOK /\ Owning
  BY DEF Inv, Base, TypeOK
<1>i. OneItem /\ Walked /\ Cursor
  BY DEF Identity
<1>n. walk \in Nat /\ rev \in Nat /\ \A x \in server : x.rev \in Nat
  BY <1>s DEF StateOK, Item
<1> SUFFICES ASSUME Scanning', NEW x \in server', x.rev <= walk'
             PROVE  IF x.live THEN \E i \in DOMAIN ram' : Shows(ram'[i], x)
                    ELSE \A i \in DOMAIN ram' : ram'[i].id # x.id
  BY DEF Cursor
\* What is known of an item the cursor had passed before.
<1>1. ASSUME Scanning, x \in server, x.rev <= walk
      PROVE  IF x.live THEN \E i \in DOMAIN ram : Shows(ram[i], x)
             ELSE \A i \in DOMAIN ram : ram[i].id # x.id
  BY <1>i, <1>1 DEF Cursor
<1>2. CASE ApplyRemote
  <2>1. pc' # "unload" /\ pc = "scan" /\ server' = server
    BY <1>2 DEF Scanning, Writing, ApplyRemote, net
  <2>2. PICK it \in server :
          /\ walk < it.rev /\ walk' = it.rev
          /\ \A y \in server : y.rev <= walk \/ it.rev <= y.rev
          /\ \A j \in DOMAIN ram' : \/ \E i \in DOMAIN ram : ram'[j] = ram[i]
                                    \/ it.live /\ ram'[j] = FromServer(it)
          /\ \A i \in DOMAIN ram : ram[i].id # it.id => \E j \in DOMAIN ram' : ram'[j] = ram[i]
          /\ it.live => \E j \in DOMAIN ram' : Shows(ram'[j], it)
          /\ ~it.live => \A j \in DOMAIN ram' : ram'[j].id # it.id
    BY <1>2, <2>1, AppliedPage
  <2>3. CASE x = it
    BY <2>2, <2>3
  <2>4. CASE x # it
    <3>1. x \in server /\ x.id # it.id /\ x.rev # it.rev
      BY <1>i, <2>1, <2>4 DEF OneItem
    <3>2. x.rev <= walk
      BY <1>n, <2>2, <3>1
    <3>3. FromServer(it).id # x.id
      BY <3>1 DEF FromServer
    <3>4. Scanning
      BY <2>1 DEF Scanning
    <3>5. CASE x.live
      <4>1. PICK i \in DOMAIN ram : Shows(ram[i], x)
        BY <1>1, <3>1, <3>2, <3>4, <3>5
      <4>2. ram[i].id # it.id
        BY <3>1, <4>1 DEF Shows
      <4> QED
        BY <2>2, <3>5, <4>1, <4>2
    <3>6. CASE ~x.live
      <4>1. \A i \in DOMAIN ram : ram[i].id # x.id
        BY <1>1, <3>1, <3>2, <3>4, <3>6
      <4> QED
        BY <2>2, <3>3, <3>6, <4>1
    <3> QED
      BY <3>5, <3>6
  <2> QED
    BY <2>3, <2>4
\* A scan starts before the first item.
<1>3. CASE Sending /\ UNCHANGED <<walk, server, rev>>
  <2>1. walk' = 0
    BY <1>i, <1>3 DEF Walked, Starting
  <2>2. x.rev \in Nat /\ 0 < x.rev
    BY <1>i, <1>n, <1>3 DEF OneItem
  <2> QED
    BY <2>1, <2>2
<1>4. CASE /\ Scanning /\ walk' = walk /\ DOMAIN ram' = DOMAIN ram
           /\ \A i \in DOMAIN ram : Same(ram'[i], ram[i])
           /\ UNCHANGED <<server, rev>> \/ Elsewhere
  <2>1. x \in server
    <3>1. CASE UNCHANGED <<server, rev>>
      BY <3>1
    <3>2. CASE Elsewhere
      <4>1. PICK new : Gets(new)
        BY <1>s, <1>i, <3>2, ElsewhereGets
      <4>2. walk <= rev /\ new.rev = rev + 1
        BY <1>i, <1>4, <4>1 DEF Walked, Gets
      <4>3. x # new
        BY <1>n, <1>4, <4>2
      <4> QED
        BY <4>1, <4>3, Gained
    <3> QED
      BY <1>4, <3>1, <3>2
  <2>2. x.rev <= walk
    BY <1>4
  <2>3. IF x.live THEN \E i \in DOMAIN ram : Shows(ram[i], x)
        ELSE \A i \in DOMAIN ram : ram[i].id # x.id
    BY <1>1, <1>4, <2>1, <2>2
  <2> QED
    BY <1>4, <2>3 DEF Same, Shows
<1> QED
  BY <1>2, <1>3, <1>4, ScanSteps

-----------------------------------------------------------------------------
(* All of it together *)

LEMMA IdentityInit == Init => Identity
<1> SUFFICES ASSUME Init PROVE Identity
  OBVIOUS
<1>1. Stored = <<>> /\ ram = <<>> /\ undo = <<>> /\ journal = <<>> /\ server = {} /\ gone = {}
      /\ walk = 0 /\ rev = 0 /\ pc = "closed" /\ loaded = FALSE
  BY DEF Init, Stored
<1>2. DOMAIN ram = {} /\ DOMAIN journal = {}
  BY <1>1
<1>3. ServerIds = {} /\ Published = {}
  BY <1>1, <1>2 DEF ServerIds, Published, Deleted
<1>4. Clear
  BY <1>1, <1>2 DEF Clear, Clean, OneEach, AllProper
<1>5. OneId /\ OneItem
  BY <1>1, <1>3 DEF OneId, OneItem
<1>6. Matches /\ Removing
  BY <1>1 DEF Matches, Removing, Writing
<1>7. Buried
  BY <1>1 DEF Buried, Graves, AfterDeletions, Writing
<1>8. Walked /\ Cursor
  BY <1>1 DEF Walked, Cursor, Starting, Scanning, Sending, Writing
<1> QED
  BY <1>4, <1>5, <1>6, <1>7, <1>8 DEF Identity

LEMMA IdentityStep ==
  ASSUME Inv, Identity, [Next]_vars
  PROVE  Identity'
<1>1. StateOK /\ InHand /\ Owning
  BY DEF Inv, Base, TypeOK
<1>2. OneItem'
  BY <1>1, OneItemStep DEF Identity
<1>3. Buried'
  BY GravesStep, EmptyJournal DEF Identity, Buried
<1> QED
  BY <1>2, <1>3, ClearStep, OneIdStep, MatchesStep, RemovingStep, WalkedStep, CursorStep
     DEF Identity

LEMMA Identified == Spec => [](Inv /\ Identity)
<1>1. Init => Identity
  BY IdentityInit
<1>2. Inv /\ Identity /\ [Next]_vars => Identity'
  BY IdentityStep
<1> QED
  BY <1>1, <1>2, Invariant, PTL DEF Spec

LEMMA TwinsAreOne ==
  ASSUME Inv, Identity
  PROVE  NoTwins
<1>1. ASSUME NEW it \in server, NEW other \in server, it.id.of = other.id.of
      PROVE  it = other
  <2>1. it.id \in Published /\ other.id \in Published
    BY DEF Published, ServerIds
  <2>2. it.id = other.id
    BY <1>1, <2>1 DEF Identity, OneId
  <2> QED
    BY <2>2 DEF Identity, OneItem
<1>2. ASSUME NEW i \in DOMAIN Stored, NEW j \in DOMAIN Stored,
             Stored[i].id = Stored[j].id, Stored[i].id # NoId
      PROVE  i = j
  <2>1. Stored[i].text = Stored[i].id.of /\ Stored[j].text = Stored[j].id.of
    BY <1>2 DEF Inv, Owning, OwnIds
  <2> QED
    BY <1>2, <2>1 DEF Identity, Clear, Clean, OneEach
<1> QED
  BY <1>1, <1>2 DEF NoTwins

LEMMA StoreIsServer ==
  ASSUME Inv, Identity
  PROVE  SyncConverges
<1> SUFFICES ASSUME pc = "synced"
    PROVE  /\ \A it \in server : it.rev <= walk =>
                IF it.live
                THEN \E i \in DOMAIN Stored :
                       Stored[i] = [text |-> it.text, id |-> it.id,
                                    pending |-> FALSE, rev |-> it.rev]
                ELSE it.id \notin IdsIn(Stored)
           /\ \A i \in DOMAIN Stored : \E it \in server : it.id = Stored[i].id
  BY DEF SyncConverges
<1>1. StateOK /\ InHand
  BY DEF Inv, Base, TypeOK
<1>2. Scanning /\ ~Writing /\ loaded
  BY <1>1 DEF Scanning, Writing, InHand
<1>3. /\ DOMAIN Stored = DOMAIN ram
      /\ \A i \in DOMAIN ram : Same(Stored[i], ram[i])
  BY <1>2 DEF Identity, Matches, Matching
<1>4. \A i \in DOMAIN Stored : Stored[i] \in Record
  BY <1>1, StoredIsRecords, LenProperties, ElementOfSeq
<1>5. ASSUME NEW it \in server, it.rev <= walk, it.live
      PROVE  \E i \in DOMAIN Stored :
               Stored[i] = [text |-> it.text, id |-> it.id, pending |-> FALSE, rev |-> it.rev]
  <2>1. PICK i \in DOMAIN ram : Shows(ram[i], it)
    BY <1>2, <1>5 DEF Identity, Cursor
  <2>2. /\ Stored[i].text = it.text /\ Stored[i].id = it.id /\ Stored[i].rev = it.rev
        /\ Stored[i].pending = ram[i].pending /\ ~ram[i].pending
    BY <1>3, <2>1 DEF Same, Shows
  <2>3. Stored[i] \in Record /\ Stored[i].pending \in BOOLEAN
    BY <1>3, <1>4 DEF Record
  <2>4. Stored[i].pending = FALSE
    BY <2>2, <2>3, Zenon
  <2>5. Stored[i] = [text |-> it.text, id |-> it.id, pending |-> FALSE, rev |-> it.rev]
    BY <2>2, <2>3, <2>4 DEF Record
  <2> QED
    BY <1>3, <2>5
<1>6. ASSUME NEW it \in server, it.rev <= walk, ~it.live
      PROVE  it.id \notin IdsIn(Stored)
  BY <1>2, <1>3, <1>6 DEF Identity, Cursor, Same, IdsIn
<1>7. ASSUME NEW i \in DOMAIN Stored
      PROVE  \E it \in server : it.id = Stored[i].id
  BY <1>2, <1>3 DEF Identity, Walked, Same, ServerIds
<1> QED
  BY <1>5, <1>6, <1>7

-----------------------------------------------------------------------------
\* Every variable keeps its type, for any texts, capacity and bounds.
THEOREM TypeCorrect == Spec => []TypeOK
<1>1. Inv => TypeOK
  BY DEF Inv, Base
<1> QED
  BY <1>1, Invariant, PTL

\* A clipping the user was told is saved is in the store until it is removed, wherever
\* a save failed or power went.
THEOREM SavedStaysSaved == Spec => []NothingLost
<1>1. Inv => NothingLost
  BY DEF Inv, Keeping, Covers, NothingLost
<1> QED
  BY <1>1, Invariant, PTL

\* No record in memory points at another's text, and no id is uploaded with one.
THEOREM TextsAreOwn == Spec => []OwnText
<1>1. Inv => OwnText
  BY DEF Inv, Placing, Fits, Owning, OwnText
<1> QED
  BY <1>1, Invariant, PTL

\* Store, backup and new file implement one atomic file, whatever operation fails and
\* wherever power goes, and writeToFile() answers true exactly when it was written.
THEOREM WritingIsAtomic == Spec => StoreIsAtomic
<1>1. Spec => []Base
  <2>1. Inv => Base
    BY DEF Inv
  <2> QED
    BY <2>1, Invariant, PTL
<1>2. Init => Store!Init
  BY StoreInit
<1>3. Base /\ Base' /\ [Next]_vars => [Store!Next]_(Store!file)
  BY StoreStep
<1> QED
  BY <1>1, <1>2, <1>3, PTL DEF Spec, Store!Spec, StoreIsAtomic

\* No record is in the store, or comes back to it from the backup, a late save or the
\* server, once the user was told that its clipping is removed.
THEOREM RemovedStaysRemoved == Spec => []NoGhosts
<1>1. Identity => NoGhosts
  BY DEF Identity, Clear, Clean, AllProper, Proper, NoGhosts
<1> QED
  BY <1>1, Identified, PTL

\* A text has one id at the server, however often its upload is repeated or given up,
\* and no two records of the store have one id.
THEOREM OneClippingOneId == Spec => []NoTwins
<1>1. Inv /\ Identity => NoTwins
  BY TwinsAreOne
<1> QED
  BY <1>1, Identified, PTL

\* A sync that returns true leaves the store with what the server had at the cursor,
\* and with no record the server has not got.
THEOREM SyncedIsTheServer == Spec => []SyncConverges
<1>1. Inv /\ Identity => SyncConverges
  BY StoreIsServer
<1> QED
  BY <1>1, Identified, PTL
=============================================================================
