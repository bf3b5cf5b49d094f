------------------------------ MODULE AtomicFile ------------------------------
(* What a careful writer of one file promises: whatever fails on the way and *)
(* wherever power is lost, the file holds the old contents or the new ones,  *)
(* and the writer says "done" exactly when it holds the new ones.            *)

CONSTANTS Contents,      \* what a file may hold
          NoSave         \* no save is under way

VARIABLES content,       \* what a reader of the file would find
          saving,        \* the save under way: its contents, and whether they are there
          told           \* what the last save that came to its end answered

file == <<content, saving, told>>

Save == [new : Contents, done : BOOLEAN]

FileTypeOK ==
  /\ content \in Contents
  /\ saving \in Save \cup {NoSave}
  /\ told \in BOOLEAN

Init ==
  /\ content \in Contents
  /\ saving = NoSave
  /\ told \in BOOLEAN

Begin ==
  /\ saving = NoSave
  /\ saving' \in Save
  /\ ~saving'.done
  /\ UNCHANGED <<content, told>>

Commit ==
  /\ saving # NoSave
  /\ ~saving.done
  /\ content' = saving.new
  /\ saving' = [saving EXCEPT !.done = TRUE]
  /\ UNCHANGED told

End ==
  /\ saving # NoSave
  /\ told' = saving.done
  /\ saving' = NoSave
  /\ UNCHANGED content

\* Power is lost: nobody is told anything.
Cut ==
  /\ saving' = NoSave
  /\ UNCHANGED <<content, told>>

Next == Begin \/ Commit \/ End \/ Cut

Spec == Init /\ [][Next]_file
=============================================================================
