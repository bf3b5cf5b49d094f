------------------------------- MODULE JobBoard -------------------------------
(* What a caller of the job queue may count on, without slots, claims and    *)
(* leases: a job is open until it is settled, once, and only a settled job   *)
(* is ever taken off the board, unless the board itself is taken down.       *)
EXTENDS Naturals

CONSTANT Results         \* what may come of a job

VARIABLES last,          \* the number of the last job put up
          open,          \* the jobs nothing has come of yet
          settled        \* the others, with what came of them

board == <<last, open, settled>>

Settlement == [id : Nat, result : Results]

BoardTypeOK ==
  /\ last \in Nat
  /\ open \subseteq 1 .. last
  /\ settled \subseteq Settlement

Init == last = 0 /\ open = {} /\ settled = {}

\* A new job may take the place of one settled job.
PutUp ==
  /\ last' = last + 1
  /\ open' = open \cup {last + 1}
  /\ \/ UNCHANGED settled
     \/ \E gone \in settled : settled' = settled \ {gone}

Settle ==
  \E new \in settled' :
    /\ new.id \in open /\ new.result \in Results
    /\ open' = open \ {new.id}
    /\ settled' = settled \cup {new}
    /\ UNCHANGED last

TakeDown == last' = 0 /\ open' = {} /\ settled' = {}

Next == PutUp \/ Settle \/ TakeDown

Spec == Init /\ [][Next]_board
=============================================================================
