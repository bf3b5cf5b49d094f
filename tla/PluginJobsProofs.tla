--------------------------- MODULE PluginJobsProofs ---------------------------
(* What holds of PluginJobs for any pages, plugins, pool and lease.  The      *)
(* invariant says which numbers there are, that a claim is given to one page, *)
(* and what a page that is told a verdict may conclude.                       *)
EXTENDS PluginJobs, TLAPS

\* Jobs in the pool have numbers of their own, handed out in this session.
Numbered ==
  /\ \A s \in Slots : jobs[s].state # "empty" =>
       /\ jobs[s].id \in 1 .. nextPluginJobId - 1
       /\ jobs[s].claim < nextPluginJobClaim
  /\ \A s, t \in Slots :
       jobs[s].state # "empty" /\ jobs[t].state # "empty" /\ jobs[s].id = jobs[t].id => s = t

\* What a page has in hand, or will have when it reads its answer.
Given(r) == IF conn[r].ask = "job" THEN conn[r].hand ELSE hand[r]

\* A page sends a claim only with a free hand, a completion only of its hand.
Exchange ==
  \A r \in Runners :
    /\ conn[r].ask \in {"claim", "job"} => hand[r].step = "free"
    /\ conn[r].ask \in {"complete", "told"} => hand[r].step = "finished"
    /\ conn[r].ask = "complete" => conn[r].hand = hand[r]
    /\ conn[r].ask = "job" => conn[r].hand.step = "running"

\* A hand is of a session that has begun, and of a claim it has handed out.
Dated(h) == h.session <= session /\ (h.session = session => h.claim < nextPluginJobClaim)

Late == {q \in strays : q.ask = "complete"}

Dates ==
  /\ \A r \in Runners : Given(r).step # "free" => Dated(Given(r))
  /\ \A q \in Late : Dated(q.hand)

Same(h, g) == h.session = g.session /\ h.claim = g.claim

\* No claim is given to two pages, and none is posted before it is run.
GivenOnce ==
  /\ \A r, o \in Runners :
       Given(r).step # "free" /\ Given(o).step # "free" /\ Same(Given(r), Given(o)) => r = o
  /\ \A r \in Runners : \A q \in Late : Given(r).step = "running" => ~Same(Given(r), q.hand)

\* Strengthens InTimeIsTaken: the slot is dated by the claim, so it does not lapse.
Leased ==
  \A r \in Runners :
    /\ Given(r).step = "running" /\ Given(r).session = session
    /\ now - Given(r).takenAt <= Lease
    /\ ~crossed
    => \E s \in Slots : Holds(jobs[s], Given(r)) /\ jobs[s].updatedAt = Given(r).takenAt

\* A page that is told a verdict holds no job any more.
Settled ==
  \A r \in Runners :
    conn[r].ask = "told" /\ conn[r].code # "refused" /\ hand[r].session = session
    => \A s \in Slots : ~Holds(jobs[s], hand[r])

Inv == TypeOK /\ Numbered /\ Exchange /\ Dates /\ GivenOnce /\ Leased /\ Settled
-----------------------------------------------------------------------------
(* What the handlers do to the pool *)

\* The server looks for a job of plugin p, whether or not there is one.
Claims(p) == (\E s \in Slots : ClaimFrom(p, s)) \/ NothingToClaim(p)

\* A new job is of its type, and takes an empty or a finished slot.
LEMMA SubmitPool ==
  ASSUME TypeOK, NEW p \in Plugins, Submit(p)
  PROVE  /\ jobs' \in [Slots -> Job]
         /\ \E s \in Slots :
              /\ jobs[s].state \in {"empty", "finished"}
              /\ jobs[s].state = "empty" \/ Empties = {}
              /\ jobs'[s].id = nextPluginJobId /\ jobs'[s].claim = 0
              /\ jobs'[s].state = "pending"
              /\ \A t \in Slots \ {s} : jobs'[t] = jobs[t]
<1>1. PICK s \in Slots : Alloc(s) /\
        jobs' = [jobs EXCEPT ![s] =
            [id |-> nextPluginJobId, claim |-> 0, updatedAt |-> now, plugin |-> p,
             result |-> NoResult, state |-> "pending"]]
  BY DEF Submit
<1>2. jobs[s].state \in {"empty", "finished"} /\ (jobs[s].state = "empty" \/ Empties = {})
  BY <1>1 DEF Alloc, Empties, Recyclable
<1>3. jobs' \in [Slots -> Job]
  BY <1>1 DEF TypeOK, Job, NoResult, Execution
<1> QED BY <1>1, <1>2, <1>3 DEF TypeOK

\* Looking for a job changes no job but those that lapse and the one handed
\* out, and hands that one out under a claim of its own.
LEMMA ClaimsPool ==
  ASSUME TypeOK, NEW p \in Plugins, Claims(p)
  PROVE  /\ jobs' \in [Slots -> Job]
         /\ nextPluginJobClaim' \in {nextPluginJobClaim, nextPluginJobClaim + 1}
         /\ \A t \in Slots :
              /\ jobs'[t].id = jobs[t].id
              /\ jobs[t].state \in {"empty", "finished"} => jobs'[t] = jobs[t]
              /\ jobs[t].state \in {"pending", "running"} => jobs'[t].state \in {"pending", "running"}
              /\ jobs[t].state = "running" /\ ~Lapsed(jobs[t]) => jobs'[t] = jobs[t]
              /\ \/ jobs'[t].claim = jobs[t].claim
                    /\ (jobs'[t].state = "running" => jobs[t].state = "running")
                 \/ jobs'[t].claim = nextPluginJobClaim
                    /\ nextPluginJobClaim' = nextPluginJobClaim + 1
<1>1. \A t \in Slots : /\ jobs[t] \in Job /\ Requeued(jobs[t]) \in Job /\ Handed(jobs[t]) \in Job
                       /\ Requeued(jobs[t]).id = jobs[t].id /\ Handed(jobs[t]).id = jobs[t].id
                       /\ Requeued(jobs[t]).claim = jobs[t].claim
                       /\ Handed(jobs[t]).claim = nextPluginJobClaim
                       /\ Handed(jobs[t]).state = "running"
                       /\ ~Lapsed(jobs[t]) => Requeued(jobs[t]) = jobs[t]
                       /\ Lapsed(jobs[t]) => jobs[t].state = "running" /\ Requeued(jobs[t]).state = "pending"
                       /\ Waits(jobs[t], p) => jobs[t].state = "pending" \/ Lapsed(jobs[t])
  BY DEF TypeOK, Job, Requeued, Handed, Lapsed, Waits
<1>2. CASE NothingToClaim(p)
  <2>1. jobs' = [s \in Slots |-> Requeued(jobs[s])] /\ UNCHANGED nextPluginJobClaim
    BY <1>2 DEF NothingToClaim
  <2>2. \A t \in Slots : jobs'[t] = Requeued(jobs[t])
    BY <2>1
  <2>3. jobs' \in [Slots -> Job]
    BY <1>1, <2>1
  <2> QED BY <1>1, <2>1, <2>2, <2>3 DEF Lapsed
<1>3. ASSUME NEW s \in Slots, ClaimFrom(p, s)
      PROVE  /\ jobs' \in [Slots -> Job]
             /\ nextPluginJobClaim' = nextPluginJobClaim + 1
             /\ Waits(jobs[s], p) /\ jobs'[s] = Handed(jobs[s])
             /\ \A t \in Slots \ {s} : jobs'[t] \in {jobs[t], Requeued(jobs[t])}
  BY <1>1, <1>3 DEF ClaimFrom, Slots
<1>4. CASE \E s \in Slots : ClaimFrom(p, s)
  <2>1. PICK s \in Slots : ClaimFrom(p, s)
    BY <1>4
  <2>2. \A t \in Slots : t = s \/ jobs'[t] \in {jobs[t], Requeued(jobs[t])}
    BY <1>3, <2>1
  <2>3. ASSUME NEW t \in Slots
        PROVE  /\ jobs'[t].id = jobs[t].id
               /\ jobs[t].state \in {"empty", "finished"} => jobs'[t] = jobs[t]
               /\ jobs[t].state \in {"pending", "running"} => jobs'[t].state \in {"pending", "running"}
               /\ jobs[t].state = "running" /\ ~Lapsed(jobs[t]) => jobs'[t] = jobs[t]
               /\ \/ jobs'[t].claim = jobs[t].claim
                     /\ (jobs'[t].state = "running" => jobs[t].state = "running")
                  \/ jobs'[t].claim = nextPluginJobClaim
    <3>1. CASE t = s
      <4>1. jobs[s].state = "pending" \/ Lapsed(jobs[s])
        BY <1>1, <1>3, <2>1
      <4>2. jobs'[t] = Handed(jobs[t])
        BY <1>3, <2>1, <3>1
      <4> QED BY <1>1, <3>1, <4>1, <4>2
    <3>2. CASE t # s
      <4>1. jobs'[t] \in {jobs[t], Requeued(jobs[t])}
        BY <2>2, <3>2
      <4> QED BY <1>1, <4>1
    <3> QED BY <3>1, <3>2
  <2> QED BY <1>3, <2>1, <2>3
<1> QED BY <1>2, <1>4 DEF Claims

\* The job that is handed out is the one that was found.
LEMMA HandedOut ==
  ASSUME TypeOK, NEW p \in Plugins, NEW s \in Slots, ClaimFrom(p, s)
  PROVE  jobs'[s] = Handed(jobs[s])
BY DEF ClaimFrom, Slots

\* A completion finishes the one job it holds, or changes nothing because it
\* holds none.
LEMMA CompletePool ==
  ASSUME TypeOK, NEW h \in Hand, NEW code \in Codes, Complete(h, code)
  PROVE  /\ jobs' \in [Slots -> Job] /\ crossed' \in BOOLEAN
         /\ nextPluginJobClaim' = nextPluginJobClaim
         /\ \/ /\ UNCHANGED <<jobs, crossed>>
               /\ \A s \in Slots : ~Holds(jobs[s], h)
            \/ \E s \in Slots :
                 /\ Holds(jobs[s], h)
                 /\ jobs'[s].id = jobs[s].id /\ jobs'[s].claim = jobs[s].claim
                 /\ jobs'[s].state = "finished" /\ jobs'[s].result \in Execution
                 /\ \A t \in Slots \ {s} : jobs'[t] = jobs[t]
                 /\ crossed' = (crossed \/ h.session # session)
<1>1. CASE \A s \in Slots : ~Holds(jobs[s], h)
  <2>1. UNCHANGED <<jobs, crossed, nextPluginJobClaim>>
    BY <1>1 DEF Complete, Record
  <2> QED BY <1>1, <2>1 DEF TypeOK
<1>2. CASE \E s \in Slots : Holds(jobs[s], h)
  <2>1. PICK s \in Slots : Record(h, s)
    BY <1>2 DEF Complete
  <2>2. /\ Holds(jobs[s], h)
        /\ jobs' = [jobs EXCEPT ![s] = Finished(jobs[s], h)]
        /\ crossed' = (crossed \/ h.session # session)
    BY <2>1 DEF Record
  <2>3. jobs[s] \in Job /\ [session |-> h.session, claim |-> h.claim] \in Execution /\ now \in Nat
    BY DEF TypeOK, Execution, Hand
  <2>4. /\ Finished(jobs[s], h) \in Job
        /\ Finished(jobs[s], h).id = jobs[s].id /\ Finished(jobs[s], h).claim = jobs[s].claim
        /\ Finished(jobs[s], h).state = "finished" /\ Finished(jobs[s], h).result \in Execution
    BY <2>3 DEF Job, Finished
  <2>5. /\ jobs'[s] = Finished(jobs[s], h)
        /\ \A t \in Slots \ {s} : jobs'[t] = jobs[t]
        /\ jobs' \in [Slots -> Job]
    BY <2>4, <2>2 DEF TypeOK
  <2>6. /\ jobs'[s].id = jobs[s].id /\ jobs'[s].claim = jobs[s].claim
        /\ jobs'[s].state = "finished" /\ jobs'[s].result \in Execution
    BY <2>4, <2>5
  <2>7. crossed' \in BOOLEAN /\ nextPluginJobClaim' = nextPluginJobClaim
    BY <2>2 DEF Complete
  <2> QED BY <2>2, <2>5, <2>6, <2>7
<1> QED BY <1>1, <1>2

-----------------------------------------------------------------------------
(* Types *)

\* What the parts of a message are.
LEMMA Messages ==
  ASSUME TypeOK
  PROVE  /\ \A r \in Runners :
              /\ conn[r].ask \in {"none", "claim", "complete", "job", "told"}
              /\ conn[r].ask = "none" <=> conn[r] = Silence
              /\ conn[r].ask = "claim" => conn[r] \in Requests /\ conn[r].plugin \in Plugins
              /\ conn[r].ask = "complete" => conn[r] \in Requests /\ conn[r].hand \in Hand
              /\ conn[r].ask = "job" => conn[r].hand \in Hand
              /\ conn[r].ask = "told" => conn[r].code \in Codes
         /\ \A q \in strays :
              /\ q.ask = "claim" => q.plugin \in Plugins
              /\ q.ask = "complete" => q.hand \in Hand
<1>1. ASSUME NEW r \in Runners
      PROVE  /\ conn[r].ask \in {"none", "claim", "complete", "job", "told"}
             /\ conn[r].ask = "none" <=> conn[r] = Silence
             /\ conn[r].ask = "claim" => conn[r] \in Requests /\ conn[r].plugin \in Plugins
             /\ conn[r].ask = "complete" => conn[r] \in Requests /\ conn[r].hand \in Hand
             /\ conn[r].ask = "job" => conn[r].hand \in Hand
             /\ conn[r].ask = "told" => conn[r].code \in Codes
  <2>1. conn[r] \in Requests \/ conn[r] \in Answers \/ conn[r] = Silence
    BY DEF TypeOK
  <2>2. CASE conn[r] \in Requests
    BY <2>2 DEF Requests, Silence
  <2>3. CASE conn[r] \in Answers
    BY <2>3 DEF Answers, Silence
  <2>4. CASE conn[r] = Silence
    BY <2>4 DEF Silence
  <2> QED BY <2>1, <2>2, <2>3, <2>4
<1>2. ASSUME NEW q \in strays
      PROVE  /\ q.ask = "claim" => q.plugin \in Plugins
             /\ q.ask = "complete" => q.hand \in Hand
  BY DEF TypeOK, Requests
<1> QED BY <1>1, <1>2

\* What is left of a request that is given up was a request.
LEMMA StraysAfter ==
  ASSUME TypeOK, NEW r \in Runners, Abandoned(r)
  PROVE  /\ strays' \subseteq Requests
         /\ strays' = strays \/ (Unserved(r) /\ strays' = strays \cup {conn[r]})
BY Messages DEF TypeOK, Abandoned, Unserved

\* The pool that is put up anew is of its type.
LEMMA EmptyPoolType == EmptyPool \in [Slots -> Job]
<1>1. PICK p \in Plugins : p = (CHOOSE q \in Plugins : TRUE)
  BY PluginsAssumption
<1> QED BY <1>1 DEF EmptyPool, Job, NoResult, Execution

\* The initial values have their types.
LEMMA TypeInit == Init => TypeOK
<1> SUFFICES ASSUME Init PROVE TypeOK
  OBVIOUS
<1>1. hand \in [Runners -> Hand]
  BY DEF Init, NoHand, Hand
<1>2. {submits, faults} \subseteq Nat
  BY DEF Init
<1>3. crossed \in BOOLEAN
  BY Zenon DEF Init
<1>4. jobs \in [Slots -> Job]
  BY EmptyPoolType DEF Init
<1>5. conn \in [Runners -> Requests \cup Answers \cup {Silence}]
  BY DEF Init
<1> QED BY <1>1, <1>2, <1>3, <1>4, <1>5 DEF Init, TypeOK

\* Every step keeps the types.
LEMMA TypeStep ==
  ASSUME TypeOK, [Next]_vars
  PROVE  TypeOK'
<1>1. ASSUME NEW p \in Plugins, Submit(p) PROVE TypeOK'
  <2>1. jobs' \in [Slots -> Job]
    BY <1>1, SubmitPool
  <2>2. {submits', faults'} \subseteq Nat /\ nextPluginJobId' \in Nat \ {0}
    BY <1>1 DEF TypeOK, Submit
  <2>3. UNCHANGED <<nextPluginJobClaim, now, hand, conn, strays, session, crossed>>
    BY <1>1 DEF Submit, pages, past
  <2> QED BY <2>1, <2>2, <2>3 DEF TypeOK
<1>2. ASSUME NEW r \in Runners, NEW p \in Plugins, SendClaim(r, p) PROVE TypeOK'
  BY <1>2 DEF TypeOK, SendClaim, Answer, ClaimOf, Requests, pool, past, tally
<1>3. ASSUME NEW r \in Runners, TakesJob(r) PROVE TypeOK'
  BY <1>3, Messages DEF TypeOK, TakesJob, Answer, pool, past, tally
<1>4. ASSUME NEW r \in Runners, RunsAction(r) PROVE TypeOK'
  <2>1. [hand[r] EXCEPT !.step = "finished"] \in Hand
    BY DEF TypeOK, Hand
  <2> QED BY <1>4, <2>1 DEF TypeOK, RunsAction, pool, past, tally
<1>5. ASSUME NEW r \in Runners, SendCompletion(r) PROVE TypeOK'
  <2>1. Completion(hand[r]) \in Requests
    BY DEF TypeOK, Completion, Requests
  <2> QED BY <1>5, <2>1 DEF TypeOK, SendCompletion, Answer, pool, past, tally
<1>6. NoHand \in Hand
  BY DEF NoHand, Hand
<1>7. ASSUME NEW r \in Runners, HearsVerdict(r) PROVE TypeOK'
  BY <1>6, <1>7 DEF TypeOK, HearsVerdict, Answer, pool, past, tally
<1>8. ASSUME NEW r \in Runners, FetchFails(r) PROVE TypeOK'
  BY <1>8, StraysAfter DEF TypeOK, FetchFails, Fault, Answer, pool, past
<1>9. ASSUME NEW r \in Runners, PageCloses(r) PROVE TypeOK'
  BY <1>6, <1>9, StraysAfter DEF TypeOK, PageCloses, Fault, Answer, pool, past
<1>10. ASSUME NEW r \in Runners, ServeClaim(r) PROVE TypeOK'
  <2>1. Claims(conn[r].plugin) /\ conn[r].plugin \in Plugins
    BY <1>10, Messages DEF ServeClaim, Claims
  <2>2. jobs' \in [Slots -> Job] /\ nextPluginJobClaim' \in Nat \ {0}
    BY <2>1, ClaimsPool DEF TypeOK
  <2>3. conn' \in [Runners -> Requests \cup Answers \cup {Silence}]
    <3>1. \A s \in Slots : [step |-> "running", id |-> jobs[s].id, claim |-> nextPluginJobClaim,
                            session |-> session, takenAt |-> now] \in Hand
      BY DEF TypeOK, Job, Hand
    <3>2. \A h \in Hand : GivenJob(h) \in Answers
      BY DEF GivenJob, Answers
    <3>3. \/ \E h \in Hand : Answer(r, GivenJob(h))
          \/ Answer(r, Silence)
      BY <1>10, <3>1 DEF ServeClaim
    <3> QED BY <3>2, <3>3 DEF Answer, TypeOK
  <2> QED BY <1>10, <2>2, <2>3 DEF TypeOK, ServeClaim, past, tally
<1>11. ASSUME NEW code \in Codes PROVE Told(code) \in Answers
  BY DEF Told, Answers
<1>12. ASSUME NEW r \in Runners, ServeCompletion(r) PROVE TypeOK'
  <2>1. PICK code \in Codes : Complete(conn[r].hand, code) /\ Answer(r, Told(code))
    BY <1>12 DEF ServeCompletion
  <2>2. conn[r].hand \in Hand
    BY <1>12, Messages DEF ServeCompletion
  <2>3. /\ jobs' \in [Slots -> Job] /\ crossed' \in BOOLEAN
        /\ nextPluginJobClaim' = nextPluginJobClaim
    BY <2>1, <2>2, CompletePool
  <2>4. conn' \in [Runners -> Requests \cup Answers \cup {Silence}]
    BY <1>11, <2>1 DEF Answer, TypeOK
  <2> QED BY <1>12, <2>3, <2>4 DEF TypeOK, ServeCompletion, tally
<1>13. ASSUME NEW r \in Runners, RefuseCompletion(r) PROVE TypeOK'
  <2>1. Told("refused") \in Answers
    BY <1>11 DEF Codes
  <2> QED BY <1>13, <2>1 DEF TypeOK, RefuseCompletion, Fault, Answer, pool, past
<1>14. ASSUME NEW q \in strays, ServeStray(q) PROVE TypeOK'
  <2>1. CASE q.ask = "claim" /\ Claims(q.plugin) /\ UNCHANGED crossed
    <3>1. jobs' \in [Slots -> Job] /\ nextPluginJobClaim' \in Nat \ {0}
      BY <2>1, ClaimsPool, Messages DEF TypeOK
    <3> QED BY <1>14, <2>1, <3>1 DEF TypeOK, ServeStray, pages, tally
  <2>2. CASE q.ask = "complete" /\ \E code \in Codes : Complete(q.hand, code)
    <3>1. /\ jobs' \in [Slots -> Job] /\ crossed' \in BOOLEAN
          /\ nextPluginJobClaim' = nextPluginJobClaim
      BY <2>2, CompletePool, Messages
    <3> QED BY <1>14, <3>1 DEF TypeOK, ServeStray, pages, tally
  <2> QED BY <1>14, <2>1, <2>2 DEF ServeStray, Claims
<1>15. CASE NewSession
  <2>1. conn' \in [Runners -> Requests \cup Answers \cup {Silence}]
    BY <1>15 DEF NewSession, TypeOK
  <2>2. jobs' \in [Slots -> Job]
    BY <1>15, EmptyPoolType DEF NewSession
  <2>3. session' \in Nat /\ strays' = {}
    BY <1>15 DEF NewSession, TypeOK
  <2>4. crossed' \in BOOLEAN
    BY <1>15, Zenon DEF NewSession
  <2>5. nextPluginJobId' = 1 /\ nextPluginJobClaim' = 1
    BY <1>15 DEF NewSession
  <2>6. UNCHANGED <<now, hand, submits, faults>>
    BY <1>15 DEF NewSession, tally
  <2> QED BY <2>1, <2>2, <2>3, <2>4, <2>5, <2>6 DEF TypeOK
<1>16. CASE Tick
  BY <1>16 DEF Tick, TypeOK, pool, pages, past, tally
<1>17. CASE UNCHANGED vars
  BY <1>17 DEF vars, TypeOK, pool, pages, past, tally
<1> QED
  BY <1>1, <1>2, <1>3, <1>4, <1>5, <1>7, <1>8, <1>9, <1>10, <1>12, <1>13, <1>14, <1>15,
     <1>16, <1>17 DEF Next, Page, Work, Server, Serve

\* Every variable keeps its type.
THEOREM TypeCorrect == Spec => []TypeOK
<1> QED BY TypeInit, TypeStep, PTL DEF Spec

-----------------------------------------------------------------------------
(* The pages *)

\* What a page waits for always goes with what it has in hand.
LEMMA ExchangeStep ==
  ASSUME TypeOK, Exchange, [Next]_vars
  PROVE  Exchange'
<1> USE Messages
<1>1. ASSUME NEW p \in Plugins, Submit(p) PROVE Exchange'
  BY <1>1 DEF Exchange, Submit, pages
<1>2. ASSUME NEW r \in Runners, NEW p \in Plugins, SendClaim(r, p) PROVE Exchange'
  BY <1>2 DEF Exchange, TypeOK, SendClaim, Answer, ClaimOf
<1>3. ASSUME NEW r \in Runners, TakesJob(r) PROVE Exchange'
  BY <1>3 DEF Exchange, TypeOK, TakesJob, Answer, Silence
<1>4. ASSUME NEW r \in Runners, RunsAction(r) PROVE Exchange'
  <2>1. conn[r].ask = "none"
    BY <1>4 DEF RunsAction, Exchange
  <2> QED BY <1>4, <2>1 DEF Exchange, TypeOK, RunsAction
<1>5. ASSUME NEW r \in Runners, SendCompletion(r) PROVE Exchange'
  BY <1>5 DEF Exchange, TypeOK, SendCompletion, Answer, Completion
<1>6. ASSUME NEW r \in Runners, HearsVerdict(r) PROVE Exchange'
  BY <1>6 DEF Exchange, TypeOK, HearsVerdict, Answer, Silence
<1>7. ASSUME NEW r \in Runners, FetchFails(r) PROVE Exchange'
  BY <1>7 DEF Exchange, TypeOK, FetchFails, Answer, Silence
<1>8. ASSUME NEW r \in Runners, PageCloses(r) PROVE Exchange'
  BY <1>8 DEF Exchange, TypeOK, PageCloses, Answer, Silence
<1>9. ASSUME NEW r \in Runners, ServeClaim(r) PROVE Exchange'
  <2>1. hand[r].step = "free" /\ hand' = hand
    BY <1>9 DEF ServeClaim, Exchange
  <2>2. \/ \E s \in Slots : conn' = [conn EXCEPT ![r] = GivenJob([step |-> "running",
               id |-> jobs[s].id, claim |-> nextPluginJobClaim, session |-> session,
               takenAt |-> now])]
        \/ conn' = [conn EXCEPT ![r] = Silence]
    BY <1>9 DEF ServeClaim, Answer
  <2> QED BY <2>1, <2>2 DEF Exchange, TypeOK, GivenJob, Silence
<1>10. ASSUME NEW r \in Runners, ServeCompletion(r) PROVE Exchange'
  <2>1. hand[r].step = "finished" /\ hand' = hand
    BY <1>10 DEF ServeCompletion, Exchange
  <2>2. \E code \in Codes : conn' = [conn EXCEPT ![r] = Told(code)]
    BY <1>10 DEF ServeCompletion, Answer
  <2> QED BY <2>1, <2>2 DEF Exchange, TypeOK, Told
<1>11. ASSUME NEW r \in Runners, RefuseCompletion(r) PROVE Exchange'
  BY <1>11 DEF Exchange, TypeOK, RefuseCompletion, Answer, Told
<1>12. ASSUME NEW q \in strays, ServeStray(q) PROVE Exchange'
  BY <1>12 DEF Exchange, ServeStray, pages
<1>13. CASE NewSession
  BY <1>13 DEF Exchange, TypeOK, NewSession, Unserved, Silence
<1>14. CASE Tick
  BY <1>14 DEF Exchange, Tick, pages
<1>15. CASE UNCHANGED vars
  BY <1>15 DEF Exchange, vars, pages
<1> QED
  BY <1>1, <1>2, <1>3, <1>4, <1>5, <1>6, <1>7, <1>8, <1>9, <1>10, <1>11, <1>12, <1>13,
     <1>14, <1>15 DEF Next, Page, Work, Server, Serve

\* Page r is handed the job of slot s.
Granted(r, s) ==
  /\ ServeClaim(r) /\ ClaimFrom(conn[r].plugin, s)
  /\ Given(r)' = [step |-> "running", id |-> jobs[s].id, claim |-> nextPluginJobClaim,
                  session |-> session, takenAt |-> now]
  /\ \A o \in Runners \ {r} : Given(o)' = Given(o)

\* What a page has in hand stays, is given up, is done, or is what it was just given.
LEMMA GivenAfter ==
  ASSUME TypeOK, Exchange, [Next]_vars, NEW r \in Runners
  PROVE  \/ Given(r)' = Given(r)
         \/ Given(r)'.step = "free"
         \/ Given(r).step = "running" /\ Given(r)' = [Given(r) EXCEPT !.step = "finished"]
         \/ \E s \in Slots : Granted(r, s)
<1> DEFINE Goal == \/ Given(r)' = Given(r)
                   \/ Given(r)'.step = "free"
                   \/ /\ Given(r).step = "running"
                      /\ Given(r)' = [Given(r) EXCEPT !.step = "finished"]
                   \/ \E s \in Slots : Granted(r, s)
<1> USE Messages
<1> SUFFICES Goal
  OBVIOUS
<1>1. ASSUME NEW p \in Plugins, Submit(p) PROVE Goal
  BY <1>1 DEF Given, Submit, pages
<1>2. ASSUME NEW o \in Runners, NEW p \in Plugins, SendClaim(o, p) PROVE Goal
  BY <1>2 DEF Given, TypeOK, SendClaim, Answer, ClaimOf, Silence
<1>3. ASSUME NEW o \in Runners, TakesJob(o) PROVE Goal
  BY <1>3 DEF Given, TypeOK, TakesJob, Answer, Silence
<1>4. ASSUME NEW o \in Runners, RunsAction(o) PROVE Goal
  <2>1. conn[o].ask # "job" /\ conn' = conn
    BY <1>4 DEF RunsAction, Exchange
  <2>2. hand' = [hand EXCEPT ![o] = [hand[o] EXCEPT !.step = "finished"]] /\ hand[o].step = "running"
    BY <1>4 DEF RunsAction
  <2> QED BY <2>1, <2>2 DEF Given, TypeOK
<1>5. ASSUME NEW o \in Runners, SendCompletion(o) PROVE Goal
  BY <1>5 DEF Given, TypeOK, SendCompletion, Answer, Completion, Silence
<1>6. ASSUME NEW o \in Runners, HearsVerdict(o) PROVE Goal
  BY <1>6 DEF Given, TypeOK, HearsVerdict, Answer, Silence, NoHand
<1>7. ASSUME NEW o \in Runners, FetchFails(o) PROVE Goal
  BY <1>7 DEF Given, Exchange, TypeOK, FetchFails, Answer, Silence
<1>8. ASSUME NEW o \in Runners, PageCloses(o) PROVE Goal
  BY <1>8 DEF Given, TypeOK, PageCloses, Answer, Silence, NoHand
<1>9. ASSUME NEW o \in Runners, ServeClaim(o) PROVE Goal
  <2>1. conn[o].ask = "claim" /\ hand[o].step = "free" /\ hand' = hand
    BY <1>9 DEF ServeClaim, Exchange
  <2>2. CASE Answer(o, Silence)
    BY <2>1, <2>2 DEF Given, TypeOK, Answer, Silence
  <2>3. CASE ~Answer(o, Silence)
    <3>1. PICK s \in Slots :
            /\ ClaimFrom(conn[o].plugin, s)
            /\ Answer(o, GivenJob([step |-> "running", id |-> jobs[s].id,
                 claim |-> nextPluginJobClaim, session |-> session, takenAt |-> now]))
      BY <1>9, <2>3 DEF ServeClaim
    <3>2. \A x \in Runners \ {o} : Given(x)' = Given(x)
      BY <2>1, <3>1 DEF Given, TypeOK, Answer
    <3>3. Given(o)' = [step |-> "running", id |-> jobs[s].id, claim |-> nextPluginJobClaim,
                      session |-> session, takenAt |-> now]
      BY <3>1 DEF Given, TypeOK, Answer, GivenJob
    <3>4. Granted(o, s)
      BY <1>9, <3>1, <3>2, <3>3 DEF Granted
    <3> QED BY <3>2, <3>4
  <2> QED BY <2>2, <2>3
<1>10. ASSUME NEW o \in Runners, ServeCompletion(o) PROVE Goal
  <2>1. conn[o].ask = "complete" /\ hand' = hand
    BY <1>10 DEF ServeCompletion
  <2>2. \E code \in Codes : conn' = [conn EXCEPT ![o] = Told(code)]
    BY <1>10 DEF ServeCompletion, Answer
  <2> QED BY <2>1, <2>2 DEF Given, TypeOK, Told
<1>11. ASSUME NEW o \in Runners, RefuseCompletion(o) PROVE Goal
  BY <1>11 DEF Given, TypeOK, RefuseCompletion, Answer, Told
<1>12. ASSUME NEW q \in strays, ServeStray(q) PROVE Goal
  BY <1>12 DEF Given, ServeStray, pages
<1>13. CASE NewSession
  BY <1>13 DEF Given, TypeOK, NewSession, Unserved, Silence
<1>14. CASE Tick
  BY <1>14 DEF Given, Tick, pages
<1>15. CASE UNCHANGED vars
  BY <1>15 DEF Given, vars, pages
<1> QED
  BY <1>1, <1>2, <1>3, <1>4, <1>5, <1>6, <1>7, <1>8, <1>9, <1>10, <1>11, <1>12, <1>13,
     <1>14, <1>15 DEF Next, Page, Work, Server, Serve

\* A request that is given up carries what its page had finished.
LEMMA LateAfter ==
  ASSUME TypeOK, Exchange, [Next]_vars, NEW q \in Late'
  PROVE  q \in Late \/ \E r \in Runners : (Given(r).step = "finished" /\ q.hand = Given(r))
<1> USE Messages
<1>1. ASSUME NEW r \in Runners, Abandoned(r)
      PROVE  q \in Late \/ (Given(r).step = "finished" /\ q.hand = Given(r))
  <2>1. strays' = strays \/ (Unserved(r) /\ strays' = strays \cup {conn[r]})
    BY <1>1, StraysAfter
  <2>2. q \in strays' /\ q.ask = "complete"
    BY DEF Late
  <2> QED BY <2>1, <2>2 DEF Late, Given, Exchange
<1>2. CASE strays' \subseteq strays
  BY <1>2 DEF Late
<1> QED
  BY <1>1, <1>2 DEF Next, Page, Work, Server, Serve, Submit, SendClaim, TakesJob, RunsAction,
     SendCompletion, HearsVerdict, FetchFails, PageCloses, ServeClaim, ServeCompletion,
     RefuseCompletion, ServeStray, NewSession, Tick, vars

\* Sessions and claims only grow.
LEMMA DatedAfter ==
  ASSUME TypeOK, [Next]_vars
  PROVE  \/ session' = session /\ nextPluginJobClaim' \in {nextPluginJobClaim, nextPluginJobClaim + 1}
         \/ session' = session + 1
<1>1. ASSUME NEW r \in Runners, ServeClaim(r) PROVE session' = session /\ Claims(conn[r].plugin)
  BY <1>1 DEF ServeClaim, Claims, past
<1>2. ASSUME NEW r \in Runners, ServeClaim(r)
      PROVE  session' = session /\ nextPluginJobClaim' \in {nextPluginJobClaim, nextPluginJobClaim + 1}
  BY <1>1, <1>2, ClaimsPool, Messages DEF ServeClaim
<1>3. ASSUME NEW q \in strays, ServeStray(q)
      PROVE  session' = session /\ nextPluginJobClaim' \in {nextPluginJobClaim, nextPluginJobClaim + 1}
  <2>1. session' = session
    BY <1>3 DEF ServeStray
  <2>2. CASE q.ask = "claim" /\ Claims(q.plugin)
    BY <2>1, <2>2, ClaimsPool, Messages
  <2>3. CASE \E code \in Codes : Complete(q.hand, code)
    BY <2>1, <2>3 DEF Complete
  <2> QED BY <1>3, <2>2, <2>3 DEF ServeStray, Claims
<1>4. ASSUME NEW r \in Runners, ServeCompletion(r)
      PROVE  session' = session /\ nextPluginJobClaim' = nextPluginJobClaim
  BY <1>4 DEF ServeCompletion, Complete
<1>5. CASE NewSession
  BY <1>5 DEF NewSession
<1> QED
  BY <1>2, <1>3, <1>4, <1>5 DEF Next, Page, Work, Server, Serve, Submit, SendClaim, TakesJob,
     RunsAction, SendCompletion, HearsVerdict, FetchFails, PageCloses, RefuseCompletion, Tick,
     vars, pool, past

\* What pages have in hand, and what they posted, are of their type.
LEMMA GivenType ==
  ASSUME TypeOK
  PROVE  (\A r \in Runners : Given(r) \in Hand) /\ (\A q \in Late : q.hand \in Hand)
BY Messages DEF TypeOK, Given, Late

\* No hand is of a session or a claim to come.
LEMMA DatesStep ==
  ASSUME TypeOK, Exchange, Dates, [Next]_vars
  PROVE  Dates'
<1>1. ASSUME NEW h \in Hand, Dated(h)
      PROVE  h.session <= session' /\ (h.session = session' => h.claim < nextPluginJobClaim')
  BY <1>1, DatedAfter DEF Dated, TypeOK, Hand
<1>2. ASSUME NEW r \in Runners, Given(r)'.step # "free"
      PROVE  /\ Given(r)'.session <= session'
             /\ Given(r)'.session = session' => Given(r)'.claim < nextPluginJobClaim'
  <2>1. CASE Given(r)' = Given(r)
    BY <1>1, <1>2, <2>1, GivenType DEF Dates
  <2>2. CASE Given(r).step = "running" /\ Given(r)' = [Given(r) EXCEPT !.step = "finished"]
    <3>1. Given(r)'.session = Given(r).session /\ Given(r)'.claim = Given(r).claim
      BY <2>2, GivenType DEF Hand
    <3> QED BY <1>1, <2>2, <3>1, GivenType DEF Dates
  <2>3. CASE \E s \in Slots : Granted(r, s)
    <3>1. PICK s \in Slots : Granted(r, s)
      BY <2>3
    <3>2. Given(r)'.session = session /\ Given(r)'.claim = nextPluginJobClaim
      BY <3>1 DEF Granted
    <3>3. session' = session /\ nextPluginJobClaim' = nextPluginJobClaim + 1
      BY <3>1 DEF Granted, ServeClaim, ClaimFrom, past
    <3> QED BY <3>2, <3>3 DEF TypeOK
  <2> QED BY <1>2, <2>1, <2>2, <2>3, GivenAfter
<1>3. ASSUME NEW q \in Late'
      PROVE  q.hand.session <= session' /\ (q.hand.session = session' => q.hand.claim < nextPluginJobClaim')
  <2>1. q.hand \in Hand /\ Dated(q.hand)
    BY LateAfter, GivenType DEF Dates
  <2> QED BY <1>1, <2>1
<1> QED BY <1>2, <1>3 DEF Dates, Dated

\* A claim stays with the one page it was given to.
LEMMA GivenOnceStep ==
  ASSUME TypeOK, Exchange, Dates, GivenOnce, [Next]_vars
  PROVE  GivenOnce'
\* What a page has after the step, unless it was given it just now, it had before.
<1>1. ASSUME NEW r \in Runners, Given(r)'.step # "free", \A s \in Slots : ~Granted(r, s)
      PROVE  /\ Given(r).step # "free" /\ Same(Given(r)', Given(r))
             /\ Given(r)'.step = "running" => Given(r).step = "running"
  BY <1>1, GivenAfter, GivenType DEF Same, Hand
\* What it was given just now is like nothing there was.
<1>2. ASSUME NEW r \in Runners, NEW s \in Slots, Granted(r, s), NEW h \in Hand, Dated(h)
      PROVE  ~Same(Given(r)', h) /\ ~Same(h, Given(r)')
  BY <1>2 DEF Granted, Same, Dated, TypeOK, Hand
<1>3. ASSUME NEW r \in Runners, NEW o \in Runners, r # o, NEW s \in Slots, Granted(r, s),
             Given(o)'.step # "free"
      PROVE  ~Same(Given(r)', Given(o)') /\ ~Same(Given(o)', Given(r)')
  <2>1. Given(o)' = Given(o)
    BY <1>3 DEF Granted
  <2> QED BY <1>2, <1>3, <2>1, GivenType DEF Dates
<1>4. ASSUME NEW r \in Runners, NEW o \in Runners, r # o,
             Given(r)'.step # "free", Given(o)'.step # "free"
      PROVE  ~Same(Given(r)', Given(o)')
  <2>1. CASE (\E s \in Slots : Granted(r, s)) \/ \E s \in Slots : Granted(o, s)
    BY <1>3, <1>4, <2>1
  <2>2. CASE (\A s \in Slots : ~Granted(r, s)) /\ \A s \in Slots : ~Granted(o, s)
    BY <1>1, <1>4, <2>2 DEF GivenOnce, Same
  <2> QED BY <2>1, <2>2
<1>5. ASSUME NEW r \in Runners, NEW q \in Late', Given(r)'.step = "running"
      PROVE  ~Same(Given(r)', q.hand)
  <2>1. q.hand \in Hand /\ Dated(q.hand)
    BY LateAfter, GivenType DEF Dates
  <2>2. CASE \E s \in Slots : Granted(r, s)
    BY <1>2, <2>1, <2>2
  <2>3. CASE \A s \in Slots : ~Granted(r, s)
    <3>1. Given(r).step = "running" /\ Same(Given(r)', Given(r))
      BY <1>1, <1>5, <2>3
    <3>2. ~Same(Given(r), q.hand)
      BY <3>1, LateAfter DEF GivenOnce
    <3> QED BY <3>1, <3>2 DEF Same
  <2> QED BY <2>2, <2>3
<1> QED BY <1>4, <1>5 DEF GivenOnce, Same

-----------------------------------------------------------------------------
(* The pool *)

\* A completion the server may be asked to take: of a page, or come late.
Posted(h) ==
  /\ h \in Hand
  /\ \/ \E r \in Runners : h = Given(r) /\ h.step = "finished"
     \/ \E q \in Late : h = q.hand

\* What a step may do to the pool.
LEMMA PoolAfter ==
  ASSUME TypeOK, Exchange, [Next]_vars
  PROVE  \/ \E p \in Plugins : Submit(p)
         \/ /\ \E p \in Plugins : Claims(p)
            /\ UNCHANGED <<nextPluginJobId, now, session, crossed>>
         \/ /\ \E h \in Hand, code \in Codes : Posted(h) /\ Complete(h, code)
            /\ UNCHANGED <<nextPluginJobId, now, session>>
         \/ NewSession
         \/ UNCHANGED <<pool, session, crossed>>
<1> USE Messages
<1>1. ASSUME NEW r \in Runners, ServeClaim(r)
      PROVE  (\E p \in Plugins : Claims(p)) /\ UNCHANGED <<nextPluginJobId, now, session, crossed>>
  BY <1>1 DEF ServeClaim, Claims, past
<1>2. ASSUME NEW r \in Runners, ServeCompletion(r)
      PROVE  /\ \E h \in Hand, code \in Codes : Posted(h) /\ Complete(h, code)
             /\ UNCHANGED <<nextPluginJobId, now, session>>
  <2>1. Posted(conn[r].hand)
    BY <1>2 DEF ServeCompletion, Exchange, Posted, Given
  <2> QED BY <1>2, <2>1 DEF ServeCompletion
<1>3. ASSUME NEW q \in strays, ServeStray(q)
      PROVE  \/ /\ \E p \in Plugins : Claims(p)
                /\ UNCHANGED <<nextPluginJobId, now, session, crossed>>
             \/ /\ \E h \in Hand, code \in Codes : Posted(h) /\ Complete(h, code)
                /\ UNCHANGED <<nextPluginJobId, now, session>>
  <2>1. CASE q.ask = "claim"
    BY <1>3, <2>1 DEF ServeStray, Claims
  <2>2. CASE q.ask = "complete"
    <3>1. Posted(q.hand)
      BY <2>2 DEF Posted, Late
    <3> QED BY <1>3, <2>2, <3>1 DEF ServeStray
  <2> QED BY <1>3, <2>1, <2>2 DEF ServeStray
<1> QED
  BY <1>1, <1>2, <1>3 DEF Next, Page, Work, Server, Serve, SendClaim, TakesJob, RunsAction,
     SendCompletion, HearsVerdict, FetchFails, PageCloses, RefuseCompletion, Tick, vars, past

\* Numbers stay unique, and below those to come.
LEMMA NumberedStep ==
  ASSUME TypeOK, Exchange, Numbered, [Next]_vars
  PROVE  Numbered'
<1>1. \A s \in Slots : jobs[s] \in Job
  BY DEF TypeOK
<1>2. ASSUME NEW p \in Plugins, Submit(p) PROVE Numbered'
  <2>1. PICK s \in Slots : /\ jobs'[s].id = nextPluginJobId /\ jobs'[s].claim = 0
                           /\ \A t \in Slots \ {s} : jobs'[t] = jobs[t]
    BY <1>2, SubmitPool
  <2>2. nextPluginJobId' = nextPluginJobId + 1 /\ nextPluginJobClaim' = nextPluginJobClaim
    BY <1>2 DEF Submit
  <2> QED BY <1>1, <2>1, <2>2 DEF Numbered, TypeOK, Job
<1>3. ASSUME NEW p \in Plugins, Claims(p), UNCHANGED nextPluginJobId PROVE Numbered'
  <2>1. nextPluginJobClaim' \in {nextPluginJobClaim, nextPluginJobClaim + 1}
    BY <1>3, ClaimsPool
  <2>2. ASSUME NEW t \in Slots
        PROVE  /\ jobs'[t].id = jobs[t].id
               /\ jobs'[t].state # "empty" => jobs[t].state # "empty"
               /\ jobs[t].state # "empty" => jobs'[t].claim < nextPluginJobClaim'
    BY <1>1, <1>3, <2>1, ClaimsPool DEF Numbered, TypeOK, Job
  <2> QED BY <1>3, <2>2 DEF Numbered
<1>4. ASSUME NEW h \in Hand, NEW code \in Codes, Complete(h, code), UNCHANGED nextPluginJobId
      PROVE  Numbered'
  <2>1. nextPluginJobClaim' = nextPluginJobClaim
    BY <1>4, CompletePool
  <2>2. ASSUME NEW t \in Slots
        PROVE  /\ jobs'[t].id = jobs[t].id /\ jobs'[t].claim = jobs[t].claim
               /\ jobs'[t].state # "empty" => jobs[t].state # "empty"
    BY <1>4, CompletePool DEF Holds
  <2> QED BY <1>4, <2>1, <2>2 DEF Numbered
<1>5. CASE NewSession
  BY <1>5 DEF NewSession, EmptyPool, Numbered
<1>6. CASE UNCHANGED pool
  BY <1>6 DEF pool, Numbered
<1> QED BY <1>2, <1>3, <1>4, <1>5, <1>6, PoolAfter

\* A claim within its lease is not touched by anything another page does.
LEMMA LeasedStep ==
  ASSUME TypeOK, Exchange, Numbered, Dates, GivenOnce, Leased, [Next]_vars
  PROVE  Leased'
<1> SUFFICES ASSUME NEW r \in Runners, Given(r)'.step = "running", Given(r)'.session = session',
                    now' - Given(r)'.takenAt <= Lease, ~crossed'
             PROVE  \E s \in Slots : /\ Holds(jobs'[s], Given(r)')
                                     /\ jobs'[s].updatedAt = Given(r)'.takenAt
  BY DEF Leased, Holds
<1>1. CASE \E s \in Slots : Granted(r, s)
  <2>1. PICK s \in Slots : Granted(r, s)
    BY <1>1
  <2>2. jobs'[s] = Handed(jobs[s])
    BY <2>1, HandedOut, Messages DEF Granted, ServeClaim
  <2>3. /\ jobs'[s].id = jobs[s].id /\ jobs'[s].claim = nextPluginJobClaim
        /\ jobs'[s].state = "running" /\ jobs'[s].updatedAt = now
    BY <2>2 DEF TypeOK, Handed, Job
  <2>4. /\ Given(r)'.id = jobs[s].id /\ Given(r)'.claim = nextPluginJobClaim
        /\ Given(r)'.takenAt = now
    BY <2>1 DEF Granted
  <2> QED BY <2>3, <2>4 DEF Holds
<1>2. CASE \A s \in Slots : ~Granted(r, s)
  <2>1. Given(r)' = Given(r)
    BY <1>2, GivenAfter, GivenType DEF Hand
  <2>2. session' = session
    BY <2>1, DatedAfter, GivenType DEF Dates, Dated, TypeOK, Hand
  <2>3. ~crossed
    <3>1. ASSUME NEW p \in Plugins, Submit(p) PROVE ~crossed
      BY <3>1 DEF Submit, past
    <3>2. ASSUME NEW h \in Hand, NEW code \in Codes, Complete(h, code) PROVE ~crossed
      BY <3>2, CompletePool
    <3>3. ~NewSession
      BY <2>2 DEF NewSession, TypeOK
    <3> QED BY <3>1, <3>2, <3>3, PoolAfter
  <2>4. now \in Nat /\ now' \in Nat /\ now <= now' /\ Lease \in Nat /\ Given(r).takenAt \in Nat
    <3>1. now \in Nat /\ Given(r).takenAt \in Nat
      BY GivenType DEF TypeOK, Hand
    <3>2. Lease \in Nat
      BY NumbersAssumption
    <3>3. now' = now \/ now' = now + 1
      BY DEF Next, Page, Work, Server, Serve, SendClaim, TakesJob, RunsAction, Submit,
       SendCompletion, HearsVerdict, FetchFails, PageCloses, ServeClaim, ServeCompletion,
         RefuseCompletion, ServeStray, NewSession, Tick, vars
    <3> QED BY <3>1, <3>2, <3>3
  <2>5. PICK s \in Slots : Holds(jobs[s], Given(r)) /\ jobs[s].updatedAt = Given(r).takenAt
    <3>1. now - Given(r).takenAt <= Lease
      BY <2>1, <2>4
    <3> QED BY <2>1, <2>2, <2>3, <3>1 DEF Leased
  <2>6. jobs'[s] = jobs[s]
    <3>1. jobs[s].state = "running" /\ ~Lapsed(jobs[s])
      BY <2>1, <2>4, <2>5 DEF Holds, Lapsed
    <3>2. ASSUME NEW p \in Plugins, Submit(p) PROVE jobs'[s] = jobs[s]
      BY <3>1, <3>2, SubmitPool
    <3>3. ASSUME NEW p \in Plugins, Claims(p) PROVE jobs'[s] = jobs[s]
      BY <3>1, <3>3, ClaimsPool
    <3>4. ASSUME NEW h \in Hand, NEW code \in Codes, Posted(h), Complete(h, code)
          PROVE  jobs'[s] = jobs[s]
      <4>1. CASE Holds(jobs[s], h)
        <5>1. h.session = session
          BY <3>4, <4>1, CompletePool DEF TypeOK
        <5>2. Same(Given(r), h)
          BY <2>1, <2>2, <2>5, <4>1, <5>1 DEF Same, Holds
        <5> QED BY <2>1, <3>4, <5>2 DEF GivenOnce, Posted, Same
      <4>2. CASE ~Holds(jobs[s], h)
        BY <3>4, <4>2, CompletePool
      <4> QED BY <4>1, <4>2
    <3>5. ~NewSession
      BY <2>2 DEF NewSession, TypeOK
    <3> QED BY <3>2, <3>3, <3>4, <3>5, PoolAfter DEF pool
  <2> QED BY <2>1, <2>5, <2>6
<1> QED BY <1>1, <1>2

\* Once a page holds no job, no step makes it hold one: a claim is never given twice.
LEMMA NeverAgain ==
  ASSUME TypeOK, Exchange, [Next]_vars, NEW h \in Hand, Dated(h), h.session = session,
         session' = session, \A s \in Slots : ~Holds(jobs[s], h)
  PROVE  \A s \in Slots : ~Holds(jobs'[s], h)
<1> SUFFICES ASSUME NEW s \in Slots PROVE ~Holds(jobs'[s], h)
  OBVIOUS
<1>1. ASSUME NEW p \in Plugins, Submit(p) PROVE ~Holds(jobs'[s], h)
  BY <1>1, SubmitPool DEF Holds
<1>2. ASSUME NEW p \in Plugins, Claims(p) PROVE ~Holds(jobs'[s], h)
  BY <1>2, ClaimsPool DEF Holds, Dated, TypeOK, Hand
<1>3. ASSUME NEW g \in Hand, NEW code \in Codes, Complete(g, code) PROVE ~Holds(jobs'[s], h)
  BY <1>3, CompletePool DEF Holds
<1>4. ~NewSession
  BY DEF NewSession, TypeOK
<1> QED BY <1>1, <1>2, <1>3, <1>4, PoolAfter DEF pool

\* What a page was told about its job stays true.
LEMMA SettledStep ==
  ASSUME TypeOK, Exchange, Numbered, Dates, Settled, [Next]_vars
  PROVE  Settled'
<1> USE Messages
<1> SUFFICES ASSUME NEW r \in Runners, conn'[r].ask = "told", conn'[r].code # "refused",
                    hand'[r].session = session'
             PROVE  \A s \in Slots : ~Holds(jobs'[s], hand'[r])
  BY DEF Settled, Holds
<1>1. /\ hand'[r] = hand[r] /\ hand[r].step = "finished" /\ Given(r) = hand[r]
      /\ conn'[r] = conn[r] \/ ServeCompletion(r)
  <2>1. hand'[r].step = "finished"
    BY ExchangeStep DEF Exchange
  <2>2. ASSUME NEW o \in Runners, RunsAction(o) PROVE o # r
    BY <2>2, Messages DEF RunsAction, Exchange, TypeOK
  <2>3. hand'[r] = hand[r] /\ (conn'[r] = conn[r] \/ ServeCompletion(r))
    <3> DEFINE Goal == hand'[r] = hand[r] /\ (conn'[r] = conn[r] \/ ServeCompletion(r))
    <3> HIDE DEF Goal
    <3>1. ASSUME NEW p \in Plugins, Submit(p) PROVE Goal
      BY <3>1 DEF Goal, Submit, pages
    <3>2. ASSUME NEW o \in Runners, NEW p \in Plugins, SendClaim(o, p) PROVE Goal
      BY <3>2 DEF Goal, SendClaim, Answer, ClaimOf, TypeOK
    <3>3. ASSUME NEW o \in Runners, TakesJob(o) PROVE Goal
      BY <3>3 DEF Goal, TakesJob, Answer, Silence, TypeOK
    <3>4. ASSUME NEW o \in Runners, RunsAction(o) PROVE Goal
      BY <2>2, <3>4 DEF Goal, RunsAction, TypeOK
    <3>5. ASSUME NEW o \in Runners, SendCompletion(o) PROVE Goal
      BY <3>5 DEF Goal, SendCompletion, Answer, Completion, TypeOK
    <3>6. ASSUME NEW o \in Runners, HearsVerdict(o) PROVE Goal
      BY <3>6 DEF Goal, HearsVerdict, Answer, Silence, TypeOK
    <3>7. ASSUME NEW o \in Runners, FetchFails(o) PROVE Goal
      BY <3>7 DEF Goal, FetchFails, Answer, Silence, TypeOK
    <3>8. ASSUME NEW o \in Runners, PageCloses(o) PROVE Goal
      BY <3>8 DEF Goal, PageCloses, Answer, Silence, TypeOK
    <3>9. ASSUME NEW o \in Runners, ServeClaim(o) PROVE Goal
      BY <3>9 DEF Goal, ServeClaim, Answer, GivenJob, Silence, TypeOK
    <3>10. ASSUME NEW o \in Runners, ServeCompletion(o) PROVE Goal
      <4>1. hand' = hand /\ \E code \in Codes : Answer(o, Told(code))
        BY <3>10 DEF ServeCompletion
      <4>2. CASE o = r
        BY <3>10, <4>1, <4>2 DEF Goal
      <4>3. CASE o # r
        BY <4>1, <4>3 DEF Goal, Answer, TypeOK
      <4> QED BY <4>2, <4>3
    <3>11. ASSUME NEW o \in Runners, RefuseCompletion(o) PROVE Goal
      BY <3>11 DEF Goal, RefuseCompletion, Answer, Told, TypeOK
    <3>12. ASSUME NEW q \in strays, ServeStray(q) PROVE Goal
      BY <3>12 DEF Goal, ServeStray, pages
    <3>13. CASE NewSession
      BY <3>13 DEF Goal, NewSession, Silence, TypeOK
    <3>14. CASE Tick
      BY <3>14 DEF Goal, Tick, pages
    <3>15. CASE UNCHANGED vars
      BY <3>15 DEF Goal, vars, pages
    <3> QED
      BY <3>1, <3>2, <3>3, <3>4, <3>5, <3>6, <3>7, <3>8, <3>9, <3>10, <3>11, <3>12, <3>13,
         <3>14, <3>15 DEF Goal, Next, Page, Work, Server, Serve
  <2>4. Given(r) = hand[r]
    BY <2>1, <2>3 DEF Exchange, Given
  <2> QED BY <2>1, <2>3, <2>4
<1>2. hand[r] \in Hand /\ Dated(hand[r]) /\ session' = session /\ hand[r].session = session
  <2>1. hand[r] \in Hand /\ Dated(hand[r])
    BY <1>1 DEF Dates, TypeOK
  <2> QED BY <1>1, <2>1, DatedAfter DEF Dated, TypeOK, Hand
<1>3. CASE conn'[r] = conn[r]
  <2>1. \A s \in Slots : ~Holds(jobs[s], hand[r])
    BY <1>1, <1>2, <1>3 DEF Settled
  <2> QED BY <1>1, <1>2, <2>1, NeverAgain
<1>4. CASE ServeCompletion(r)
  <2>1. conn[r].hand = hand[r]
    BY <1>4 DEF ServeCompletion, Exchange
  <2>2. PICK code \in Codes : Complete(hand[r], code)
    BY <1>4, <2>1 DEF ServeCompletion
  <2>3. CASE UNCHANGED jobs /\ \A s \in Slots : ~Holds(jobs[s], hand[r])
    BY <1>1, <2>3
  <2>4. CASE \E s \in Slots : /\ Holds(jobs[s], hand[r]) /\ jobs'[s].state = "finished"
                              /\ \A t \in Slots \ {s} : jobs'[t] = jobs[t]
    BY <1>1, <2>4 DEF Holds, Numbered
  <2> QED BY <1>2, <2>2, <2>3, <2>4, CompletePool
<1> QED BY <1>1, <1>3, <1>4

-----------------------------------------------------------------------------
(* The invariant and what follows from it *)

\* The invariant holds at first,
LEMMA InvInit == Init => Inv
<1> SUFFICES ASSUME Init PROVE Inv
  OBVIOUS
<1>1. /\ \A r \in Runners : conn[r] = Silence /\ hand[r] = NoHand /\ Given(r) = NoHand
      /\ Late = {}
      /\ \A s \in Slots : jobs[s].state = "empty"
  BY DEF Init, Given, Silence, Late, EmptyPool
<1>2. Numbered
  BY <1>1 DEF Numbered
<1>3. Exchange
  BY <1>1 DEF Exchange, Silence
<1>4. Dates /\ GivenOnce /\ Leased
  BY <1>1 DEF Dates, GivenOnce, Leased, NoHand
<1>5. Settled
  BY <1>1 DEF Settled, Silence
<1> QED BY <1>2, <1>3, <1>4, <1>5, TypeInit DEF Inv

\* and every step keeps it.
LEMMA Invariant == Spec => []Inv
<1>1. Inv /\ [Next]_vars => Inv'
  BY TypeStep, NumberedStep, ExchangeStep, DatesStep, GivenOnceStep, LeasedStep, SettledStep DEF Inv
<1> QED BY <1>1, InvInit, PTL DEF Spec

\* A page that runs a job within its lease still holds it, so that what it will post
\* is taken (handlePluginJobClaim).
THEOREM HeldWithinLease == Spec => []InTimeIsTaken
<1>1. Inv => InTimeIsTaken
  <2> SUFFICES ASSUME Inv, NEW r \in Runners, hand[r].step = "running"
               PROVE  Given(r) = hand[r]
    BY DEF Inv, Leased, InTimeIsTaken
  <2> QED BY DEF Inv, Exchange, Given
<1> QED BY <1>1, Invariant, PTL

\* A page lets go of a result only when the job does not wait for it any more, or
\* when it was refused (_sendCompletion).
THEOREM ResultsAreKept == Spec => NoResultThrownAway
<1>1. Inv /\ [Next]_vars =>
        [\A r \in Runners :
           /\ hand[r].session = session
           /\ hand[r].step = "finished" /\ hand'[r].step = "free"
           /\ conn[r].ask = "told" /\ conn[r].code # "refused"
           => \A s \in Slots : ~Holds(jobs[s], hand[r])]_vars
  BY DEF Inv, Settled
<1> QED BY <1>1, Invariant, PTL DEF Spec, NoResultThrownAway

-----------------------------------------------------------------------------
(* The pool is a board *)

OpenIds     == {j.id : j \in Open}
Settlements == {[id |-> j.id, result |-> j.result] : j \in Done}

\* Which jobs are open and which settled, slot by slot, before a step and after it.
LEMMA IsOpen ==
  \A i : i \in OpenIds <=> \E s \in Slots : jobs[s].state \in {"pending", "running"} /\ jobs[s].id = i
BY DEF OpenIds, Open

LEMMA IsSettled ==
  \A x : x \in Settlements <=>
    \E s \in Slots : jobs[s].state = "finished" /\ x = [id |-> jobs[s].id, result |-> jobs[s].result]
BY DEF Settlements, Done

LEMMA IsOpenAfter ==
  \A i : i \in OpenIds' <=> \E s \in Slots : jobs'[s].state \in {"pending", "running"} /\ jobs'[s].id = i
BY DEF OpenIds, Open

LEMMA IsSettledAfter ==
  \A x : x \in Settlements' <=>
    \E s \in Slots : jobs'[s].state = "finished" /\ x = [id |-> jobs'[s].id, result |-> jobs'[s].result]
BY DEF Settlements, Done

\* A new job is put up, and at most one settled job is taken down for it.
LEMMA SubmitBoard ==
  ASSUME TypeOK, Numbered, NEW p \in Plugins, Submit(p)
  PROVE  /\ OpenIds' = OpenIds \cup {nextPluginJobId}
         /\ Settlements' = Settlements \/ \E gone \in Settlements : Settlements' = Settlements \ {gone}
<1>1. PICK s \in Slots :
        /\ jobs[s].state \in {"empty", "finished"}
        /\ jobs'[s].id = nextPluginJobId /\ jobs'[s].state = "pending"
        /\ \A t \in Slots \ {s} : jobs'[t] = jobs[t]
  BY SubmitPool
<1>2. OpenIds' = OpenIds \cup {nextPluginJobId}
  BY <1>1, IsOpen, IsOpenAfter
<1>3. CASE jobs[s].state = "empty"
  <2>1. \A x : x \in Settlements' <=> x \in Settlements
    BY <1>1, <1>3, IsSettled, IsSettledAfter
  <2> QED BY <1>2, <2>1
<1>4. CASE jobs[s].state = "finished"
  <2> DEFINE gone == [id |-> jobs[s].id, result |-> jobs[s].result]
  <2>1. gone \in Settlements
    BY <1>4, IsSettled
  <2>2. ASSUME NEW t \in Slots \ {s}, jobs[t].state = "finished"
        PROVE  [id |-> jobs[t].id, result |-> jobs[t].result] # gone
    BY <1>4, <2>2 DEF Numbered
  <2> HIDE DEF gone
  <2>3. \A x : x \in Settlements' <=> x \in Settlements /\ x # gone
    <3>1. ASSUME NEW x \in Settlements' PROVE x \in Settlements /\ x # gone
      BY <1>1, <2>2, IsSettled, IsSettledAfter
    <3>2. ASSUME NEW x \in Settlements, x # gone PROVE x \in Settlements'
      BY <1>1, <3>2, IsSettled, IsSettledAfter DEF gone
    <3> QED BY <3>1, <3>2
  <2> QED BY <1>2, <2>1, <2>3
<1> QED BY <1>1, <1>3, <1>4

\* Looking for a job, or handing one out, is nothing to the board.
LEMMA ClaimsBoard ==
  ASSUME TypeOK, NEW p \in Plugins, Claims(p)
  PROVE  OpenIds' = OpenIds /\ Settlements' = Settlements
<1>1. ASSUME NEW t \in Slots
      PROVE  /\ jobs'[t].id = jobs[t].id
             /\ jobs'[t].state \in {"pending", "running"} <=> jobs[t].state \in {"pending", "running"}
             /\ jobs'[t].state = "finished" <=> jobs[t].state = "finished"
             /\ jobs[t].state = "finished" => jobs'[t] = jobs[t]
  BY ClaimsPool DEF TypeOK, Job
<1>2. \A i : i \in OpenIds' <=> i \in OpenIds
  BY <1>1, IsOpen, IsOpenAfter
<1>3. \A x : x \in Settlements' <=> x \in Settlements
  BY <1>1, IsSettled, IsSettledAfter
<1> QED BY <1>2, <1>3

\* A completion settles one open job, or is nothing to the board.
LEMMA CompleteBoard ==
  ASSUME TypeOK, Numbered, NEW h \in Hand, NEW code \in Codes, Complete(h, code)
  PROVE  \/ OpenIds' = OpenIds /\ Settlements' = Settlements
         \/ \E new \in Settlements' :
              /\ new.id \in OpenIds /\ new.result \in Execution
              /\ OpenIds' = OpenIds \ {new.id}
              /\ Settlements' = Settlements \cup {new}
<1>1. CASE UNCHANGED jobs
  BY <1>1 DEF OpenIds, Settlements, Open, Done
<1>2. CASE jobs' # jobs
  <2>1. PICK s \in Slots :
          /\ jobs[s].state = "running"
          /\ jobs'[s].id = jobs[s].id /\ jobs'[s].state = "finished" /\ jobs'[s].result \in Execution
          /\ \A t \in Slots \ {s} : jobs'[t] = jobs[t]
    BY <1>2, CompletePool DEF Holds
  <2> DEFINE new == [id |-> jobs[s].id, result |-> jobs'[s].result]
  <2>2. new \in Settlements' /\ new.id \in OpenIds /\ new.result \in Execution
    BY <2>1, IsOpen, IsSettledAfter
  <2>3. \A i : i \in OpenIds' <=> i \in OpenIds /\ i # new.id
    <3>1. \A t \in Slots \ {s} : jobs[t].state \in {"pending", "running"} => jobs[t].id # jobs[s].id
      BY <2>1 DEF Numbered
    <3> QED BY <2>1, <3>1, IsOpen, IsOpenAfter
  <2>4. \A x : x \in Settlements' <=> x \in Settlements \/ x = new
    BY <2>1, IsSettled, IsSettledAfter
  <2> HIDE DEF new
  <2>5. OpenIds' = OpenIds \ {new.id} /\ Settlements' = Settlements \cup {new}
    BY <2>3, <2>4
  <2> QED BY <2>2, <2>5
<1> QED BY <1>1, <1>2

\* An empty pool is an empty board,
LEMMA BoardInit == Init => Board!Init
<1> SUFFICES ASSUME Init PROVE Board!Init
  OBVIOUS
<1>1. \A s \in Slots : jobs[s].state = "empty"
  BY DEF Init, EmptyPool
<1>2. OpenIds = {} /\ Settlements = {}
  BY <1>1, IsOpen, IsSettled
<1> QED BY <1>2 DEF Board!Init, OpenIds, Settlements, Init

\* and each step of the pool is one of the board, or none.
LEMMA BoardStep == Inv /\ [Next]_vars => [Board!Next]_(Board!board)
<1> SUFFICES ASSUME TypeOK, Exchange, Numbered, [Next]_vars PROVE [Board!Next]_(Board!board)
  BY DEF Inv
<1>1. ASSUME NEW p \in Plugins, Submit(p) PROVE Board!Next
  <2>1. (nextPluginJobId' - 1) = (nextPluginJobId - 1) + 1 /\ (nextPluginJobId - 1) + 1 = nextPluginJobId
    BY <1>1 DEF Submit, TypeOK
  <2> QED BY <1>1, <2>1, SubmitBoard DEF Board!Next, Board!PutUp, OpenIds, Settlements
<1>2. ASSUME NEW p \in Plugins, Claims(p), UNCHANGED nextPluginJobId PROVE UNCHANGED Board!board
  BY <1>2, ClaimsBoard DEF Board!board, OpenIds, Settlements
<1>3. ASSUME NEW h \in Hand, NEW code \in Codes, Complete(h, code), UNCHANGED nextPluginJobId
      PROVE  [Board!Next]_(Board!board)
  BY <1>3, CompleteBoard DEF Board!Next, Board!Settle, Board!board, OpenIds, Settlements
<1>4. CASE NewSession
  <2>1. \A s \in Slots : jobs'[s].state = "empty"
    BY <1>4 DEF NewSession, EmptyPool
  <2>2. OpenIds' = {} /\ Settlements' = {}
    BY <2>1, IsOpenAfter, IsSettledAfter
  <2> QED BY <1>4, <2>2 DEF NewSession, Board!Next, Board!TakeDown, OpenIds, Settlements
<1>5. CASE UNCHANGED pool
  BY <1>5 DEF pool, Board!board, Open, Done
<1> QED BY <1>1, <1>2, <1>3, <1>4, <1>5, PoolAfter

\* The pool implements the board: a job is open until it is settled, once, and only
\* settled jobs make room for new ones, as long as the session lasts.
THEOREM PoolIsABoard == Spec => BoardIsKept
<1> QED BY BoardInit, BoardStep, Invariant, PTL DEF Spec, Board!Spec, BoardIsKept
=============================================================================
