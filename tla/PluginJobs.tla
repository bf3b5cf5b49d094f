------------------------------ MODULE PluginJobs ------------------------------
(* The job queue for plugins: the pool the web server keeps for a session    *)
(* (handlePluginJobSubmit, -Claim, -Complete) and the pages that claim jobs, *)
(* run them and post what came of them (plugin-host.js), over connections    *)
(* that may break before or after a request is served.                       *)
EXTENDS Integers, FiniteSets

CONSTANTS Runners,       \* open pages that host plugins
          Plugins,
          MaxPluginJobs, \* slots of the pool
          Lease,         \* how long a claim keeps others away
          MaxSubmits,    \* bound: jobs submitted
          MaxTime,       \* bound: ticks of the clock
          MaxFaults,     \* bound: broken connections, closed pages, refusals
          MaxSessions    \* bound: web sessions

ASSUME NumbersAssumption ==
  /\ MaxPluginJobs \in Nat \ {0}
  /\ {Lease, MaxSubmits, MaxTime, MaxFaults, MaxSessions} \subseteq Nat

ASSUME PluginsAssumption == Plugins # {}

VARIABLES
  jobs,                  \* pluginJobs: the slots of the pool
  nextPluginJobId, nextPluginJobClaim,
  now,                   \* millis()
  hand,                  \* what each page works on, or has to post (_pendingCompletion)
  conn,                  \* the request each page waits for, or the answer on its way
  strays,                \* requests whose page no longer waits
  session,               \* history: which web session this is
  crossed,               \* history: a result of an earlier session was recorded in this one
  submits, faults

pool  == <<jobs, nextPluginJobId, nextPluginJobClaim>>
pages == <<hand, conn>>
past  == <<session, crossed>>
tally == <<submits, faults>>
vars  == <<pool, now, pages, strays, past, tally>>

-----------------------------------------------------------------------------
(* Data *)

Slots == 1 .. MaxPluginJobs

\* What came of a job, done or error, is told apart by the execution it came from.
Execution == [session : Nat, claim : Nat]
NoResult  == [session |-> 0, claim |-> 0]

Job == [id : Nat, claim : Nat, updatedAt : Nat, plugin : Plugins, result : Execution,
        state : {"empty", "pending", "running", "finished"}]

\* A page is free, runs a job, or keeps what came of it until it is posted.
\* The session and the time of the claim are history.
Hand   == [step : {"free", "running", "finished"},
           id : Nat, claim : Nat, session : Nat, takenAt : Nat]
NoHand == [step |-> "free", id |-> 0, claim |-> 0, session |-> 0, takenAt |-> 0]

ClaimOf(p)    == [ask |-> "claim", plugin |-> p]
Completion(h) == [ask |-> "complete", hand |-> h]
Requests      == [ask : {"claim"}, plugin : Plugins] \cup [ask : {"complete"}, hand : Hand]

\* Answers: a job or none; "ok", 409 (stale), 404 (no such running job), 400 or 403.
GivenJob(h) == [ask |-> "job", hand |-> h]
Told(code)  == [ask |-> "told", code |-> code]
Codes       == {"ok", "stale", "unknown", "refused"}
Answers     == [ask : {"job"}, hand : Hand] \cup [ask : {"told"}, code : Codes]
Silence     == [ask |-> "none"]

TypeOK ==
  /\ jobs \in [Slots -> Job]
  /\ nextPluginJobId \in Nat \ {0} /\ nextPluginJobClaim \in Nat \ {0}
  /\ now \in Nat /\ session \in Nat /\ {submits, faults} \subseteq Nat /\ crossed \in BOOLEAN
  /\ hand \in [Runners -> Hand]
  /\ conn \in [Runners -> Requests \cup Answers \cup {Silence}]
  /\ strays \subseteq Requests

\* A pool that is not allocated yet answers as an empty one.
EmptyPool == [s \in Slots |->
  [id |-> 0, claim |-> 0, updatedAt |-> 0, plugin |-> CHOOSE p \in Plugins : TRUE,
   result |-> NoResult, state |-> "empty"]]

Init ==
  /\ jobs = EmptyPool
  /\ nextPluginJobId = 1 /\ nextPluginJobClaim = 1
  /\ now = 0 /\ session = 1 /\ crossed = FALSE /\ submits = 0 /\ faults = 0
  /\ hand = [r \in Runners |-> NoHand]
  /\ conn = [r \in Runners |-> Silence]
  /\ strays = {}

-----------------------------------------------------------------------------
(* The pool *)

Empties    == {s \in Slots : jobs[s].state = "empty"}
Recyclable == {s \in Slots : jobs[s].state = "finished"}

\* Mutant: when no slot is empty, the oldest makes room.
AllocOldest(s) ==
  \/ s \in Empties /\ \A t \in Empties : s <= t
  \/ Empties = {} /\ \A t \in Slots : jobs[s].updatedAt <= jobs[t].updatedAt

\* The first empty slot, or else the one that finished first.
Alloc(s) ==
  \/ s \in Empties /\ \A t \in Empties : s <= t
  \/ /\ Empties = {} /\ s \in Recyclable
     /\ \A t \in Recyclable :
          \/ jobs[s].updatedAt < jobs[t].updatedAt
          \/ jobs[s].updatedAt = jobs[t].updatedAt /\ s <= t

\* An outside program submits a job; whether it hears the answer is its business.
Submit(p) ==
  /\ submits < MaxSubmits /\ submits' = submits + 1
  /\ \E s \in Slots :
       /\ Alloc(s)
       /\ jobs' = [jobs EXCEPT ![s] =
            [id |-> nextPluginJobId, claim |-> 0, updatedAt |-> now, plugin |-> p,
             result |-> NoResult, state |-> "pending"]]
  /\ nextPluginJobId' = nextPluginJobId + 1
  /\ UNCHANGED <<nextPluginJobClaim, now, pages, strays, past, faults>>

\* Mutant: a job is running until it is completed.
NeverLapsed(j) == FALSE
\* Mutant: the lease counts from the submission.
HandedUndated(j) == [j EXCEPT !.state = "running", !.claim = nextPluginJobClaim]

Lapsed(j)   == j.state = "running" /\ now - j.updatedAt > Lease
Requeued(j) == IF Lapsed(j) THEN [j EXCEPT !.state = "pending", !.updatedAt = now] ELSE j
Waits(j, p) == j.plugin = p /\ (j.state = "pending" \/ Lapsed(j))
Handed(j)   == [j EXCEPT !.state = "running", !.claim = nextPluginJobClaim, !.updatedAt = now]

\* The slots are walked in order until one has a job for the plugin; leases
\* that have run out on the way are ended.
ClaimFrom(p, s) ==
  /\ Waits(jobs[s], p)
  /\ \A t \in 1 .. s - 1 : ~Waits(jobs[t], p)
  /\ jobs' = [t \in Slots |-> IF t < s THEN Requeued(jobs[t])
                              ELSE IF t = s THEN Handed(jobs[t]) ELSE jobs[t]]
  /\ nextPluginJobClaim' = nextPluginJobClaim + 1

NothingToClaim(p) ==
  /\ \A s \in Slots : ~Waits(jobs[s], p)
  /\ jobs' = [s \in Slots |-> Requeued(jobs[s])]
  /\ UNCHANGED nextPluginJobClaim

Holds(j, h) == j.id = h.id /\ j.state = "running" /\ j.claim = h.claim

Finished(j, h) ==
  [j EXCEPT !.state = "finished", !.updatedAt = now,
            !.result = [session |-> h.session, claim |-> h.claim]]

\* A completion is taken from the claim the job runs under, and only once.
Record(h, s) ==
  /\ Holds(jobs[s], h)
  /\ jobs' = [jobs EXCEPT ![s] = Finished(@, h)]
  /\ crossed' = (crossed \/ h.session # session)

\* What a completion that is not recorded is answered.
Verdict(h, code) ==
  IF \E s \in Slots : jobs[s].id = h.id /\ jobs[s].state = "finished" THEN code = "ok"
  ELSE IF \E s \in Slots : jobs[s].id = h.id /\ jobs[s].state = "running" THEN code = "stale"
  ELSE code = "unknown"

\* Mutant: only the claim handed out last is not stale.
CompleteNewest(h, code) ==
  /\ \/ code = "ok" /\ h.claim = nextPluginJobClaim - 1 /\ \E s \in Slots : Record(h, s)
     \/ /\ h.claim # nextPluginJobClaim - 1 \/ \A s \in Slots : ~Holds(jobs[s], h)
        /\ Verdict(h, code) /\ UNCHANGED <<jobs, crossed>>
  /\ UNCHANGED nextPluginJobClaim

Complete(h, code) ==
  /\ \/ code = "ok" /\ \E s \in Slots : Record(h, s)
     \/ (\A s \in Slots : ~Holds(jobs[s], h)) /\ Verdict(h, code) /\ UNCHANGED <<jobs, crossed>>
  /\ UNCHANGED nextPluginJobClaim

-----------------------------------------------------------------------------
(* A page *)

\* The bound on faults leaves the lease of a claim they spoil time to run out.
RoomForLease == now + Lease < MaxTime
Fault == faults < MaxFaults /\ RoomForLease /\ faults' = faults + 1

Answer(r, a) == conn' = [conn EXCEPT ![r] = a]

\* Between polls, and between the plugins of one poll, a page with nothing to
\* post asks for a job of one of its plugins.
SendClaim(r, p) ==
  /\ hand[r].step = "free" /\ conn[r] = Silence
  /\ Answer(r, ClaimOf(p))
  /\ UNCHANGED <<pool, now, hand, strays, past, tally>>

TakesJob(r) ==
  /\ conn[r].ask = "job"
  /\ hand' = [hand EXCEPT ![r] = conn[r].hand]
  /\ Answer(r, Silence)
  /\ UNCHANGED <<pool, now, strays, past, tally>>

\* The plugin's function returns or throws.
RunsAction(r) ==
  /\ hand[r].step = "running"
  /\ hand' = [hand EXCEPT ![r].step = "finished"]
  /\ UNCHANGED <<pool, now, conn, strays, past, tally>>

SendCompletion(r) ==
  /\ hand[r].step = "finished" /\ conn[r] = Silence
  /\ Answer(r, Completion(hand[r]))
  /\ UNCHANGED <<pool, now, hand, strays, past, tally>>

\* Any verdict is final: a page does not post that completion again.
HearsVerdict(r) ==
  /\ conn[r].ask = "told"
  /\ hand' = [hand EXCEPT ![r] = NoHand]
  /\ Answer(r, Silence)
  /\ UNCHANGED <<pool, now, strays, past, tally>>

Unserved(r) == conn[r].ask \in {"claim", "complete"}

\* What is left of a request its page gives up: nothing, or it is served later.
Abandoned(r) ==
  \/ UNCHANGED strays
  \/ Unserved(r) /\ strays' = strays \cup {conn[r]}

FetchFails(r) ==
  /\ conn[r] # Silence /\ Fault
  /\ Abandoned(r)
  /\ Answer(r, Silence)
  /\ UNCHANGED <<pool, now, hand, past, submits>>

\* A page is closed, or opened anew.
PageCloses(r) ==
  /\ hand[r].step # "free" \/ conn[r] # Silence
  /\ Fault
  /\ Abandoned(r)
  /\ hand' = [hand EXCEPT ![r] = NoHand]
  /\ Answer(r, Silence)
  /\ UNCHANGED <<pool, now, past, submits>>

-----------------------------------------------------------------------------
(* The server serves one request at a time *)

ServeClaim(r) ==
  /\ conn[r].ask = "claim"
  /\ \/ \E s \in Slots :
          /\ ClaimFrom(conn[r].plugin, s)
          /\ Answer(r, GivenJob([step |-> "running", id |-> jobs[s].id,
               claim |-> nextPluginJobClaim, session |-> session, takenAt |-> now]))
     \/ NothingToClaim(conn[r].plugin) /\ Answer(r, Silence)
  /\ UNCHANGED <<nextPluginJobId, now, hand, strays, past, tally>>

ServeCompletion(r) ==
  /\ conn[r].ask = "complete"
  /\ \E code \in Codes : Complete(conn[r].hand, code) /\ Answer(r, Told(code))
  /\ UNCHANGED <<nextPluginJobId, now, hand, strays, session, tally>>

\* No memory for the body (400), or plugins are disabled by now (403).
RefuseCompletion(r) ==
  /\ conn[r].ask = "complete" /\ Fault
  /\ Answer(r, Told("refused"))
  /\ UNCHANGED <<pool, now, hand, strays, past, submits>>

ServeStray(q) ==
  /\ q \in strays
  /\ strays' = strays \ {q}
  /\ \/ /\ q.ask = "claim" /\ RoomForLease
        /\ (\E s \in Slots : ClaimFrom(q.plugin, s)) \/ NothingToClaim(q.plugin)
        /\ UNCHANGED crossed
     \/ q.ask = "complete" /\ \E code \in Codes : Complete(q.hand, code)
  /\ UNCHANGED <<nextPluginJobId, now, pages, session, tally>>

\* The user leaves the web server's screen and enters it again: a new server
\* with a new pool.  Requests of the old one break, the pages stay open.
NewSession ==
  /\ session < MaxSessions
  /\ session' = session + 1 /\ crossed' = FALSE
  /\ jobs' = EmptyPool
  /\ nextPluginJobId' = 1 /\ nextPluginJobClaim' = 1
  /\ conn' = [r \in Runners |-> IF Unserved(r) THEN Silence ELSE conn[r]]
  /\ strays' = {}
  /\ UNCHANGED <<now, hand, tally>>

Tick ==
  /\ now < MaxTime
  /\ now' = now + 1
  /\ UNCHANGED <<pool, pages, strays, past, tally>>

-----------------------------------------------------------------------------
(* Specification *)

Work(r)  == TakesJob(r) \/ RunsAction(r) \/ SendCompletion(r) \/ HearsVerdict(r)
Serve(r) == ServeClaim(r) \/ ServeCompletion(r)
Page(r)  == (\E p \in Plugins : SendClaim(r, p)) \/ Work(r) \/ FetchFails(r) \/ PageCloses(r)

Server ==
  \/ \E p \in Plugins : Submit(p)
  \/ \E r \in Runners : Serve(r) \/ RefuseCompletion(r)
  \/ \E q \in strays : ServeStray(q)
  \/ NewSession

Next == (\E r \in Runners : Page(r)) \/ Server \/ Tick

Spec == Init /\ [][Next]_vars

\* The server serves, time passes, and a page that is open goes on: it polls
\* for each of its plugins, runs what it is given and posts what came of it.
Fairness ==
  /\ WF_vars(Tick)
  /\ \A r \in Runners :
       /\ \A p \in Plugins : SF_vars(SendClaim(r, p))
       /\ WF_vars(Work(r) \/ Serve(r))

FairSpec == Spec /\ Fairness

-----------------------------------------------------------------------------
(* Properties *)

\* A page that runs a job and is within its lease still holds it: what it will
\* post is taken, and no other page was given the job (handlePluginJobClaim).
\* It does not hold once a result of an earlier session was taken for this one's.
InTimeIsTaken ==
  \A r \in Runners :
    /\ hand[r].step = "running" /\ hand[r].session = session
    /\ now - hand[r].takenAt <= Lease
    /\ ~crossed
    => \E s \in Slots : Holds(jobs[s], hand[r])

\* A page never throws a result away that its job waits for, unless it was
\* refused: not when an answer was lost, not when it was late (_sendCompletion).
NoResultThrownAway ==
  [][\A r \in Runners :
       /\ hand[r].session = session
       /\ hand[r].step = "finished" /\ hand'[r].step = "free"
       /\ conn[r].ask = "told" /\ conn[r].code # "refused"
       => \A s \in Slots : ~Holds(jobs[s], hand[r])]_vars

Open == {j \in {jobs[s] : s \in Slots} : j.state \in {"pending", "running"}}
Done == {j \in {jobs[s] : s \in Slots} : j.state = "finished"}

\* To a caller the pool is a board: a job is open until it is settled, once,
\* and only settled jobs make room for new ones (allocPluginJob).
Board == INSTANCE JobBoard WITH
  Results <- Execution,
  last    <- nextPluginJobId - 1,
  open    <- {j.id : j \in Open},
  settled <- {[id |-> j.id, result |-> j.result] : j \in Done}

BoardIsKept == Board!Spec

\* Every job is settled in the end, whatever page it was given to, or its
\* session ends (docs/sd-plugins.md: a claim is not kept for ever).
JobsFinish ==
  \A i \in 1 .. MaxSubmits : (i \in {j.id : j \in Open}) ~> (i \notin {j.id : j \in Open})
=============================================================================
