------------------------------ MODULE GraphJobs ------------------------------
(***************************************************************************)
(* The durable Graph job queue of app/storage.py.                          *)
(*                                                                         *)
(* The state is the rows of the SQLite tables the queue lives in; every    *)
(* action is one store transaction (BEGIN IMMEDIATE ... COMMIT), which     *)
(* SQLite makes atomic between processes and Store._lock between threads.  *)
(* The clients are left open: any caller may issue any operation, with any *)
(* job and any lease owner, at any moment.  GraphRuntime closes the system *)
(* with the workers the program really has.                                *)
(*                                                                         *)
(* A row that does not exist is an id outside the DOMAIN of its table.     *)
(***************************************************************************)
EXTENDS Integers, FiniteSets

CONSTANTS
  Sessions,        \* chat sessions
  Owners,          \* lease owners (one uuid per claim)
  NoOwner,         \* lease_owner IS NULL
  MaxAttempts,     \* GRAPH_JOB_MAX_ATTEMPTS
  LeaseSeconds,    \* lease_seconds
  BaseDelay,       \* first retry delay (60 s)
  MaxDelay,        \* longest retry delay (3600 s)
  Inactivity,      \* inactivity_hours of the active profile
  Movable,         \* sessions whose group may change between readable and not
  Erasable,        \* exchange ids an admin may delete and restore
  MaxTime,         \* bound: the clock stops here
  MaxExchanges,    \* bound: exchange rows ever saved
  MaxJobs,         \* bound: job rows ever inserted
  MaxProfiles      \* bound: profiles ever activated

ASSUME GraphJobsAssumption ==
  /\ IsFiniteSet(Sessions)
  /\ NoOwner \notin Owners
  /\ Movable \subseteq Sessions
  /\ Erasable \subseteq Nat
  /\ MaxAttempts \in Nat \ {0}
  /\ LeaseSeconds \in Nat \ {0}
  /\ BaseDelay \in Nat
  /\ MaxDelay \in Nat
  /\ Inactivity \in Nat
  /\ MaxTime \in Nat
  /\ MaxExchanges \in Nat
  /\ MaxJobs \in Nat
  /\ MaxProfiles \in Nat \ {0}

VARIABLES
  now,         \* time.time()
  enabled,     \* app_settings[graph_enabled] = "true"
  profile,     \* app_settings[graph_active_profile_id]
  excluded,    \* sessions the active profile may not read (sensitive or deleted group)
  exchanges,   \* exchanges: id -> [session, at, deleted]
  jobs,        \* graph_jobs: job_id -> row
  nextJob,     \* AUTOINCREMENT of graph_jobs: ids are never reused
  extractions, \* graph_extractions, by their UNIQUE job_id
  current      \* graph_session_current: session -> the job whose extraction is current

queue   == <<jobs, nextJob, extractions, current>>
content == <<profile, excluded, exchanges>>
store   == <<now, enabled, content, queue>>

Status == {"queued", "running", "retryable_failed", "completed",
           "terminal_failed", "interrupted"}
Final  == {"completed", "terminal_failed", "interrupted"}

Exchange   == [session : Sessions, at : Nat, deleted : BOOLEAN]
Extraction == [session : Sessions, source : Nat, profile : Nat]
Job == [status : Status, session : Sessions, source : Nat, profile : Nat,
        attempts : Nat, available : Nat, owner : Owners \cup {NoOwner}, lease : Nat]

TypeOK ==
  /\ now \in Nat
  /\ enabled \in BOOLEAN
  /\ profile \in Nat
  /\ excluded \subseteq Sessions
  /\ DOMAIN exchanges \subseteq 1..MaxExchanges
  /\ exchanges \in [DOMAIN exchanges -> Exchange]
  /\ nextJob \in Nat \ {0}
  /\ DOMAIN jobs \subseteq 1..(nextJob - 1)
  /\ jobs \in [DOMAIN jobs -> Job]
  /\ DOMAIN extractions \subseteq DOMAIN jobs
  /\ extractions \in [DOMAIN extractions -> Extraction]
  /\ DOMAIN current \subseteq Sessions
  /\ current \in [DOMAIN current -> DOMAIN extractions]

Init ==
  /\ now = 0
  /\ enabled = FALSE
  /\ profile = 1
  /\ excluded = {}
  /\ exchanges = << >>
  /\ jobs = << >>
  /\ nextJob = 1
  /\ extractions = << >>
  /\ current = << >>

(***************************************************************************)
(* The conditions of the SQL statements.                                   *)
(***************************************************************************)

Running(j) == jobs[j].status = "running"
Live(j)    == Running(j) /\ jobs[j].lease > now
Lapsed(j)  == Running(j) /\ jobs[j].lease <= now

\* Mutants of Holds: the lease is not looked at; the lease owner is not looked at.
HoldsByOwner(o, j) == j \in DOMAIN jobs /\ Running(j) /\ jobs[j].owner = o
HoldsByLease(o, j) == j \in DOMAIN jobs /\ Live(j)

\* The caller still owns the job: the guard of renew, publish and fail.
Holds(o, j) == j \in DOMAIN jobs /\ Live(j) /\ jobs[j].owner = o

\* Mutants of Claimable: a lapsed job is taken over without counting its attempts,
\* is never taken over; an interrupted job is handed out again.
ClaimableForever(j) ==
  \/ jobs[j].status \in {"queued", "retryable_failed"} /\ jobs[j].available <= now
  \/ Lapsed(j)
ClaimableOnce(j) ==
  /\ jobs[j].status \in {"queued", "retryable_failed"}
  /\ jobs[j].available <= now
ClaimableAgain(j) ==
  \/ jobs[j].status \in {"queued", "interrupted"} /\ jobs[j].available <= now
  \/ Lapsed(j) /\ jobs[j].attempts < MaxAttempts

Claimable(j) ==
  \/ /\ jobs[j].status = "queued"
     /\ jobs[j].available <= now
  \/ /\ jobs[j].status = "retryable_failed"
     /\ jobs[j].available <= now
     /\ jobs[j].attempts < MaxAttempts
  \/ /\ Lapsed(j)
     /\ jobs[j].attempts < MaxAttempts

\* ORDER BY available_at, job_id
Before(j, k) ==
  \/ jobs[j].available < jobs[k].available
  \/ jobs[j].available = jobs[k].available /\ j <= k

RetryDelay(attempts) ==
  LET delay == BaseDelay * 2 ^ (attempts - 1)
  IN  IF delay \in 0..MaxDelay THEN delay ELSE MaxDelay

\* A row that gives up its lease for the given status.
Release(job, status) == [job EXCEPT !.status = status, !.owner = NoOwner, !.lease = 0]

(***************************************************************************)
(* Candidates of a scan.  A session is represented by its newest exchange  *)
(* that is not deleted, the job's source.                                  *)
(***************************************************************************)

SameSession(e, f) == exchanges[e].session = exchanges[f].session

LiveExchanges == {e \in DOMAIN exchanges : ~exchanges[e].deleted}

Candidates ==
  {e \in LiveExchanges :
     /\ exchanges[e].session \notin excluded
     /\ \A f \in LiveExchanges : SameSession(e, f) => f <= e}

Inactive(e) ==
  \A f \in LiveExchanges : SameSession(e, f) => exchanges[f].at + Inactivity <= now

HasJob(e) ==
  \E j \in DOMAIN jobs : /\ jobs[j].session = exchanges[e].session
                         /\ jobs[j].source = e
                         /\ jobs[j].profile = profile

QueuedJob(e, at) ==
  [status |-> "queued", session |-> exchanges[e].session, source |-> e,
   profile |-> profile, attempts |-> 0, available |-> at,
   owner |-> NoOwner, lease |-> 0]

\* The insertion orders of a set of candidates: ids are handed out in sequence,
\* in an order (last activity, session id) the properties do not depend on.
Numberings(E) ==
  {num \in [nextJob .. (nextJob + Cardinality(E) - 1) -> E] :
     \A j, k \in DOMAIN num : num[j] = num[k] => j = k}

\* INSERT one queued row per candidate of E next to the rows of kept.
InsertQueued(kept, E, at) ==
  /\ nextJob + Cardinality(E) - 1 <= MaxJobs
  /\ \E num \in Numberings(E) :
       jobs' = [j \in DOMAIN kept \cup DOMAIN num |->
                  IF j \in DOMAIN num THEN QueuedJob(num[j], at) ELSE kept[j]]
  /\ nextJob' = nextJob + Cardinality(E)

-----------------------------------------------------------------------------
(***************************************************************************)
(* The clock, and the parts of the store that feed the queue.              *)
(***************************************************************************)

Tick ==
  /\ now < MaxTime
  /\ now' = now + 1
  /\ UNCHANGED <<enabled, content, queue>>

SaveExchange(s) ==
  LET e == Cardinality(DOMAIN exchanges) + 1
      row == [session |-> s, at |-> now, deleted |-> FALSE]
  IN  /\ e <= MaxExchanges
      /\ exchanges' = [f \in DOMAIN exchanges \cup {e} |->
                         IF f = e THEN row ELSE exchanges[f]]
      /\ UNCHANGED <<now, enabled, profile, excluded, queue>>

\* delete_exchange and restore_exchange of the admin interface.
MarkExchange(e, deleted) ==
  /\ exchanges[e].deleted # deleted
  /\ exchanges' = [exchanges EXCEPT ![e].deleted = deleted]
  /\ UNCHANGED <<now, enabled, profile, excluded, queue>>

\* A session moves in or out of the groups the active profile may read.
SetExcluded(S) ==
  /\ excluded' = S
  /\ UNCHANGED <<now, enabled, profile, exchanges, queue>>

ActivateProfile ==
  /\ profile < MaxProfiles
  /\ profile' = profile + 1
  /\ UNCHANGED <<now, enabled, excluded, exchanges, queue>>

(***************************************************************************)
(* The queue.                                                              *)
(***************************************************************************)

\* Mutant of SetEnabled: the rows keep running.
SetEnabledOnly(value) ==
  /\ enabled' = value
  /\ UNCHANGED <<now, content, queue>>

SetEnabled(value) ==
  /\ enabled' = value
  /\ jobs' = [j \in DOMAIN jobs |->
                IF ~value /\ Running(j) THEN Release(jobs[j], "interrupted") ELSE jobs[j]]
  /\ UNCHANGED <<now, content, nextJob, extractions, current>>

Enqueue ==
  /\ enabled
  /\ InsertQueued(jobs, {e \in Candidates : Inactive(e) /\ ~HasJob(e)}, now)
  /\ UNCHANGED <<now, enabled, content, extractions, current>>

\* Mutant of ResetScan: the current analyses stay.
ResetScanKeepingCurrent ==
  /\ enabled
  /\ \A j \in DOMAIN jobs : Running(j) => jobs[j].lease <= now
  /\ InsertQueued(<< >>, Candidates, now)
  /\ extractions' = << >>
  /\ UNCHANGED <<now, enabled, content, current>>

\* The old rows go; the new ones wait out the longest lease still running.
ResetScan ==
  /\ enabled
  /\ \E fresh \in {now} \cup {jobs[j].lease : j \in {k \in DOMAIN jobs : Running(k)}} :
       /\ fresh >= now
       /\ \A j \in DOMAIN jobs : Running(j) => jobs[j].lease <= fresh
       /\ InsertQueued(<< >>, Candidates, fresh)
  /\ extractions' = << >>
  /\ current' = << >>
  /\ UNCHANGED <<now, enabled, content>>

\* The first statement of a claim: a last attempt whose lease ran out has failed.
SweepExhausted ==
  [j \in DOMAIN jobs |->
     IF Lapsed(j) /\ jobs[j].attempts >= MaxAttempts
     THEN Release(jobs[j], "terminal_failed") ELSE jobs[j]]

NothingToClaim ==
  (\E j \in DOMAIN jobs : Live(j)) \/ (\A j \in DOMAIN jobs : ~Claimable(j))

ClaimNone ==
  /\ enabled
  /\ NothingToClaim
  /\ jobs' = SweepExhausted
  /\ UNCHANGED <<now, enabled, content, nextJob, extractions, current>>

\* Mutants of Claim: nobody asks whether a job is running, which one is due first.
ClaimBesideOthers(o, j) ==
  /\ enabled
  /\ Claimable(j)
  /\ jobs' = [jobs EXCEPT ![j] = [@ EXCEPT !.status = "running", !.attempts = @ + 1,
                                          !.owner = o, !.lease = now + LeaseSeconds]]
  /\ UNCHANGED <<now, enabled, content, nextJob, extractions, current>>
ClaimInAnyOrder(o, j) ==
  /\ enabled
  /\ \A k \in DOMAIN jobs : ~Live(k)
  /\ Claimable(j)
  /\ jobs' = [SweepExhausted EXCEPT
                ![j] = [jobs[j] EXCEPT !.status = "running", !.attempts = @ + 1,
                                       !.owner = o, !.lease = now + LeaseSeconds]]
  /\ UNCHANGED <<now, enabled, content, nextJob, extractions, current>>

Claim(o, j) ==
  /\ enabled
  /\ \A k \in DOMAIN jobs : ~Live(k)
  /\ Claimable(j)
  /\ \A k \in DOMAIN jobs : Claimable(k) => Before(j, k)
  /\ jobs' = [SweepExhausted EXCEPT
                ![j] = [jobs[j] EXCEPT !.status = "running",
                                       !.attempts = @ + 1,
                                       !.owner = o,
                                       !.lease = now + LeaseSeconds]]
  /\ UNCHANGED <<now, enabled, content, nextJob, extractions, current>>

Renew(o, j) ==
  /\ Holds(o, j)
  /\ jobs' = [jobs EXCEPT ![j].lease = now + LeaseSeconds]
  /\ UNCHANGED <<now, enabled, content, nextJob, extractions, current>>

Publish(o, j) ==
  /\ Holds(o, j)
  /\ j \notin DOMAIN extractions     \* UNIQUE(job_id)
  /\ extractions' =
       [k \in DOMAIN extractions \cup {j} |->
          IF k = j THEN [session |-> jobs[j].session, source |-> jobs[j].source,
                         profile |-> jobs[j].profile]
          ELSE extractions[k]]
  /\ current' = [s \in DOMAIN current \cup {jobs[j].session} |->
                   IF s = jobs[j].session THEN j ELSE current[s]]
  /\ jobs' = [jobs EXCEPT ![j] = Release(@, "completed")]
  /\ UNCHANGED <<now, enabled, content, nextJob>>

\* Mutants of Fail: the report of a worker that lost the job still counts; the
\* last attempt but one is already the last.
FailUnowned(o, j, retryable) ==
  /\ j \in DOMAIN jobs
  /\ jobs' = [jobs EXCEPT ![j] =
       Release(@, IF retryable /\ @.attempts < MaxAttempts
                  THEN "retryable_failed" ELSE "terminal_failed")]
  /\ UNCHANGED <<now, enabled, content, nextJob, extractions, current>>
FailEarly(o, j, retryable) ==
  /\ Holds(o, j)
  /\ jobs' = [jobs EXCEPT ![j] =
       Release(@, IF retryable /\ @.attempts + 1 < MaxAttempts
                  THEN "retryable_failed" ELSE "terminal_failed")]
  /\ UNCHANGED <<now, enabled, content, nextJob, extractions, current>>

Fail(o, j, retryable) ==
  /\ Holds(o, j)
  /\ jobs' = [jobs EXCEPT ![j] =
       [Release(@, IF retryable /\ @.attempts < MaxAttempts
                   THEN "retryable_failed" ELSE "terminal_failed")
          EXCEPT !.available = now + RetryDelay(jobs[j].attempts)]]
  /\ UNCHANGED <<now, enabled, content, nextJob, extractions, current>>

ContentNext ==
  \/ \E s \in Sessions : SaveExchange(s)
  \/ \E e \in DOMAIN exchanges \cap Erasable, deleted \in BOOLEAN : MarkExchange(e, deleted)
  \/ \E S \in SUBSET Movable : SetExcluded(S)
  \/ ActivateProfile

QueueNext ==
  \/ \E value \in BOOLEAN : SetEnabled(value)
  \/ Enqueue
  \/ ResetScan
  \/ ClaimNone
  \/ \E o \in Owners, j \in DOMAIN jobs :
       \/ Claim(o, j)
       \/ Renew(o, j)
       \/ Publish(o, j)
       \/ \E retryable \in BOOLEAN : Fail(o, j, retryable)

Next == Tick \/ ContentNext \/ QueueNext

Spec == Init /\ [][Next]_store

-----------------------------------------------------------------------------
(***************************************************************************)
(* What the queue promises whatever its callers do.                        *)
(***************************************************************************)

\* At no moment do two rows hold a lease that has not run out, across the claims,
\* renewals and rescans of several processes.  It speaks of rows, not of the process that
\* still works on a row a rescan has deleted.
AtMostOneLive ==
  \A j, k \in DOMAIN jobs : Live(j) /\ Live(k) => j = k

\* A job is handed out at most MaxAttempts times, however its attempts end
\* (failure, lease that runs out, worker that disappears).
AttemptsBounded ==
  \A j \in DOMAIN jobs :
    /\ jobs[j].attempts <= MaxAttempts
    /\ Running(j) => jobs[j].attempts > 0
    /\ jobs[j].status = "queued" => jobs[j].attempts = 0
    /\ jobs[j].status = "retryable_failed" => jobs[j].attempts < MaxAttempts

\* The completed jobs are exactly the jobs with a stored extraction, and the
\* extraction is of the conversation the job was queued for.
CompletedIffExtracted ==
  \A j \in DOMAIN jobs :
    /\ jobs[j].status = "completed" <=> j \in DOMAIN extractions
    /\ j \in DOMAIN extractions =>
         extractions[j] = [session |-> jobs[j].session, source |-> jobs[j].source,
                           profile |-> jobs[j].profile]

\* While Graph is off no row is running: the switch and a claim are transactions of
\* their own and cannot cross.  A lemma for what is said of the workers (OffKeepsOut):
\* their processes may still work (IdleWhileOff of GraphRuntime).
OffMeansIdle == ~enabled => \A j \in DOMAIN jobs : ~Running(j)

\* A job that reached its end never changes again (until a rescan deletes it):
\* a late answer neither revives it nor replaces its outcome.
FinalStays ==
  [][\A j \in DOMAIN jobs \cap DOMAIN jobs' :
       jobs[j].status \in Final => jobs'[j] = jobs[j]]_store

\* The analysis a session shows is replaced only by that of a job that came due later,
\* or of one that had to be tried again: whoever claims, loses and publishes jobs, and
\* whatever is queued in between, a first attempt never arrives late.
LaterAnalysisStays ==
  [][\A s \in DOMAIN current \cap DOMAIN current' :
       LET j == current'[s]
       IN  j # current[s] => Before(current[s], j) \/ jobs[j].attempts > 1]_store

(***************************************************************************)
(* The rows, seen as the ledger.                                           *)
(***************************************************************************)

OpenJobs == {j \in DOMAIN jobs : jobs[j].status \notin Final}
Holders  == {<<j, jobs[j].owner>> : j \in {k \in DOMAIN jobs : Live(k)}}

Ledger == INSTANCE GraphLedger WITH
            Clients <- Owners, next <- nextJob, open <- OpenJobs,
            holders <- Holders, done <- DOMAIN extractions

\* Whatever the callers do and however leases run out, the queue behaves like a
\* ledger of jobs with one holder, where only the holder completes a job.
ImplementsLedger == Ledger!Spec
=============================================================================
