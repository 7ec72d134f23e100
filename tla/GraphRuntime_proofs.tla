-------------------------- MODULE GraphRuntime_proofs --------------------------
(* Theorems about the Graph workers, for every value of their constants. *)
EXTENDS GraphRuntime, GraphJobs_proofs

(***************************************************************************)
(* The workers use the queue as modelled.                                  *)
(***************************************************************************)

AtWork == Stages \ {"idle", "claiming"}

\* The types of the workers, and what a runtime has in hand at each stage.
WorkerOK ==
  /\ pc \in [Runtimes -> Stages]
  /\ job \in [Runtimes -> Nat \cup {NoJob}]
  /\ owner \in [Runtimes -> Owners \cup {NoOwner}]
  /\ calls \subseteq Call
  /\ disabling \subseteq Runtimes
  /\ resetting \in [Runtimes -> {"no", "waiting", "cancelled"}]
  /\ granted \in [Runtimes -> Nat]
  /\ disturbances \in Nat
  /\ \A r \in Runtimes :
       IF pc[r] \in AtWork THEN job[r] \in 1..(nextJob - 1) /\ owner[r] \in Owners
       ELSE owner[r] = NoOwner

\* Every step of the workers is a step of the queue or leaves the store alone.
LEMMA StoreStep ==
  ASSUME TypeOK, WorkerOK, [RuntimeNext]_vars
  PROVE  [Next]_store
<1>1. CASE Outside
  BY <1>1 DEF Outside, Next
<1>2. CASE Enable
  BY <1>2 DEF Enable, Next, QueueNext
<1>3. ASSUME NEW r \in Runtimes, RunOnce(r) PROVE [Next]_store
  <2>1. CASE BeginRun(r)
    BY <2>1 DEF BeginRun, Next, QueueNext
  <2>2. CASE ClaimJob(r)
    BY <2>2 DEF ClaimJob, Next, QueueNext
  <2>3. CASE ClaimNothing(r)
    BY <2>3 DEF ClaimNothing, Next, QueueNext
  <2>4. CASE CreateTask(r) \/ BeginTask(r) \/ Extracted(r) \/ NotExtracted(r)
    BY <2>4 DEF CreateTask, BeginTask, Extracted, NotExtracted
  <2>5. QED
    BY <1>3, <2>1, <2>2, <2>3, <2>4 DEF RunOnce
<1>4. ASSUME NEW r \in Runtimes, Heartbeat(r) PROVE [Next]_store
  BY <1>4 DEF Heartbeat
<1>5. ASSUME NEW r \in Runtimes, Admin(r) PROVE [Next]_store
  <2>1. CASE Disable(r)
    BY <2>1 DEF Disable, Next, QueueNext
  <2>2. CASE Reset(r)
    BY <2>2 DEF Reset, Next, QueueNext
  <2>3. CASE \/ DisableCancels(r) \/ RequestReset(r) \/ ResetCancels(r)
             \/ Shutdown(r) \/ Crash(r)
    BY <2>3 DEF DisableCancels, RequestReset, ResetCancels, Shutdown, Crash
  <2>4. QED
    BY <1>5, <2>1, <2>2, <2>3 DEF Admin
<1>6. ASSUME NEW c \in calls, Answer(c) PROVE [Next]_store
  <2>1. c.owner \in Owners /\ (c.why \notin {"invalid", "rejected"}) \in BOOLEAN
    BY DEF WorkerOK, Call
  <2>2. CASE Published(c)
    BY <2>1, <2>2 DEF Published, Publish, Holds, Next, QueueNext
  <2>3. CASE Failed(c)
    BY <2>1, <2>3 DEF Failed, Fail, Holds, Next, QueueNext
  <2>4. CASE Renewed(c)
    BY <2>1, <2>4 DEF Renewed, Renew, Holds, Next, QueueNext
  <2>5. CASE PublishRejected(c) \/ PublishAborted(c) \/ NotRenewed(c)
    BY <2>5 DEF PublishRejected, PublishAborted, NotRenewed
  <2>6. QED
    BY <1>6, <2>2, <2>3, <2>4, <2>5 DEF Answer
<1>7. CASE UNCHANGED vars
  BY <1>7 DEF vars
<1>8. QED
  BY <1>1, <1>2, <1>3, <1>4, <1>5, <1>6, <1>7 DEF RuntimeNext

\* Job numbers are never reused, so what a runtime has in hand stays below them.
LEMMA NumbersGrow ==
  ASSUME TypeOK, [Next]_store
  PROVE  nextJob' \in Nat /\ nextJob' >= nextJob
<1>0. nextJob \in Nat
  BY DEF TypeOK
<1>1. CASE Enqueue
  BY <1>1, InsertedRows DEF Enqueue, Candidates, LiveExchanges, TypeOK
<1>2. CASE ResetScan
  <2>1. PICK fresh : InsertQueued(<< >>, Candidates, fresh)
    BY <1>2 DEF ResetScan
  <2>2. Cardinality(Candidates) \in Nat
    BY ExchangesFinite DEF Candidates, LiveExchanges
  <2>3. QED
    BY <1>0, <2>1, <2>2 DEF InsertQueued
<1>3. CASE ~Enqueue /\ ~ResetScan
  <2>1. nextJob' = nextJob
    BY <1>3 DEF Next, Tick, ContentNext, SaveExchange, MarkExchange, SetExcluded,
                ActivateProfile, QueueNext, SetEnabled, ClaimNone, Claim, Renew, Publish,
                Fail, store, queue
  <2>2. QED
    BY <1>0, <2>1
<1>4. QED
  BY <1>1, <1>2, <1>3

\* What the workers' moves do to what they have in hand.
LEMMA FinishOK ==
  ASSUME WorkerOK, NEW r \in Runtimes, Finish(r), nextJob' \in Nat, nextJob' >= nextJob,
         nextJob \in Nat, calls' \subseteq Call, disabling' \subseteq Runtimes,
         disturbances' \in Nat
  PROVE  WorkerOK'
BY DEF WorkerOK, Finish, AtWork, Stages

\* A runtime with a job in hand moves on with it.
LEMMA GotoOK ==
  ASSUME WorkerOK, NEW r \in Runtimes, NEW stage \in AtWork, pc[r] \in AtWork,
         Goto(r, stage), nextJob' \in Nat, nextJob' >= nextJob, nextJob \in Nat,
         calls' \subseteq Call, disabling' \subseteq Runtimes, disturbances' \in Nat,
         resetting' \in [Runtimes -> {"no", "waiting", "cancelled"}]
  PROVE  WorkerOK'
<1>1. pc' \in [Runtimes -> Stages] /\ UNCHANGED <<job, owner, granted>>
  BY DEF WorkerOK, Goto, AtWork
<1>2. ASSUME NEW q \in Runtimes
      PROVE  IF pc'[q] \in AtWork THEN job[q] \in 1..(nextJob' - 1) /\ owner[q] \in Owners
             ELSE owner[q] = NoOwner
  <2>1. pc'[q] \in AtWork <=> pc[q] \in AtWork
    BY DEF WorkerOK, Goto
  <2>2. job[q] \in 1..(nextJob - 1) => job[q] \in 1..(nextJob' - 1)
    OBVIOUS
  <2>3. QED
    BY <2>1, <2>2 DEF WorkerOK
<1>3. QED
  BY <1>1, <1>2 DEF WorkerOK

\* Steps that leave every runtime where it is keep what it has in hand well typed.
LEMMA StayOK ==
  ASSUME WorkerOK, UNCHANGED worker, nextJob' \in Nat, nextJob' >= nextJob, nextJob \in Nat,
         granted' \in [Runtimes -> Nat],
         calls' \subseteq Call, disabling' \subseteq Runtimes, disturbances' \in Nat,
         resetting' \in [Runtimes -> {"no", "waiting", "cancelled"}]
  PROVE  WorkerOK'
BY DEF WorkerOK, worker

\* The calls a runtime makes are calls.
LEMMA MyCallOK ==
  ASSUME WorkerOK, NEW r \in Runtimes, pc[r] \in AtWork,
         NEW op \in {"publish", "fail", "renew"}, NEW why \in Reasons \cup {"none"},
         nextJob \in Nat
  PROVE  MyCall(r, op, why) \in Call
BY DEF WorkerOK, MyCall, Call

\* Starting a fail call keeps the worker types.
LEMMA StartFailOK ==
  ASSUME WorkerOK, NEW r \in Runtimes, pc[r] \in AtWork, NEW C \in SUBSET Call,
         NEW why \in Reasons, NEW reset \in [Runtimes -> {"no", "waiting", "cancelled"}],
         StartFail(r, C, why, reset), UNCHANGED nextJob, nextJob \in Nat,
         disabling' \subseteq Runtimes, disturbances' \in Nat
  PROVE  WorkerOK'
<1>1. MyCall(r, "fail", why) \in Call
  BY MyCallOK
<1>2. calls' \subseteq Call /\ Goto(r, "failing") /\ resetting' = reset
  BY <1>1 DEF StartFail
<1>3. QED
  BY <1>2, GotoOK DEF AtWork, Stages

\* Cancelling a task keeps the worker types, whatever stage it finds the task in.
LEMMA CancelTaskOK ==
  ASSUME WorkerOK, NEW r \in Runtimes, Active(r), NEW C \in SUBSET Call,
         NEW reset \in [Runtimes -> {"no", "waiting", "cancelled"}],
         CancelTask(r, C, reset), UNCHANGED nextJob, nextJob \in Nat,
         disabling' \subseteq Runtimes, disturbances' \in Nat
  PROVE  WorkerOK'
<1>0. pc[r] \in AtWork
  BY DEF Active, AtWork, Stages
<1>1. CASE StartFail(r, C, "interrupted", reset)
  BY <1>0, <1>1, StartFailOK DEF Reasons
<1>2. CASE Finish(r) /\ calls' = C
  BY <1>2, FinishOK
<1>3. QED
  BY <1>1, <1>2 DEF CancelTask

\* The end of a publish call keeps the worker types, whatever its outcome.
LEMMA AfterPublishOK ==
  ASSUME WorkerOK, NEW c \in calls, NEW why \in Reasons \cup {"none"}, AfterPublish(c, why),
         UNCHANGED <<nextJob, disabling, disturbances>>, nextJob \in Nat
  PROVE  WorkerOK'
<1>0. c.by \in Runtimes /\ calls \ {c} \subseteq Call /\ calls \ {c} \in SUBSET Call
  BY DEF WorkerOK, Call
<1>1. CASE Awaited(c) /\ pc[c.by] = "publishing" /\ why = "none"
  BY <1>0, <1>1, FinishOK DEF AfterPublish, WorkerOK
<1>2. CASE Awaited(c) /\ pc[c.by] = "publishing" /\ why # "none"
  <2>1. StartFail(c.by, calls \ {c}, why, resetting) /\ why \in Reasons
    BY <1>2 DEF AfterPublish
  <2>2. pc[c.by] \in AtWork
    BY <1>2 DEF AtWork, Stages
  <2>3. QED
    BY <1>0, <2>1, <2>2, StartFailOK DEF WorkerOK
<1>3. CASE ~(Awaited(c) /\ pc[c.by] = "publishing")
  BY <1>0, <1>3, StayOK DEF AfterPublish, WorkerOK
<1>4. QED
  BY <1>1, <1>2, <1>3

\* Every step keeps the worker types and what each runtime has in hand.
LEMMA WorkerStep ==
  ASSUME TypeOK, WorkerOK, [RuntimeNext]_vars
  PROVE  WorkerOK'
<1>0. nextJob \in Nat /\ nextJob' \in Nat /\ nextJob' >= nextJob
  BY StoreStep, NumbersGrow DEF TypeOK
<1>1. CASE Outside
  BY <1>0, <1>1, StayOK DEF Outside, admin, WorkerOK
<1>2. CASE Enable
  BY <1>0, <1>2, StayOK DEF Enable, admin, WorkerOK
<1>3. ASSUME NEW r \in Runtimes, RunOnce(r) PROVE WorkerOK'
  <2>1. CASE BeginRun(r)
    <3>1. /\ pc[r] = "idle" /\ pc' = [pc EXCEPT ![r] = "claiming"]
          /\ UNCHANGED <<job, owner, granted, calls, disabling, resetting, disturbances>>
      BY <2>1 DEF BeginRun, Goto, admin
    <3>2. QED
      BY <1>0, <3>1 DEF WorkerOK, AtWork, Stages
  <2>2. CASE ClaimJob(r)
    <3>1. PICK o \in Owners, j \in DOMAIN jobs :
             /\ Claim(o, j)
             /\ job' = [job EXCEPT ![r] = j]
             /\ owner' = [owner EXCEPT ![r] = o]
      BY <2>2 DEF ClaimJob
    <3>2. j \in 1..(nextJob - 1) /\ nextJob' = nextJob /\ now + LeaseSeconds \in Nat
      BY <3>1, GraphJobsAssumption DEF TypeOK, Claim
    <3>3. /\ pc[r] = "claiming" /\ pc' = [pc EXCEPT ![r] = "claimed"]
          /\ granted' = [granted EXCEPT ![r] = now + LeaseSeconds]
          /\ UNCHANGED <<calls, disabling, resetting, disturbances>>
      BY <2>2 DEF ClaimJob, admin
    <3>4. job' \in [Runtimes -> Nat \cup {NoJob}] /\ granted' \in [Runtimes -> Nat]
      BY <1>0, <3>1, <3>2, <3>3 DEF WorkerOK
    <3>5. QED
      BY <1>0, <3>1, <3>2, <3>3, <3>4 DEF WorkerOK, AtWork, Stages
  <2>3. CASE ClaimNothing(r)
    BY <1>0, <2>3, FinishOK DEF ClaimNothing, WorkerOK
  <2>4. CASE CreateTask(r)
    BY <1>0, <2>4, GotoOK DEF CreateTask, admin, WorkerOK, AtWork, Stages
  <2>5. CASE BeginTask(r)
    BY <1>0, <2>5, GotoOK DEF BeginTask, admin, WorkerOK, AtWork, Stages
  <2>6. CASE Extracted(r)
    <3>1. pc[r] \in AtWork /\ "publishing" \in AtWork
      BY <2>6 DEF Extracted, AtWork, Stages
    <3>2. MyCall(r, "publish", "none") \in Call
      BY <1>0, <3>1, MyCallOK
    <3>3. QED
      BY <1>0, <2>6, <3>1, <3>2, GotoOK DEF Extracted, admin, WorkerOK
  <2>7. CASE NotExtracted(r)
    <3>1. pc[r] \in AtWork /\ {"transient", "invalid"} \subseteq Reasons
      BY <2>7 DEF NotExtracted, AtWork, Stages, Reasons
    <3>2. nextJob' = nextJob
      BY <2>7 DEF NotExtracted, store, queue
    <3>3. QED
      BY <1>0, <2>7, <3>1, <3>2, StartFailOK DEF NotExtracted, WorkerOK
  <2>8. QED
    BY <1>3, <2>1, <2>2, <2>3, <2>4, <2>5, <2>6, <2>7 DEF RunOnce
<1>4. ASSUME NEW r \in Runtimes, Heartbeat(r) PROVE WorkerOK'
  <2>1. MyCall(r, "renew", "none") \in Call
    BY <1>0, <1>4, MyCallOK DEF Heartbeat, Active, AtWork, Stages
  <2>2. QED
    BY <1>0, <1>4, <2>1, StayOK DEF Heartbeat, admin, WorkerOK
<1>5. ASSUME NEW r \in Runtimes, Admin(r) PROVE WorkerOK'
  <2>0. Disturb => disturbances' \in Nat
    BY DEF Disturb, WorkerOK
  <2>1. CASE Disable(r)
    BY <1>0, <2>0, <2>1, StayOK DEF Disable, WorkerOK
  <2>2. CASE DisableCancels(r)
    <3>1. UNCHANGED nextJob /\ disabling' \subseteq Runtimes /\ disturbances' \in Nat
      BY <2>2 DEF DisableCancels, store, queue, WorkerOK
    <3>2. CASE Active(r)
      BY <1>0, <2>2, <3>1, <3>2, CancelTaskOK DEF DisableCancels, WorkerOK
    <3>3. CASE ~Active(r)
      BY <1>0, <2>2, <3>1, <3>3, StayOK DEF DisableCancels, WorkerOK
    <3>4. QED
      BY <3>2, <3>3
  <2>3. CASE RequestReset(r)
    BY <1>0, <2>0, <2>3, StayOK DEF RequestReset, WorkerOK
  <2>4. CASE ResetCancels(r)
    <3>1. UNCHANGED nextJob /\ disabling' \subseteq Runtimes /\ disturbances' \in Nat
      BY <2>4 DEF ResetCancels, store, queue, WorkerOK
    <3>2. [resetting EXCEPT ![r] = "cancelled"]
             \in [Runtimes -> {"no", "waiting", "cancelled"}]
      BY DEF WorkerOK
    <3>3. QED
      BY <1>0, <2>4, <3>1, <3>2, CancelTaskOK DEF ResetCancels, WorkerOK
  <2>5. CASE Reset(r)
    BY <1>0, <2>5, StayOK DEF Reset, WorkerOK
  <2>6. CASE Shutdown(r)
    <3>1. UNCHANGED nextJob /\ disabling' \subseteq Runtimes /\ disturbances' \in Nat
      BY <2>0, <2>6 DEF Shutdown, store, queue, WorkerOK
    <3>2. CASE Active(r) /\ CancelTask(r, calls, resetting)
      BY <1>0, <3>1, <3>2, CancelTaskOK DEF WorkerOK
    <3>3. CASE /\ pc[r] = "claimed" /\ Goto(r, "releasing")
               /\ calls' = calls \cup {MyCall(r, "fail", "interrupted")}
               /\ UNCHANGED resetting
      <4>1. pc[r] \in AtWork /\ "releasing" \in AtWork
        BY <3>3 DEF AtWork, Stages
      <4>2. MyCall(r, "fail", "interrupted") \in Call
        BY <1>0, <4>1, MyCallOK DEF Reasons
      <4>3. QED
        BY <1>0, <3>1, <3>3, <4>1, <4>2, GotoOK DEF WorkerOK
    <3>4. QED
      BY <2>6, <3>2, <3>3 DEF Shutdown
  <2>7. CASE Crash(r)
    <3>1. disturbances' \in Nat
      BY <2>0, <2>7 DEF Crash
    <3>2. QED
      BY <1>0, <2>7, <3>1 DEF Crash, WorkerOK, AtWork, Stages
  <2>8. QED
    BY <1>5, <2>1, <2>2, <2>3, <2>4, <2>5, <2>6, <2>7 DEF Admin
<1>6. ASSUME NEW c \in calls, Answer(c) PROVE WorkerOK'
  <2>0. c.by \in Runtimes /\ c.why \in Reasons \cup {"none"} /\ calls \ {c} \subseteq Call
    BY DEF WorkerOK, Call
  <2>1. CASE Published(c)
    <3>1. UNCHANGED <<nextJob, disabling, disturbances>>
      BY <2>1 DEF Published, Publish
    <3>2. QED
      BY <1>0, <2>1, <3>1, AfterPublishOK DEF Published, Reasons
  <2>2. CASE PublishRejected(c)
    BY <1>0, <2>2, AfterPublishOK DEF PublishRejected, Reasons, store, queue
  <2>3. CASE PublishAborted(c)
    BY <1>0, <2>3, AfterPublishOK DEF PublishAborted, Reasons, store, queue
  <2>4. CASE Failed(c)
    <3>1. CASE Awaited(c)
      BY <1>0, <2>0, <2>4, <3>1, FinishOK DEF Failed, WorkerOK
    <3>2. CASE ~Awaited(c)
      BY <1>0, <2>0, <2>4, <3>2, StayOK DEF Failed, WorkerOK
    <3>3. QED
      BY <3>1, <3>2
  <2>5. CASE Renewed(c)
    <3>1. granted' \in [Runtimes -> Nat]
      <4>1. now + LeaseSeconds \in Nat
        BY GraphJobsAssumption DEF TypeOK
      <4>2. QED
        BY <2>0, <2>5, <4>1 DEF Renewed, WorkerOK
    <3>2. QED
      BY <1>0, <2>0, <2>5, <3>1, StayOK DEF Renewed, admin, WorkerOK
  <2>6. CASE NotRenewed(c)
    <3>1. UNCHANGED <<nextJob, disabling, disturbances>>
      BY <2>6 DEF NotRenewed, store, queue
    <3>2. CASE Awaited(c) /\ Active(c.by)
      BY <1>0, <2>0, <2>6, <3>1, <3>2, CancelTaskOK DEF NotRenewed, WorkerOK
    <3>3. CASE ~(Awaited(c) /\ Active(c.by))
      BY <1>0, <2>0, <2>6, <3>1, <3>3, StayOK DEF NotRenewed, WorkerOK
    <3>4. QED
      BY <3>2, <3>3
  <2>7. QED
    BY <1>6, <2>1, <2>2, <2>3, <2>4, <2>5, <2>6 DEF Answer
<1>7. CASE UNCHANGED vars
  BY <1>0, <1>7, StayOK DEF vars, admin, WorkerOK
<1>8. QED
  BY <1>1, <1>2, <1>3, <1>4, <1>5, <1>6, <1>7 DEF RuntimeNext

\* All runtimes start idle, on a store in its initial state.
LEMMA RuntimeInitially == RuntimeInit => Init /\ WorkerOK
BY GraphJobsAssumption DEF RuntimeInit, WorkerOK, AtWork, Stages

\* The workers, whatever they do and however they die, use the queue only in the
\* ways GraphJobs allows its callers: every theorem about the queue holds of them.
THEOREM WorkersUseTheQueue == RuntimeSpec => Spec
<1>1. RuntimeInit => Init /\ TypeOK /\ WorkerOK
  BY RuntimeInitially, InitTypeOK
<1>2. TypeOK /\ WorkerOK /\ [RuntimeNext]_vars => TypeOK' /\ WorkerOK' /\ [Next]_store
  BY StoreStep, WorkerStep, TypeStep
<1>3. QED
  BY <1>1, <1>2, PTL DEF RuntimeSpec, Spec

\* The running system, workers, cancelled tasks and dying processes included, implements
\* the ledger: one client at most holds a job, only it completes the job, and a job that
\* is done or given up is never open again.
THEOREM RuntimeImplementsLedger == RuntimeSpec => ImplementsLedger
BY WorkersUseTheQueue, QueueImplementsLedger
-----------------------------------------------------------------------------
(***************************************************************************)
(* Work happens under a lease the store agrees with.                       *)
(***************************************************************************)

\* The stages at which a runtime works on its job.
Working == {"claimed", "scheduled", "extracting", "publishing"}

\* No two claims under way share a lease owner.
OwnersDiffer ==
  \A q, r \in Runtimes : owner[q] = owner[r] /\ owner[q] \in Owners => q = r

\* A store call with a claim's owner was made by that claim, about its job, and at
\* this stage of it nothing else can be on its way.
CallsOfClaims ==
  \A c \in calls, r \in Runtimes :
    c.owner = owner[r] =>
      /\ c.by = r
      /\ c.job = job[r]
      /\ pc[r] \in Working \ {"publishing"} => c.op = "renew"
      /\ pc[r] = "publishing" => c.op \in {"renew", "publish"}

\* While a runtime works, a row the store still has is running under its owner, and
\* the store's lease ends no earlier than the runtime believes.
LeaseKept ==
  \A r \in Runtimes :
    pc[r] \in Working /\ granted[r] > now /\ job[r] \in DOMAIN jobs =>
      /\ Running(job[r])
      /\ jobs[job[r]].owner = owner[r]
      /\ jobs[job[r]].lease >= granted[r]

\* A job reported as rejected has been lost to its reporter.
RejectedLost ==
  \A c \in calls : c.op = "fail" /\ c.why = "rejected" => ~Holds(c.owner, c.job)

ClaimInv == OwnersDiffer /\ CallsOfClaims

(***************************************************************************)
(* The claims and their calls.                                             *)
(***************************************************************************)

\* A step that starts no claim, lets runtime q move to a stage where what it may
\* have on its way is still allowed, and adds calls of q's own claim.
LEMMA ClaimFrame ==
  ASSUME WorkerOK, ClaimInv, NEW q \in Runtimes, NEW op \in {"publish", "fail", "renew"},
         \A r \in Runtimes \ {q} : pc'[r] = pc[r] /\ job'[r] = job[r] /\ owner'[r] = owner[r],
         owner'[q] = NoOwner \/ (owner'[q] = owner[q] /\ job'[q] = job[q]),
         \A c \in calls' : c \in calls \/ (\E why : pc[q] \in AtWork /\ c = MyCall(q, op, why)),
         \/ pc'[q] = pc[q] /\ op = "renew"
         \/ pc'[q] \in Working \ {"publishing"} /\ pc[q] \in Working \ {"publishing"}
            /\ calls' \subseteq calls
         \/ pc'[q] = "publishing" /\ pc[q] \in Working \ {"publishing"} /\ op = "publish"
         \/ pc'[q] \notin Working
  PROVE  ClaimInv'
<1>1. \A c \in calls : c.owner \in Owners
  BY DEF WorkerOK, Call
<1>2. NoOwner \notin Owners
  BY GraphJobsAssumption
<1>3. pc[q] \in AtWork => owner[q] \in Owners
  BY DEF WorkerOK
<1>4. \A why : /\ MyCall(q, op, why).owner = owner[q] /\ MyCall(q, op, why).by = q
               /\ MyCall(q, op, why).job = job[q] /\ MyCall(q, op, why).op = op
  BY DEF MyCall
<1>5. OwnersDiffer'
  BY <1>2 DEF ClaimInv, OwnersDiffer
<1>6. ASSUME NEW c \in calls', NEW r \in Runtimes, c.owner = owner'[r]
      PROVE  /\ c.by = r
             /\ c.job = job'[r]
             /\ pc'[r] \in Working \ {"publishing"} => c.op = "renew"
             /\ pc'[r] = "publishing" => c.op \in {"renew", "publish"}
  <2>1. CASE c \in calls
    BY <1>1, <1>2, <1>6, <2>1 DEF ClaimInv, CallsOfClaims, Working
  <2>2. CASE c \notin calls
    <3>1. pc[q] \in AtWork /\ c.owner = owner[q] /\ c.by = q /\ c.job = job[q] /\ c.op = op
      BY <1>4, <2>2
    <3>2. r = q
      BY <1>2, <1>3, <1>6, <3>1 DEF ClaimInv, OwnersDiffer
    <3>3. QED
      BY <1>2, <1>3, <1>6, <2>2, <3>1, <3>2 DEF Working
  <2>3. QED
    BY <2>1, <2>2
<1>7. QED
  BY <1>5, <1>6 DEF ClaimInv, CallsOfClaims

\* A runtime that gives its claim up leaves no claim behind that conflicts.
LEMMA FinishClaim ==
  ASSUME WorkerOK, ClaimInv, NEW r \in Runtimes, Finish(r), calls' \subseteq calls
  PROVE  ClaimInv'
<1>1. pc'[r] = "idle" /\ owner'[r] = NoOwner
  BY DEF Finish, WorkerOK
<1>2. \A q \in Runtimes \ {r} : pc'[q] = pc[q] /\ job'[q] = job[q] /\ owner'[q] = owner[q]
  BY DEF Finish, WorkerOK
<1>3. QED
  BY <1>1, <1>2, ClaimFrame DEF Working

\* A fail call is made by the claim the runtime works on.
LEMMA StartFailClaim ==
  ASSUME WorkerOK, ClaimInv, NEW r \in Runtimes, pc[r] \in AtWork, NEW C \in SUBSET calls,
         NEW why, NEW reset, StartFail(r, C, why, reset)
  PROVE  ClaimInv'
<1>1. /\ pc'[r] = "failing" /\ owner'[r] = owner[r] /\ job'[r] = job[r]
      /\ \A c \in calls' : c \in calls \/ c = MyCall(r, "fail", why)
  BY DEF StartFail, Goto, WorkerOK
<1>2. \A q \in Runtimes \ {r} : pc'[q] = pc[q] /\ job'[q] = job[q] /\ owner'[q] = owner[q]
  BY DEF StartFail, Goto, WorkerOK
<1>3. QED
  BY <1>1, <1>2, ClaimFrame DEF Working

\* Cancelling a task leaves at most the calls its own claim made.
LEMMA CancelTaskClaim ==
  ASSUME WorkerOK, ClaimInv, NEW r \in Runtimes, NEW C \in SUBSET calls, NEW reset,
         CancelTask(r, C, reset)
  PROVE  ClaimInv'
<1>1. CASE pc[r] \in AtWork /\ StartFail(r, C, "interrupted", reset)
  BY <1>1, StartFailClaim
<1>2. CASE Finish(r) /\ calls' = C
  BY <1>2, FinishClaim
<1>3. QED
  BY <1>1, <1>2 DEF CancelTask, AtWork, Stages

\* So does the end of a publish call.
LEMMA AfterPublishClaim ==
  ASSUME WorkerOK, ClaimInv, NEW c \in calls, NEW why, AfterPublish(c, why)
  PROVE  ClaimInv'
<1>0. c.by \in Runtimes /\ calls \ {c} \in SUBSET calls
  BY DEF WorkerOK, Call
<1>1. CASE Awaited(c) /\ pc[c.by] = "publishing" /\ why = "none"
  BY <1>0, <1>1, FinishClaim DEF AfterPublish
<1>2. CASE Awaited(c) /\ pc[c.by] = "publishing" /\ why # "none"
  <2>1. StartFail(c.by, calls \ {c}, why, resetting) /\ pc[c.by] \in AtWork
    BY <1>2 DEF AfterPublish, AtWork, Stages
  <2>2. QED
    BY <1>0, <2>1, StartFailClaim
<1>3. CASE ~(Awaited(c) /\ pc[c.by] = "publishing")
  BY <1>0, <1>3 DEF AfterPublish, worker, ClaimInv, OwnersDiffer, CallsOfClaims
<1>4. QED
  BY <1>1, <1>2, <1>3

\* A runtime that moves on without leaving its claim.
LEMMA GotoClaim ==
  ASSUME WorkerOK, ClaimInv, NEW r \in Runtimes, NEW stage, Goto(r, stage),
         NEW op \in {"publish", "fail", "renew"}, NEW why,
         \A c \in calls' : c \in calls \/ (pc[r] \in AtWork /\ c = MyCall(r, op, why)),
         \/ stage \in Working \ {"publishing"} /\ pc[r] \in Working \ {"publishing"}
            /\ calls' \subseteq calls
         \/ stage = "publishing" /\ pc[r] \in Working \ {"publishing"} /\ op = "publish"
         \/ stage \notin Working
  PROVE  ClaimInv'
<1>1. pc'[r] = stage /\ owner'[r] = owner[r] /\ job'[r] = job[r]
  BY DEF Goto, WorkerOK
<1>2. \A q \in Runtimes \ {r} : pc'[q] = pc[q] /\ job'[q] = job[q] /\ owner'[q] = owner[q]
  BY DEF Goto, WorkerOK
<1>3. QED
  BY <1>1, <1>2, ClaimFrame

\* Every step keeps owners of different runtimes apart and calls tied to their claims.
LEMMA ClaimStep ==
  ASSUME TypeOK, WorkerOK, ClaimInv, [RuntimeNext]_vars
  PROVE  ClaimInv'
<1>0. ASSUME UNCHANGED worker, calls' \subseteq calls PROVE ClaimInv'
  BY <1>0 DEF worker, ClaimInv, OwnersDiffer, CallsOfClaims
<1>1. CASE Outside \/ Enable \/ UNCHANGED vars
  BY <1>0, <1>1 DEF Outside, Enable, vars
<1>2. ASSUME NEW r \in Runtimes, RunOnce(r) PROVE ClaimInv'
  <2>1. CASE BeginRun(r)
    BY <2>1, GotoClaim DEF BeginRun, Working
  <2>2. CASE ClaimJob(r)
    <3>1. PICK o \in Owners, j \in DOMAIN jobs :
             Fresh(o) /\ job' = [job EXCEPT ![r] = j] /\ owner' = [owner EXCEPT ![r] = o]
      BY <2>2 DEF ClaimJob
    <3>2. pc' = [pc EXCEPT ![r] = "claimed"] /\ calls' = calls
      BY <2>2 DEF ClaimJob
    <3>3. OwnersDiffer'
      BY <3>1 DEF Fresh, WorkerOK, ClaimInv, OwnersDiffer
    <3>4. CallsOfClaims'
      BY <3>1, <3>2 DEF Fresh, WorkerOK, ClaimInv, CallsOfClaims
    <3>5. QED
      BY <3>3, <3>4 DEF ClaimInv
  <2>3. CASE ClaimNothing(r)
    BY <2>3, FinishClaim DEF ClaimNothing
  <2>4. CASE CreateTask(r) \/ BeginTask(r)
    BY <2>4, GotoClaim DEF CreateTask, BeginTask, Working
  <2>5. CASE Extracted(r)
    <3>1. /\ Goto(r, "publishing") /\ pc[r] \in Working \ {"publishing"} /\ pc[r] \in AtWork
          /\ \A c \in calls' : c \in calls \/ c = MyCall(r, "publish", "none")
      BY <2>5 DEF Extracted, Working, AtWork, Stages
    <3>2. QED
      BY <3>1, GotoClaim
  <2>6. CASE NotExtracted(r)
    <3>1. PICK why : StartFail(r, calls, why, resetting)
      BY <2>6 DEF NotExtracted
    <3>2. QED
      BY <2>6, <3>1, StartFailClaim DEF NotExtracted, AtWork, Stages
  <2>7. QED
    BY <1>2, <2>1, <2>2, <2>3, <2>4, <2>5, <2>6 DEF RunOnce
<1>3. ASSUME NEW r \in Runtimes, Heartbeat(r) PROVE ClaimInv'
  <2>1. /\ pc[r] \in AtWork /\ UNCHANGED <<pc, job, owner>>
        /\ \A c \in calls' : c \in calls \/ c = MyCall(r, "renew", "none")
    BY <1>3 DEF Heartbeat, Active, worker, AtWork, Stages
  <2>2. QED
    BY <2>1, ClaimFrame
<1>4. ASSUME NEW r \in Runtimes, Admin(r) PROVE ClaimInv'
  <2>1. CASE Disable(r) \/ RequestReset(r) \/ Reset(r)
    BY <1>0, <2>1 DEF Disable, RequestReset, Reset
  <2>2. CASE DisableCancels(r)
    BY <1>0, <2>2, CancelTaskClaim DEF DisableCancels
  <2>3. CASE ResetCancels(r)
    BY <2>3, CancelTaskClaim DEF ResetCancels
  <2>4. CASE Shutdown(r)
    <3>1. CASE CancelTask(r, calls, resetting)
      BY <3>1, CancelTaskClaim
    <3>2. CASE /\ pc[r] = "claimed" /\ Goto(r, "releasing")
               /\ calls' = calls \cup {MyCall(r, "fail", "interrupted")}
      <4>1. pc[r] \in AtWork /\ "releasing" \notin Working
        BY <3>2 DEF AtWork, Stages, Working
      <4>2. QED
        BY <3>2, <4>1, GotoClaim
    <3>3. QED
      BY <2>4, <3>1, <3>2 DEF Shutdown
  <2>5. CASE Crash(r)
    <3>1. /\ pc'[r] = "idle" /\ owner'[r] = NoOwner /\ calls' \subseteq calls
          /\ \A q \in Runtimes \ {r} : pc'[q] = pc[q] /\ job'[q] = job[q] /\ owner'[q] = owner[q]
      BY <2>5 DEF Crash, WorkerOK
    <3>2. QED
      BY <3>1, ClaimFrame DEF Working
  <2>6. QED
    BY <1>4, <2>1, <2>2, <2>3, <2>4, <2>5 DEF Admin
<1>5. ASSUME NEW c \in calls, Answer(c) PROVE ClaimInv'
  <2>0. c.by \in Runtimes /\ calls \ {c} \in SUBSET calls
    BY DEF WorkerOK, Call
  <2>1. CASE Published(c) \/ PublishRejected(c) \/ PublishAborted(c)
    BY <2>1, AfterPublishClaim DEF Published, PublishRejected, PublishAborted
  <2>2. CASE Failed(c)
    BY <1>0, <2>0, <2>2, FinishClaim DEF Failed
  <2>3. CASE Renewed(c)
    BY <1>0, <2>3 DEF Renewed
  <2>4. CASE NotRenewed(c)
    BY <1>0, <2>0, <2>4, CancelTaskClaim DEF NotRenewed
  <2>5. QED
    BY <1>5, <2>1, <2>2, <2>3, <2>4 DEF Answer
<1>6. QED
  BY <1>1, <1>2, <1>3, <1>4, <1>5 DEF RuntimeNext
(***************************************************************************)
(* The leases.                                                             *)
(***************************************************************************)

\* Operations that leave every job with a good lease alone.
LEMMA LiveRowStays ==
  ASSUME TypeOK, Tick \/ ContentNext \/ Enqueue \/ SetEnabled(TRUE) \/ ClaimNone \/ UNCHANGED store
  PROVE  /\ now' \in Nat /\ now' >= now
         /\ DOMAIN jobs' \cap 1..(nextJob - 1) \subseteq DOMAIN jobs
         /\ \A j \in DOMAIN jobs : Live(j) => jobs'[j] = jobs[j]
<1>0. now \in Nat /\ nextJob \in Nat
  BY DEF TypeOK
<1>1. CASE Tick
  BY <1>0, <1>1 DEF Tick, queue
<1>2. CASE ContentNext
  BY <1>0, <1>2 DEF ContentNext, SaveExchange, MarkExchange, SetExcluded, ActivateProfile, queue
<1>3. CASE Enqueue
  <2>1. {e \in Candidates : Inactive(e) /\ ~HasJob(e)} \in SUBSET DOMAIN exchanges
    BY DEF Candidates, LiveExchanges
  <2>2. /\ DOMAIN jobs' = DOMAIN jobs \cup (nextJob .. nextJob' - 1)
        /\ \A j \in DOMAIN jobs : jobs'[j] = jobs[j]
        /\ nextJob' \in Nat
    BY <1>0, <1>3, <2>1, InsertedRows DEF Enqueue
  <2>3. QED
    BY <1>0, <1>3, <2>2 DEF Enqueue
<1>4. CASE SetEnabled(TRUE)
  BY <1>0, <1>4 DEF SetEnabled
<1>5. CASE ClaimNone
  BY <1>0, <1>5 DEF ClaimNone, SweepExhausted, Live, Lapsed, TypeOK, Job
<1>6. CASE UNCHANGED store
  BY <1>0, <1>6 DEF store, queue
<1>7. QED
  BY <1>1, <1>2, <1>3, <1>4, <1>5, <1>6

\* A step after which nobody works that did not work on the same claim before.
KeepsWorking ==
  \A r \in Runtimes : pc'[r] \in Working =>
    /\ pc[r] \in Working
    /\ job'[r] = job[r] /\ owner'[r] = owner[r] /\ granted'[r] = granted[r]

\* Runtimes that keep working on the same claim keep their rows.
LEMMA LeaseFrame ==
  ASSUME TypeOK, WorkerOK, LeaseKept, KeepsWorking,
         now' \in Nat, now' >= now,
         DOMAIN jobs' \cap 1..(nextJob - 1) \subseteq DOMAIN jobs,
         \A j \in DOMAIN jobs : Live(j) => jobs'[j] = jobs[j]
  PROVE  LeaseKept'
<1>1. ASSUME NEW r \in Runtimes, pc'[r] \in Working, granted'[r] > now', job'[r] \in DOMAIN jobs'
      PROVE  /\ Running(job[r])'
             /\ jobs'[job'[r]].owner = owner'[r]
             /\ jobs'[job'[r]].lease >= granted'[r]
  <2>1. pc[r] \in Working /\ job'[r] = job[r] /\ owner'[r] = owner[r] /\ granted'[r] = granted[r]
    BY <1>1 DEF KeepsWorking
  <2>2. now \in Nat /\ granted[r] \in Nat /\ granted[r] > now
    BY <1>1, <2>1 DEF TypeOK, WorkerOK
  <2>3. job[r] \in DOMAIN jobs
    BY <1>1, <2>1 DEF WorkerOK, Working, AtWork, Stages
  <2>4. Running(job[r]) /\ jobs[job[r]].owner = owner[r] /\ jobs[job[r]].lease >= granted[r]
    BY <2>1, <2>2, <2>3 DEF LeaseKept
  <2>5. jobs[job[r]].lease \in Nat
    BY <2>3 DEF TypeOK, Job
  <2>6. Live(job[r])
    BY <2>2, <2>4, <2>5 DEF Live
  <2>7. jobs'[job[r]] = jobs[job[r]]
    BY <2>3, <2>6
  <2>8. QED
    BY <2>1, <2>4, <2>7 DEF Running
<1>2. QED
  BY <1>1 DEF LeaseKept, Running

\* One row changes that only one owner may change, and its runtime stops working on it.
LEMMA OwnRowFrame ==
  ASSUME TypeOK, WorkerOK, LeaseKept, KeepsWorking, NEW k \in DOMAIN jobs,
         \A r \in Runtimes : pc'[r] \in Working => owner[r] # jobs[k].owner,
         UNCHANGED now, DOMAIN jobs' = DOMAIN jobs,
         \A j \in DOMAIN jobs \ {k} : jobs'[j] = jobs[j]
  PROVE  LeaseKept'
BY DEF KeepsWorking, LeaseKept, Running, TypeOK, WorkerOK

\* A runtime that finishes works no longer; the others keep their claims.
LEMMA FinishWorks ==
  ASSUME WorkerOK, NEW r \in Runtimes, Finish(r)
  PROVE  KeepsWorking /\ pc'[r] \notin Working
BY DEF Finish, KeepsWorking, WorkerOK, Working

\* A runtime that only moves on keeps its claim.
LEMMA GotoWorks ==
  ASSUME WorkerOK, NEW r \in Runtimes, NEW stage, Goto(r, stage),
         stage \in Working => pc[r] \in Working
  PROVE  KeepsWorking /\ pc'[r] = stage
BY DEF Goto, KeepsWorking, WorkerOK, Working

\* Runtimes that stay keep their claims.
LEMMA StayWorks ==
  ASSUME UNCHANGED <<worker, granted>>
  PROVE  KeepsWorking
BY DEF KeepsWorking, worker

\* A cancelled task never begins to work, and disturbs no other runtime.
LEMMA CancelTaskWorks ==
  ASSUME WorkerOK, NEW r \in Runtimes, NEW C, NEW reset, CancelTask(r, C, reset)
  PROVE  KeepsWorking
BY FinishWorks, GotoWorks DEF CancelTask, StartFail, Working

\* A runtime whose publish call ended works no longer.
LEMMA AfterPublishWorks ==
  ASSUME WorkerOK, NEW c \in calls, NEW why, AfterPublish(c, why)
  PROVE  /\ KeepsWorking
         /\ Awaited(c) /\ pc[c.by] = "publishing" => pc'[c.by] \notin Working
<1>0. c.by \in Runtimes
  BY DEF WorkerOK, Call
<1>1. CASE Awaited(c) /\ pc[c.by] = "publishing"
  BY <1>0, <1>1, FinishWorks, GotoWorks DEF AfterPublish, StartFail, Working
<1>2. CASE ~(Awaited(c) /\ pc[c.by] = "publishing")
  BY <1>2, StayWorks DEF AfterPublish
<1>3. QED
  BY <1>1, <1>2

\* Every step keeps the lease a runtime relies on in the store.
LEMMA LeaseStep ==
  ASSUME TypeOK, WorkerOK, ClaimInv, LeaseKept, [RuntimeNext]_vars
  PROVE  LeaseKept'
<1>0. now \in Nat /\ nextJob \in Nat
  BY DEF TypeOK
<1> DEFINE Quiet == Tick \/ ContentNext \/ Enqueue \/ SetEnabled(TRUE) \/ ClaimNone \/ UNCHANGED store
<1>1. ASSUME Quiet, KeepsWorking PROVE LeaseKept'
  <2>1. /\ now' \in Nat /\ now' >= now
        /\ DOMAIN jobs' \cap 1..(nextJob - 1) \subseteq DOMAIN jobs
        /\ \A j \in DOMAIN jobs : Live(j) => jobs'[j] = jobs[j]
    BY <1>1, LiveRowStays
  <2>2. QED
    BY <1>1, <2>1, LeaseFrame
<1> HIDE DEF Quiet
<1>2. CASE Outside \/ Enable \/ UNCHANGED vars
  BY <1>1, <1>2, StayWorks DEF Outside, Enable, vars, Quiet
<1>3. ASSUME NEW r \in Runtimes, RunOnce(r) PROVE LeaseKept'
  <2>1. CASE BeginRun(r)
    BY <1>1, <2>1, GotoWorks DEF BeginRun, Working, Quiet
  <2>2. CASE ClaimJob(r)
    <3>1. PICK o \in Owners, j \in DOMAIN jobs :
             /\ Claim(o, j)
             /\ job' = [job EXCEPT ![r] = j]
             /\ owner' = [owner EXCEPT ![r] = o]
      BY <2>2 DEF ClaimJob
    <3>2. /\ pc' = [pc EXCEPT ![r] = "claimed"]
          /\ granted' = [granted EXCEPT ![r] = now + LeaseSeconds]
      BY <2>2 DEF ClaimJob
    <3>3. /\ now' = now /\ DOMAIN jobs' = DOMAIN jobs
          /\ jobs'[j].status = "running" /\ jobs'[j].owner = o
          /\ jobs'[j].lease = now + LeaseSeconds
      <4>1. jobs[j] \in Job /\ j \in DOMAIN SweepExhausted /\ DOMAIN SweepExhausted = DOMAIN jobs
        BY DEF TypeOK, SweepExhausted
      <4> DEFINE row == [jobs[j] EXCEPT !.status = "running", !.attempts = @ + 1,
                                        !.owner = o, !.lease = now + LeaseSeconds]
      <4>2. jobs' = [SweepExhausted EXCEPT ![j] = row] /\ now' = now
        BY <3>1 DEF Claim
      <4>3. row.status = "running" /\ row.owner = o /\ row.lease = now + LeaseSeconds
        BY <4>1 DEF Job
      <4> HIDE DEF row
      <4>4. jobs'[j] = row /\ DOMAIN jobs' = DOMAIN jobs
        BY <4>1, <4>2
      <4>5. QED
        BY <4>2, <4>3, <4>4
    <3>4. now + LeaseSeconds \in Nat /\ now + LeaseSeconds >= now + LeaseSeconds
      BY <1>0, GraphJobsAssumption
    <3>5. ASSUME NEW q \in Runtimes \ {r}, pc[q] \in Working, job[q] \in DOMAIN jobs
          PROVE  ~(granted[q] > now)
      <4>1. jobs[job[q]].lease \in Nat /\ granted[q] \in Nat
        BY <3>5 DEF TypeOK, Job, WorkerOK
      <4>2. granted[q] > now => Live(job[q])
        BY <1>0, <3>5, <4>1 DEF LeaseKept, Live
      <4>3. QED
        BY <3>1, <3>5, <4>2 DEF Claim
    <3>6. QED
      BY <3>1, <3>2, <3>3, <3>4, <3>5 DEF LeaseKept, Running, WorkerOK
  <2>3. CASE ClaimNothing(r)
    BY <1>1, <2>3, FinishWorks DEF ClaimNothing, Quiet
  <2>4. CASE CreateTask(r) \/ BeginTask(r) \/ Extracted(r)
    BY <1>1, <2>4, GotoWorks DEF CreateTask, BeginTask, Extracted, Working, Quiet
  <2>5. CASE NotExtracted(r)
    BY <1>1, <2>5, GotoWorks DEF NotExtracted, StartFail, Working, Quiet
  <2>6. QED
    BY <1>3, <2>1, <2>2, <2>3, <2>4, <2>5 DEF RunOnce
<1>4. ASSUME NEW r \in Runtimes, Heartbeat(r) PROVE LeaseKept'
  BY <1>1, <1>4, StayWorks DEF Heartbeat, Quiet
<1>5. ASSUME NEW r \in Runtimes, Admin(r) PROVE LeaseKept'
  <2>1. CASE Disable(r)
    <3>1. now' = now /\ \A q \in Runtimes : granted'[q] = 0
      BY <2>1 DEF Disable, SetEnabled
    <3>2. QED
      BY <1>0, <3>1 DEF LeaseKept
  <2>2. CASE DisableCancels(r)
    BY <1>1, <2>2, CancelTaskWorks, StayWorks DEF DisableCancels, Quiet
  <2>3. CASE RequestReset(r)
    BY <1>1, <2>3, StayWorks DEF RequestReset, Quiet
  <2>4. CASE ResetCancels(r)
    BY <1>1, <2>4, CancelTaskWorks DEF ResetCancels, Quiet
  <2>5. CASE Reset(r) /\ UNCHANGED store
    BY <1>1, <2>5, StayWorks DEF Reset, Quiet
  <2>6. CASE Reset(r) /\ ResetScan
    <3>1. UNCHANGED worker
      BY <2>6 DEF Reset
    <3>2. PICK fresh : InsertQueued(<< >>, Candidates, fresh)
      BY <2>6 DEF ResetScan
    <3>3. DOMAIN jobs' \cap 1..(nextJob - 1) = {}
      <4>1. PICK num \in Numberings(Candidates) : DOMAIN jobs' = DOMAIN << >> \cup DOMAIN num
        BY <3>2 DEF InsertQueued
      <4>2. Cardinality(Candidates) \in Nat
        BY ExchangesFinite DEF Candidates, LiveExchanges
      <4>3. DOMAIN num = nextJob .. (nextJob + Cardinality(Candidates) - 1)
        BY <4>1 DEF Numberings
      <4>4. QED
        BY <1>0, <4>1, <4>2, <4>3
    <3>4. QED
      BY <3>1, <3>3 DEF LeaseKept, WorkerOK, worker, Working, AtWork, Stages
  <2>7. CASE Shutdown(r)
    BY <1>1, <2>7, CancelTaskWorks, GotoWorks DEF Shutdown, Working, Quiet
  <2>8. CASE Crash(r)
    <3>1. KeepsWorking
      BY <2>8 DEF Crash, KeepsWorking, WorkerOK, Working
    <3>2. QED
      BY <1>1, <2>8, <3>1 DEF Crash, Quiet
  <2>9. QED
    BY <1>5, <2>1, <2>2, <2>3, <2>4, <2>5, <2>6, <2>7, <2>8 DEF Admin, Reset
<1>6. ASSUME NEW c \in calls, Answer(c) PROVE LeaseKept'
  <2>0. c.by \in Runtimes /\ c.owner \in Owners /\ NoOwner \notin Owners
    BY GraphJobsAssumption DEF WorkerOK, Call
  <2>1. CASE Published(c)
    <3>1. /\ Holds(c.owner, c.job) /\ UNCHANGED now /\ DOMAIN jobs' = DOMAIN jobs
          /\ \A j \in DOMAIN jobs \ {c.job} : jobs'[j] = jobs[j]
      BY <2>1 DEF Published, Publish, TypeOK
    <3>2. /\ KeepsWorking
          /\ Awaited(c) /\ pc[c.by] = "publishing" => pc'[c.by] \notin Working
      BY <2>1, AfterPublishWorks DEF Published
    <3>3. ASSUME NEW r \in Runtimes, pc'[r] \in Working PROVE owner[r] # jobs[c.job].owner
      <4>1. SUFFICES ASSUME owner[r] = c.owner PROVE FALSE
        BY <3>1 DEF Holds
      <4>2. c.by = r /\ pc[r] = "publishing"
        BY <2>1, <3>2, <3>3, <4>1 DEF ClaimInv, CallsOfClaims, KeepsWorking, Published, Working
      <4>3. QED
        BY <3>2, <3>3, <4>1, <4>2 DEF Awaited
    <3>4. QED
      BY <3>1, <3>2, <3>3, OwnRowFrame DEF Holds
  <2>2. CASE PublishRejected(c) \/ PublishAborted(c)
    BY <1>1, <2>2, AfterPublishWorks DEF PublishRejected, PublishAborted, Quiet
  <2>3. CASE Failed(c)
    <3>1. KeepsWorking
      BY <2>0, <2>3, FinishWorks, StayWorks DEF Failed
    <3>2. CASE UNCHANGED store
      BY <1>1, <3>1, <3>2 DEF Quiet
    <3>3. CASE Fail(c.owner, c.job, c.why \notin {"invalid", "rejected"})
      <4>1. /\ Holds(c.owner, c.job) /\ UNCHANGED now /\ DOMAIN jobs' = DOMAIN jobs
            /\ \A j \in DOMAIN jobs \ {c.job} : jobs'[j] = jobs[j]
        BY <3>3 DEF Fail, TypeOK
      <4>2. ASSUME NEW r \in Runtimes, pc'[r] \in Working PROVE owner[r] # jobs[c.job].owner
        BY <2>3, <3>1, <4>1, <4>2 DEF Holds, Failed, ClaimInv, CallsOfClaims, KeepsWorking, Working
      <4>3. QED
        BY <3>1, <4>1, <4>2, OwnRowFrame DEF Holds
    <3>4. QED
      BY <2>3, <3>2, <3>3 DEF Failed
  <2>4. CASE Renewed(c)
    <3>0. c.job \in DOMAIN jobs /\ jobs[c.job].owner = c.owner /\ Running(c.job)
      BY <2>4 DEF Renewed, Renew, Holds, Live
    <3> DEFINE row == [jobs[c.job] EXCEPT !.lease = now + LeaseSeconds]
    <3>1. jobs' = [jobs EXCEPT ![c.job] = row] /\ UNCHANGED <<now, worker>>
      BY <2>4 DEF Renewed, Renew
    <3>2. row.status = "running" /\ row.owner = c.owner /\ row.lease = now + LeaseSeconds
      BY <3>0 DEF TypeOK, Job, Running
    <3> HIDE DEF row
    <3>3. DOMAIN jobs' = DOMAIN jobs /\ jobs'[c.job] = row
          /\ \A j \in DOMAIN jobs \ {c.job} : jobs'[j] = jobs[j]
      BY <3>0, <3>1 DEF TypeOK
    <3>4. now + LeaseSeconds \in Nat
      BY <1>0, GraphJobsAssumption
    <3>5. ASSUME NEW r \in Runtimes, pc[r] \in Working, granted'[r] > now, job[r] \in DOMAIN jobs
          PROVE  /\ jobs'[job[r]].status = "running"
                 /\ jobs'[job[r]].owner = owner[r]
                 /\ jobs'[job[r]].lease >= granted'[r]
      <4>1. CASE owner[r] = c.owner
        <5>1. c.by = r /\ c.job = job[r] /\ Awaited(c)
          BY <3>5, <4>1 DEF ClaimInv, CallsOfClaims, Awaited, Working
        <5>2. granted'[r] = now + LeaseSeconds
          BY <2>4, <5>1 DEF Renewed, WorkerOK
        <5>3. QED
          BY <3>2, <3>3, <3>4, <4>1, <5>1, <5>2
      <4>2. CASE owner[r] # c.owner
        <5>1. granted'[r] = granted[r]
          BY <2>0, <2>4, <4>2 DEF Renewed, Awaited, WorkerOK
        <5>2. Running(job[r]) /\ jobs[job[r]].owner = owner[r] /\ jobs[job[r]].lease >= granted[r]
          BY <3>5, <5>1 DEF LeaseKept
        <5>3. job[r] # c.job
          BY <3>0, <4>2, <5>2
        <5>4. QED
          BY <3>3, <3>5, <5>1, <5>2, <5>3 DEF Running
      <4>3. QED
        BY <4>1, <4>2
    <3>6. QED
      BY <3>1, <3>3, <3>5 DEF LeaseKept, Running, worker
  <2>5. CASE NotRenewed(c)
    BY <1>1, <2>0, <2>5, CancelTaskWorks, StayWorks DEF NotRenewed, Quiet
  <2>6. QED
    BY <1>6, <2>1, <2>2, <2>3, <2>4, <2>5 DEF Answer
<1>7. QED
  BY <1>2, <1>3, <1>4, <1>5, <1>6 DEF RuntimeNext
(***************************************************************************)
(* What a runtime holds in the store, it knows it holds.                   *)
(***************************************************************************)

\* A lease in the store is one the runtime was granted: a claim the switch took back, and
\* a lease its process believes to have run out, hold nothing.
GrantMatches ==
  \A r \in Runtimes :
    pc[r] \in AtWork /\ Holds(owner[r], job[r]) => granted[r] >= jobs[job[r]].lease

\* A step after which nobody has a claim it did not have before.
KeepsClaims ==
  \A r \in Runtimes : pc'[r] \in AtWork =>
    /\ pc[r] \in AtWork
    /\ job'[r] = job[r] /\ owner'[r] = owner[r] /\ granted'[r] = granted[r]

\* Rows that run after an operation other than a claim or a renewal ran before it.
LEMMA RunningBefore ==
  ASSUME TypeOK,
         \/ Tick \/ ContentNext \/ Enqueue \/ ResetScan \/ ClaimNone \/ UNCHANGED store
         \/ \E value \in BOOLEAN : SetEnabled(value)
         \/ \E p \in Owners, k \in DOMAIN jobs :
              Publish(p, k) \/ \E retryable \in BOOLEAN : Fail(p, k, retryable),
         NEW j \in DOMAIN jobs', jobs'[j].status = "running"
  PROVE  j \in DOMAIN jobs /\ jobs'[j] = jobs[j] /\ now' \in Nat /\ now' >= now
<1>0. now \in Nat /\ nextJob \in Nat /\ \A k \in DOMAIN jobs : jobs[k] \in Job
  BY DEF TypeOK
<1>1. CASE Tick \/ ContentNext \/ UNCHANGED store
  BY <1>0, <1>1 DEF Tick, ContentNext, SaveExchange, MarkExchange, SetExcluded,
                    ActivateProfile, store, queue
<1>2. CASE Enqueue
  <2>1. {e \in Candidates : Inactive(e) /\ ~HasJob(e)} \in SUBSET DOMAIN exchanges
    BY DEF Candidates, LiveExchanges
  <2>2. /\ DOMAIN jobs' = DOMAIN jobs \cup (nextJob .. nextJob' - 1)
        /\ \A k \in DOMAIN jobs : jobs'[k] = jobs[k]
        /\ \A k \in nextJob .. nextJob' - 1 : jobs'[k].status = "queued"
        /\ now' = now
    BY <1>0, <1>2, <2>1, InsertedRows DEF Enqueue
  <2> QED BY <1>0, <2>2
<1>3. CASE ResetScan
  <2>1. PICK fresh \in Nat : InsertQueued(<< >>, Candidates, fresh)
    BY <1>0, <1>3 DEF ResetScan, Job
  <2>2. Candidates \in SUBSET DOMAIN exchanges /\ DOMAIN << >> = {}
    BY DEF Candidates, LiveExchanges
  <2> QED BY <2>1, <2>2, InsertedRows
<1>4. CASE ClaimNone
  <2>1. jobs' = SweepExhausted /\ now' = now /\ DOMAIN jobs' = DOMAIN jobs
    BY <1>4 DEF ClaimNone, SweepExhausted
  <2> QED BY <1>0, <2>1, SweptRows
<1>5. ASSUME NEW value \in BOOLEAN, SetEnabled(value)
      PROVE  j \in DOMAIN jobs /\ jobs'[j] = jobs[j] /\ now' = now
  BY <1>0, <1>5, ReleaseType DEF SetEnabled, Status
<1>6. ASSUME NEW p \in Owners, NEW k \in DOMAIN jobs,
             Publish(p, k) \/ \E retryable \in BOOLEAN : Fail(p, k, retryable)
      PROVE  j \in DOMAIN jobs /\ jobs'[j] = jobs[j] /\ now' = now
  <2>1. /\ now' = now /\ DOMAIN jobs' = DOMAIN jobs
        /\ \A i \in DOMAIN jobs \ {k} : jobs'[i] = jobs[i]
    BY <1>6 DEF Publish, Fail
  <2>2. jobs'[k].status # "running"
    BY <1>0, <1>6, ReleaseType, FailedRow DEF Publish, Status
  <2> QED BY <2>1, <2>2
<1> QED BY <1>0, <1>1, <1>2, <1>3, <1>4, <1>5, <1>6

\* What the workers' moves do to their claims.
LEMMA FinishClaims ==
  ASSUME WorkerOK, NEW r \in Runtimes, Finish(r)
  PROVE  KeepsClaims
BY DEF Finish, KeepsClaims, WorkerOK, AtWork

LEMMA GotoClaims ==
  ASSUME WorkerOK, NEW r \in Runtimes, NEW stage, Goto(r, stage), stage \in AtWork => pc[r] \in AtWork
  PROVE  KeepsClaims
BY DEF Goto, KeepsClaims, WorkerOK, AtWork

LEMMA StayClaims ==
  ASSUME UNCHANGED <<worker, granted>>
  PROVE  KeepsClaims
BY DEF KeepsClaims, worker

LEMMA CancelTaskClaims ==
  ASSUME WorkerOK, NEW r \in Runtimes, NEW C, NEW reset, CancelTask(r, C, reset)
  PROVE  KeepsClaims
BY FinishClaims, GotoClaims DEF CancelTask, StartFail, AtWork, Stages

LEMMA AfterPublishClaims ==
  ASSUME WorkerOK, NEW c \in calls, NEW why, AfterPublish(c, why)
  PROVE  KeepsClaims
<1>0. c.by \in Runtimes
  BY DEF WorkerOK, Call
<1> QED BY <1>0, FinishClaims, GotoClaims, StayClaims DEF AfterPublish, StartFail, AtWork, Stages

\* Every step keeps the runtimes informed of what they hold.
LEMMA GrantStep ==
  ASSUME TypeOK, WorkerOK, ClaimInv, GrantMatches, [RuntimeNext]_vars
  PROVE  GrantMatches'
<1>0. now \in Nat /\ \A j \in DOMAIN jobs : jobs[j] \in Job /\ jobs[j].lease \in Nat
  BY DEF TypeOK, Job
<1> DEFINE Quiet ==
      \/ Tick \/ ContentNext \/ Enqueue \/ ResetScan \/ ClaimNone \/ UNCHANGED store
      \/ \E value \in BOOLEAN : SetEnabled(value)
      \/ \E p \in Owners, k \in DOMAIN jobs :
           Publish(p, k) \/ \E retryable \in BOOLEAN : Fail(p, k, retryable)
<1>1. ASSUME Quiet, KeepsClaims PROVE GrantMatches'
  <2> SUFFICES ASSUME NEW r \in Runtimes, pc'[r] \in AtWork, Holds(owner[r], job[r])'
               PROVE  granted'[r] >= jobs'[job'[r]].lease
    BY DEF GrantMatches
  <2>1. pc[r] \in AtWork /\ job'[r] = job[r] /\ owner'[r] = owner[r] /\ granted'[r] = granted[r]
    BY <1>1 DEF KeepsClaims
  <2>2. /\ job[r] \in DOMAIN jobs' /\ jobs'[job[r]].status = "running"
        /\ jobs'[job[r]].owner = owner[r] /\ jobs'[job[r]].lease > now'
    BY <2>1 DEF Holds, Live, Running
  <2>3. job[r] \in DOMAIN jobs /\ jobs'[job[r]] = jobs[job[r]] /\ now' \in Nat /\ now' >= now
    BY <1>1, <2>2, RunningBefore
  <2>4. Holds(owner[r], job[r])
    BY <1>0, <2>2, <2>3 DEF Holds, Live, Running
  <2> QED BY <2>1, <2>3, <2>4 DEF GrantMatches
<1> HIDE DEF Quiet
<1>2. CASE Outside \/ Enable \/ UNCHANGED vars
  BY <1>1, <1>2, StayClaims DEF Outside, Enable, vars, Quiet
<1>3. ASSUME NEW r \in Runtimes, ClaimJob(r) PROVE GrantMatches'
  <2>1. PICK o \in Owners, j \in DOMAIN jobs :
           /\ Fresh(o) /\ Claim(o, j)
           /\ job' = [job EXCEPT ![r] = j]
           /\ owner' = [owner EXCEPT ![r] = o]
    BY <1>3 DEF ClaimJob
  <2>2. /\ pc' = [pc EXCEPT ![r] = "claimed"]
        /\ granted' = [granted EXCEPT ![r] = now + LeaseSeconds]
    BY <1>3 DEF ClaimJob
  <2> DEFINE row == [jobs[j] EXCEPT !.status = "running", !.attempts = @ + 1,
                                    !.owner = o, !.lease = now + LeaseSeconds]
  <2>3. row.owner = o /\ row.lease = now + LeaseSeconds
    BY <1>0 DEF Job
  <2>4. jobs' = [SweepExhausted EXCEPT ![j] = row] /\ now' = now /\ \A k \in DOMAIN jobs : ~Live(k)
    BY <2>1 DEF Claim
  <2> HIDE DEF row
  <2>5. /\ jobs'[j] = row /\ DOMAIN jobs' = DOMAIN jobs
        /\ \A k \in DOMAIN jobs \ {j} : jobs'[k] = SweepExhausted[k]
    BY <2>4 DEF SweepExhausted
  <2>6. ASSUME NEW q \in Runtimes, pc'[q] \in AtWork, Holds(owner[q], job[q])'
        PROVE  granted'[q] >= jobs'[job'[q]].lease
    <3>1. CASE q = r
      <4>1. job'[q] = j /\ granted'[q] = now + LeaseSeconds
        BY <2>1, <2>2, <3>1 DEF WorkerOK
      <4>2. now + LeaseSeconds \in Nat
        BY <1>0, GraphJobsAssumption
      <4> QED BY <2>3, <2>5, <4>1, <4>2
    <3>2. CASE q # r
      <4>1. owner'[q] = owner[q] /\ job'[q] = job[q] /\ owner[q] # o
        BY <2>1, <3>2 DEF WorkerOK, Fresh
      <4>2. job[q] # j
        BY <2>3, <2>5, <2>6, <4>1 DEF Holds
      <4>3. /\ job[q] \in DOMAIN jobs /\ jobs'[job[q]] = SweepExhausted[job[q]]
            /\ jobs'[job[q]].status = "running" /\ jobs'[job[q]].lease > now
        BY <2>4, <2>5, <2>6, <4>1, <4>2 DEF Holds, Live, Running
      <4>4. jobs'[job[q]] = jobs[job[q]]
        BY <4>3, SweptRows
      <4> QED BY <2>4, <4>3, <4>4 DEF Live, Running
    <3> QED BY <3>1, <3>2
  <2> QED BY <2>6 DEF GrantMatches
<1>4. ASSUME NEW r \in Runtimes, RunOnce(r), ~ClaimJob(r) PROVE GrantMatches'
  <2>1. CASE BeginRun(r)
    BY <1>1, <2>1, GotoClaims DEF BeginRun, AtWork, Quiet
  <2>2. CASE ClaimNothing(r)
    BY <1>1, <2>2, FinishClaims DEF ClaimNothing, Quiet
  <2>3. CASE CreateTask(r) \/ BeginTask(r) \/ Extracted(r)
    BY <1>1, <2>3, GotoClaims DEF CreateTask, BeginTask, Extracted, AtWork, Stages, Quiet
  <2>4. CASE NotExtracted(r)
    BY <1>1, <2>4, GotoClaims DEF NotExtracted, StartFail, AtWork, Stages, Quiet
  <2> QED BY <1>4, <2>1, <2>2, <2>3, <2>4 DEF RunOnce
<1>5. ASSUME NEW r \in Runtimes, Heartbeat(r) PROVE GrantMatches'
  BY <1>1, <1>5, StayClaims DEF Heartbeat, Quiet
<1>6. ASSUME NEW r \in Runtimes, Admin(r) PROVE GrantMatches'
  <2>1. CASE Disable(r)
    <3>1. \A j \in DOMAIN jobs' : jobs'[j].status # "running"
      BY <1>0, <2>1, ReleaseType DEF Disable, SetEnabled, Running, Status
    <3> QED BY <3>1 DEF GrantMatches, Holds, Live, Running
  <2>2. CASE DisableCancels(r) \/ ResetCancels(r)
    BY <1>1, <2>2, CancelTaskClaims, StayClaims DEF DisableCancels, ResetCancels, Quiet
  <2>3. CASE RequestReset(r) \/ Reset(r)
    BY <1>1, <2>3, StayClaims DEF RequestReset, Reset, Quiet
  <2>4. CASE Shutdown(r)
    BY <1>1, <2>4, CancelTaskClaims, GotoClaims DEF Shutdown, AtWork, Stages, Quiet
  <2>5. CASE Crash(r)
    <3>1. KeepsClaims
      BY <2>5 DEF Crash, KeepsClaims, WorkerOK, AtWork
    <3> QED BY <1>1, <2>5, <3>1 DEF Crash, Quiet
  <2> QED BY <1>6, <2>1, <2>2, <2>3, <2>4, <2>5 DEF Admin
<1>7. ASSUME NEW c \in calls, Answer(c) PROVE GrantMatches'
  <2>0. c.by \in Runtimes /\ c.owner \in Owners /\ NoOwner \notin Owners
        /\ (c.why \notin {"invalid", "rejected"}) \in BOOLEAN
    BY GraphJobsAssumption DEF WorkerOK, Call
  <2>1. CASE Published(c)
    <3>1. Quiet
      BY <2>0, <2>1 DEF Published, Publish, Holds, Quiet
    <3> QED BY <1>1, <2>1, <3>1, AfterPublishClaims DEF Published
  <2>2. CASE PublishRejected(c) \/ PublishAborted(c)
    BY <1>1, <2>2, AfterPublishClaims DEF PublishRejected, PublishAborted, Quiet
  <2>3. CASE Failed(c)
    <3>1. KeepsClaims
      BY <2>0, <2>3, FinishClaims, StayClaims DEF Failed
    <3>2. Quiet
      BY <2>0, <2>3 DEF Failed, Fail, Holds, Quiet
    <3> QED BY <1>1, <3>1, <3>2
  <2>4. CASE Renewed(c)
    <3>1. c.job \in DOMAIN jobs /\ UNCHANGED worker /\ now' = now
      BY <2>4 DEF Renewed, Renew, Holds
    <3>2. /\ DOMAIN jobs' = DOMAIN jobs
          /\ jobs'[c.job].owner = c.owner /\ jobs'[c.job].lease = now + LeaseSeconds
          /\ \A j \in DOMAIN jobs \ {c.job} : jobs'[j] = jobs[j]
      BY <1>0, <2>4 DEF Renewed, Renew, Holds, Job
    <3>3. now + LeaseSeconds \in Nat
      BY <1>0, GraphJobsAssumption
    <3>4. ASSUME NEW r \in Runtimes, pc'[r] \in AtWork, Holds(owner[r], job[r])'
          PROVE  granted'[r] >= jobs'[job'[r]].lease
      <4>0. pc[r] \in AtWork /\ owner'[r] = owner[r] /\ job'[r] = job[r]
        BY <3>1, <3>4 DEF worker
      <4>1. CASE owner[r] = c.owner
        <5>1. c.by = r /\ c.job = job[r] /\ Awaited(c)
          BY <4>0, <4>1 DEF ClaimInv, CallsOfClaims, Awaited, AtWork
        <5>2. granted'[r] = now + LeaseSeconds
          BY <2>4, <5>1 DEF Renewed, WorkerOK
        <5> QED BY <3>2, <3>3, <4>0, <5>1, <5>2
      <4>2. CASE owner[r] # c.owner
        <5>1. granted'[r] = granted[r]
          BY <2>0, <2>4, <4>2 DEF Renewed, Awaited, WorkerOK
        <5>2. job[r] # c.job /\ job[r] \in DOMAIN jobs
          BY <3>2, <3>4, <4>0, <4>2 DEF Holds
        <5>3. Holds(owner[r], job[r])
          BY <3>1, <3>2, <3>4, <4>0, <5>2 DEF Holds, Live, Running
        <5> QED BY <3>2, <4>0, <5>1, <5>2, <5>3 DEF GrantMatches
      <4> QED BY <4>1, <4>2
    <3> QED BY <3>4 DEF GrantMatches
  <2>5. CASE NotRenewed(c)
    BY <1>1, <2>0, <2>5, CancelTaskClaims, StayClaims DEF NotRenewed, Quiet
  <2> QED BY <1>7, <2>1, <2>2, <2>3, <2>4, <2>5 DEF Answer
<1> QED BY <1>2, <1>3, <1>4, <1>5, <1>6, <1>7 DEF RuntimeNext

\* An analysis enters the graph with the publish call of a claim that holds its job.
LEMMA EntersByHolder ==
  ASSUME TypeOK, QueueInv, WorkerOK, ClaimInv, GrantMatches, [RuntimeNext]_vars,
         NEW j \in DOMAIN extractions' \ DOMAIN extractions
  PROVE  /\ enabled
         /\ \A c \in calls \ calls' : Awaited(c) => granted[c.by] > now
<1>1. PICK c \in calls : Published(c)
  <2>1. extractions' # extractions
    OBVIOUS
  <2>2. ~ResetScan
    <3>1. DOMAIN << >> = {}
      OBVIOUS
    <3> QED BY <3>1 DEF ResetScan
  <2> QED BY <2>1, <2>2 DEF RuntimeNext, Outside, Tick, ContentNext, SaveExchange, MarkExchange,
             SetExcluded, ActivateProfile, Enable, SetEnabled, RunOnce, BeginRun, Enqueue,
             ClaimJob, Claim, ClaimNothing, ClaimNone, CreateTask, BeginTask, Extracted,
             NotExtracted, Heartbeat, Admin, Disable, DisableCancels, RequestReset,
             ResetCancels, Reset, Shutdown, Crash, Answer, PublishRejected,
             PublishAborted, Failed, Fail, Renewed, Renew, NotRenewed, vars, store, queue
<1>2. Publish(c.owner, c.job) /\ Holds(c.owner, c.job) /\ c.job = j /\ c.op = "publish"
  BY <1>1 DEF Published, Publish
<1>3. enabled
  BY <1>2 DEF Holds, Live, QueueInv, OffMeansIdle
<1>4. \A d \in calls \ calls' : d = c
  <2>1. PICK why : AfterPublish(c, why)
    BY <1>1 DEF Published
  <2> QED BY <1>2, <2>1 DEF AfterPublish, StartFail, MyCall
<1>5. ASSUME Awaited(c) PROVE granted[c.by] > now
  <2>1. c.by \in Runtimes /\ c.owner \in Owners /\ owner[c.by] = c.owner
    BY <1>5 DEF WorkerOK, Call, Awaited
  <2>2. pc[c.by] \in AtWork
    BY <2>1, GraphJobsAssumption DEF WorkerOK
  <2>3. c.job = job[c.by]
    BY <2>1 DEF ClaimInv, CallsOfClaims
  <2>4. granted[c.by] >= jobs[j].lease /\ jobs[j].lease > now
    BY <1>2, <2>1, <2>2, <2>3 DEF GrantMatches, Holds, Live
  <2>5. now \in Nat /\ jobs[j].lease \in Nat /\ granted[c.by] \in Nat
    BY <1>2, <2>1 DEF TypeOK, Job, WorkerOK, Holds
  <2> QED BY <2>4, <2>5
<1> QED BY <1>2, <1>3, <1>4, <1>5

(***************************************************************************)
(* Reports of rejected publications.                                       *)
(***************************************************************************)

\* Only a claim of its own gives an owner a job it does not hold.
LEMMA NotHeldStays ==
  ASSUME TypeOK, NEW o \in Owners, NEW j, ~Holds(o, j),
         \/ Tick \/ ContentNext \/ Enqueue \/ ResetScan \/ ClaimNone \/ UNCHANGED store
         \/ \E value \in BOOLEAN : SetEnabled(value)
         \/ \E p \in Owners, k \in DOMAIN jobs :
              \/ Claim(p, k) /\ p # o
              \/ Renew(p, k) \/ Publish(p, k)
              \/ \E retryable \in BOOLEAN : Fail(p, k, retryable)
  PROVE  ~Holds(o, j)'
<1>0. now \in Nat /\ nextJob \in Nat /\ NoOwner \notin Owners
      /\ \A k \in DOMAIN jobs : jobs[k] \in Job
  BY GraphJobsAssumption DEF TypeOK
<1> USE DEF Holds, Live, Running
<1>1. ASSUME j \in DOMAIN jobs' => j \in DOMAIN jobs /\ jobs'[j] = jobs[j],
             now' \in Nat, now' >= now
      PROVE  ~Holds(o, j)'
  BY <1>0, <1>1 DEF Job
<1>2. ASSUME j \in DOMAIN jobs' => jobs'[j].status # "running"
      PROVE  ~Holds(o, j)'
  BY <1>2
<1>3. CASE Tick \/ ContentNext \/ UNCHANGED store
  BY <1>0, <1>1, <1>3 DEF Tick, ContentNext, SaveExchange, MarkExchange, SetExcluded,
                          ActivateProfile, store, queue
<1>4. CASE Enqueue
  <2>1. {e \in Candidates : Inactive(e) /\ ~HasJob(e)} \in SUBSET DOMAIN exchanges
    BY DEF Candidates, LiveExchanges
  <2>2. /\ DOMAIN jobs' = DOMAIN jobs \cup (nextJob .. nextJob' - 1)
        /\ \A k \in DOMAIN jobs : jobs'[k] = jobs[k]
        /\ \A k \in nextJob .. nextJob' - 1 : jobs'[k].status = "queued"
        /\ now' = now
    BY <1>0, <1>4, <2>1, InsertedRows DEF Enqueue
  <2>3. QED
    BY <1>0, <1>1, <1>2, <2>2
<1>5. CASE ResetScan
  <2>1. PICK fresh \in Nat : InsertQueued(<< >>, Candidates, fresh)
    BY <1>0, <1>5 DEF ResetScan, Job
  <2>2. Candidates \in SUBSET DOMAIN exchanges /\ DOMAIN << >> = {}
    BY DEF Candidates, LiveExchanges
  <2>3. DOMAIN jobs' = nextJob .. nextJob' - 1
        /\ \A k \in nextJob .. nextJob' - 1 : jobs'[k].status = "queued"
    BY <2>1, <2>2, InsertedRows
  <2>4. QED
    BY <1>2, <2>3
<1>6. CASE ClaimNone
  <2>1. jobs' = SweepExhausted /\ now' = now /\ DOMAIN jobs' = DOMAIN jobs
    BY <1>6 DEF ClaimNone, SweepExhausted
  <2>2. ASSUME j \in DOMAIN jobs
        PROVE  jobs'[j] = jobs[j] \/ jobs'[j].status = "terminal_failed"
    BY <2>1, <2>2, SweptRows
  <2>3. QED
    BY <1>0, <1>1, <1>2, <2>1, <2>2
<1>7. ASSUME NEW value \in BOOLEAN, SetEnabled(value) PROVE ~Holds(o, j)'
  <2>1. DOMAIN jobs' = DOMAIN jobs /\ now' = now
    BY <1>7 DEF SetEnabled
  <2>2. ASSUME j \in DOMAIN jobs
        PROVE  jobs'[j] = jobs[j] \/ jobs'[j].status = "interrupted"
    BY <1>0, <1>7, <2>2, ReleaseType DEF SetEnabled, Status
  <2>3. QED
    BY <1>0, <1>1, <1>2, <2>1, <2>2
<1>8. ASSUME NEW p \in Owners, NEW k \in DOMAIN jobs, Claim(p, k), p # o
      PROVE  ~Holds(o, j)'
  <2>1. /\ now' = now /\ DOMAIN jobs' = DOMAIN jobs
        /\ \A i \in DOMAIN jobs \ {k} : jobs'[i] = SweepExhausted[i]
        /\ jobs'[k].owner = p
    <3> DEFINE row == [jobs[k] EXCEPT !.status = "running", !.attempts = @ + 1,
                                      !.owner = p, !.lease = now + LeaseSeconds]
    <3>1. jobs' = [SweepExhausted EXCEPT ![k] = row] /\ now' = now
      BY <1>8 DEF Claim
    <3>2. row.owner = p
      BY <1>0 DEF Job
    <3> HIDE DEF row
    <3>3. QED
      BY <3>1, <3>2 DEF SweepExhausted
  <2>2. CASE j = k
    BY <1>8, <2>1, <2>2
  <2>3. CASE j # k /\ j \in DOMAIN jobs
    <3>1. jobs'[j] = jobs[j] \/ jobs'[j].status = "terminal_failed"
      BY <2>1, <2>3, SweptRows
    <3>2. QED
      BY <1>0, <1>1, <1>2, <2>1, <2>3, <3>1
  <2>4. CASE j \notin DOMAIN jobs
    BY <2>1, <2>4
  <2>5. QED
    BY <2>2, <2>3, <2>4
<1>9. ASSUME NEW p \in Owners, NEW k \in DOMAIN jobs,
             Renew(p, k) \/ Publish(p, k) \/ \E retryable \in BOOLEAN : Fail(p, k, retryable)
      PROVE  ~Holds(o, j)'
  <2>1. /\ now' = now /\ DOMAIN jobs' = DOMAIN jobs /\ Holds(p, k)
        /\ \A i \in DOMAIN jobs \ {k} : jobs'[i] = jobs[i]
    BY <1>9 DEF Renew, Publish, Fail
  <2>2. CASE j # k
    BY <1>0, <1>1, <2>1, <2>2
  <2>3. CASE j = k /\ Renew(p, k)
    <3>1. jobs'[k].owner = jobs[k].owner
      BY <1>0, <2>3 DEF Renew, Job
    <3>2. QED
      BY <2>1, <2>3, <3>1
  <2>4. CASE j = k /\ Publish(p, k)
    BY <1>0, <1>2, <2>4, ReleaseType DEF Publish, Status
  <2>5. CASE j = k /\ \E retryable \in BOOLEAN : Fail(p, k, retryable)
    BY <1>2, <2>5, FailedRow
  <2>6. QED
    BY <1>9, <2>2, <2>3, <2>4, <2>5
<1>10. QED
  BY <1>3, <1>4, <1>5, <1>6, <1>7, <1>8, <1>9

\* A call of a rejected report is either old, or made by the refusal of its publish.
LEMMA NewReport ==
  ASSUME WorkerOK, ClaimInv, [RuntimeNext]_vars,
         NEW d \in calls' \ calls, d.op = "fail", d.why = "rejected"
  PROVE  UNCHANGED store /\ ~Holds(d.owner, d.job)
<1>0. ASSUME NEW r, NEW op, NEW why
      PROVE  MyCall(r, op, why).why = why /\ MyCall(r, op, why).op = op
  BY DEF MyCall
<1>1. ASSUME NEW r, NEW C \in SUBSET calls, NEW why, NEW reset,
             StartFail(r, C, why, reset)
      PROVE  why = "rejected" /\ d = MyCall(r, "fail", why)
  BY <1>0, <1>1 DEF StartFail
<1>2. ASSUME NEW r, NEW C \in SUBSET calls, NEW reset, CancelTask(r, C, reset) PROVE FALSE
  BY <1>1, <1>2 DEF CancelTask
<1>3. ~Outside /\ ~Enable /\ ~UNCHANGED vars
  BY DEF Outside, Enable, vars
<1>4. ASSUME NEW r \in Runtimes, RunOnce(r) PROVE FALSE
  <2>1. ~BeginRun(r) /\ ~ClaimJob(r) /\ ~ClaimNothing(r) /\ ~CreateTask(r) /\ ~BeginTask(r)
    BY DEF BeginRun, ClaimJob, ClaimNothing, CreateTask, BeginTask
  <2>2. ~Extracted(r)
    BY <1>0 DEF Extracted
  <2>3. ~NotExtracted(r)
    BY <1>1 DEF NotExtracted
  <2>4. QED
    BY <1>4, <2>1, <2>2, <2>3 DEF RunOnce
<1>5. ASSUME NEW r \in Runtimes, Heartbeat(r) PROVE FALSE
  BY <1>0, <1>5 DEF Heartbeat
<1>6. ASSUME NEW r \in Runtimes, Admin(r) PROVE FALSE
  <2>1. ~Disable(r) /\ ~RequestReset(r) /\ ~Reset(r) /\ ~Crash(r)
    BY DEF Disable, RequestReset, Reset, Crash
  <2>2. ~DisableCancels(r) /\ ~ResetCancels(r)
    BY <1>2 DEF DisableCancels, ResetCancels
  <2>3. ~Shutdown(r)
    BY <1>0, <1>2 DEF Shutdown
  <2>4. QED
    BY <1>6, <2>1, <2>2, <2>3 DEF Admin
<1>7. ASSUME NEW c \in calls, Answer(c) PROVE UNCHANGED store /\ ~Holds(d.owner, d.job)
  <2>0. calls \ {c} \in SUBSET calls
    OBVIOUS
  <2>1. ASSUME NEW why, AfterPublish(c, why)
        PROVE  why = "rejected" /\ Awaited(c) /\ d = MyCall(c.by, "fail", why)
    BY <1>1, <2>0, <2>1 DEF AfterPublish
  <2>2. ~Published(c) /\ ~PublishAborted(c)
    BY <2>1 DEF Published, PublishAborted
  <2>3. ~Failed(c) /\ ~Renewed(c) /\ ~NotRenewed(c)
    BY <1>2, <2>0 DEF Failed, Renewed, NotRenewed
  <2>4. PublishRejected(c)
    BY <1>7, <2>2, <2>3 DEF Answer
  <2>5. c.by \in Runtimes /\ Awaited(c) /\ d.owner = owner[c.by] /\ d.job = job[c.by]
    BY <2>1, <2>4 DEF PublishRejected, MyCall, WorkerOK, Call
  <2>6. d.owner = c.owner /\ d.job = c.job
    BY <2>5 DEF Awaited, ClaimInv, CallsOfClaims
  <2>7. QED
    BY <2>4, <2>6 DEF PublishRejected
<1>8. QED
  BY <1>3, <1>4, <1>5, <1>6, <1>7 DEF RuntimeNext

\* Every step keeps a rejected report without a job it could still hold.
LEMMA RejectedStep ==
  ASSUME TypeOK, WorkerOK, ClaimInv, RejectedLost, [RuntimeNext]_vars
  PROVE  RejectedLost'
<1>1. ASSUME NEW d \in calls', d.op = "fail", d.why = "rejected"
      PROVE  ~Holds(d.owner, d.job)'
  <2>1. ~Holds(d.owner, d.job)
    BY <1>1, NewReport DEF RejectedLost
  <2>2. CASE d \notin calls
    BY <1>1, <2>1, <2>2, NewReport DEF Holds, Live, Running, store, queue
  <2>3. CASE d \in calls
    <3>0. d.owner \in Owners
      BY <2>3 DEF WorkerOK, Call
    <3>1. CASE Outside \/ Enable \/ UNCHANGED vars
      BY <2>1, <3>0, <3>1, NotHeldStays DEF Outside, Enable, vars
    <3>2. ASSUME NEW r \in Runtimes, RunOnce(r) PROVE ~Holds(d.owner, d.job)'
      <4>1. CASE BeginRun(r)
        BY <2>1, <3>0, <4>1, NotHeldStays DEF BeginRun
      <4>2. CASE ClaimJob(r)
        <5>1. PICK o \in Owners, j \in DOMAIN jobs : Fresh(o) /\ Claim(o, j)
          BY <4>2 DEF ClaimJob
        <5>2. o # d.owner
          BY <2>3, <5>1 DEF Fresh
        <5>3. QED
          BY <2>1, <3>0, <5>1, <5>2, NotHeldStays
      <4>3. CASE ClaimNothing(r)
        BY <2>1, <3>0, <4>3, NotHeldStays DEF ClaimNothing
      <4>4. CASE CreateTask(r) \/ BeginTask(r) \/ Extracted(r) \/ NotExtracted(r)
        BY <2>1, <3>0, <4>4, NotHeldStays DEF CreateTask, BeginTask, Extracted, NotExtracted
      <4>5. QED
        BY <3>2, <4>1, <4>2, <4>3, <4>4 DEF RunOnce
    <3>3. ASSUME NEW r \in Runtimes, Heartbeat(r) PROVE ~Holds(d.owner, d.job)'
      BY <2>1, <3>0, <3>3, NotHeldStays DEF Heartbeat
    <3>4. ASSUME NEW r \in Runtimes, Admin(r) PROVE ~Holds(d.owner, d.job)'
      BY <2>1, <3>0, <3>4, NotHeldStays
         DEF Admin, Disable, DisableCancels, RequestReset, ResetCancels, Reset, Shutdown, Crash
    <3>5. ASSUME NEW c \in calls, Answer(c) PROVE ~Holds(d.owner, d.job)'
      <4>0. c.owner \in Owners /\ (c.why \notin {"invalid", "rejected"}) \in BOOLEAN
        BY DEF WorkerOK, Call
      <4>1. CASE Published(c)
        BY <2>1, <3>0, <4>0, <4>1, NotHeldStays DEF Published, Publish, Holds
      <4>2. CASE Failed(c)
        BY <2>1, <3>0, <4>0, <4>2, NotHeldStays DEF Failed, Fail, Holds
      <4>3. CASE Renewed(c)
        BY <2>1, <3>0, <4>0, <4>3, NotHeldStays DEF Renewed, Renew, Holds
      <4>4. CASE PublishRejected(c) \/ PublishAborted(c) \/ NotRenewed(c)
        BY <2>1, <3>0, <4>4, NotHeldStays DEF PublishRejected, PublishAborted, NotRenewed
      <4>5. QED
        BY <3>5, <4>1, <4>2, <4>3, <4>4 DEF Answer
    <3>6. QED
      BY <3>1, <3>2, <3>3, <3>4, <3>5 DEF RuntimeNext
  <2>4. QED
    BY <2>2, <2>3
<1>2. QED
  BY <1>1 DEF RejectedLost, Holds

\* A call leaves by taking effect, or with the process that made it.
LEMMA RejectedReportStep ==
  ASSUME WorkerOK, RejectedLost, [RuntimeNext]_vars,
         NEW c \in calls \ calls', c.op = "fail", c.why = "rejected"
  PROVE  jobs' = jobs
<1>0. ~Holds(c.owner, c.job)
  BY DEF RejectedLost
<1>1. CASE UNCHANGED store
  BY <1>1 DEF store, queue
<1>2. CASE UNCHANGED calls
  BY <1>2
<1>3. ASSUME NEW d \in calls, d # c, calls' = calls \ {d} PROVE FALSE
  BY <1>3
<1>4. CASE Outside \/ Enable \/ UNCHANGED vars
  BY <1>2, <1>4 DEF Outside, Enable, vars
<1>5. ASSUME NEW r \in Runtimes, RunOnce(r) PROVE jobs' = jobs
  BY <1>1, <1>2, <1>5
     DEF RunOnce, BeginRun, ClaimJob, ClaimNothing, CreateTask, BeginTask, Extracted, NotExtracted
<1>6. ASSUME NEW r \in Runtimes, Heartbeat(r) PROVE jobs' = jobs
  BY <1>1, <1>6 DEF Heartbeat
<1>7. ASSUME NEW r \in Runtimes, Admin(r) PROVE jobs' = jobs
  BY <1>1, <1>2, <1>7
     DEF Admin, Disable, DisableCancels, RequestReset, ResetCancels, Reset, Shutdown, Crash
<1>8. ASSUME NEW d \in calls, Answer(d) PROVE jobs' = jobs
  <2>1. CASE Published(d)
    <3>1. d # c
      BY <2>1 DEF Published
    <3>2. PICK why : AfterPublish(d, why)
      BY <2>1 DEF Published
    <3>3. c \in calls'
      BY <3>1, <3>2 DEF AfterPublish, StartFail
    <3>4. QED
      BY <3>3
  <2>2. CASE PublishRejected(d) \/ PublishAborted(d) \/ NotRenewed(d)
    BY <1>1, <2>2 DEF PublishRejected, PublishAborted, NotRenewed
  <2>3. CASE Failed(d)
    <3>1. d = c
      BY <1>3, <2>3 DEF Failed
    <3>2. QED
      BY <1>0, <1>1, <2>3, <3>1 DEF Failed, Fail
  <2>4. CASE Renewed(d)
    BY <1>3, <2>4 DEF Renewed
  <2>5. QED
    BY <1>8, <2>1, <2>2, <2>3, <2>4 DEF Answer
<1>9. QED
  BY <1>4, <1>5, <1>6, <1>7, <1>8 DEF RuntimeNext

\* An interruption is reported as one that may be retried, and the store believes it.
LEMMA InterruptedReportStep ==
  ASSUME TypeOK, WorkerOK, [RuntimeNext]_vars,
         NEW c \in calls \ calls', c.op = "fail", c.why = "interrupted",
         c.job \in DOMAIN jobs \cap DOMAIN jobs', jobs[c.job].attempts < MaxAttempts
  PROVE  \/ jobs'[c.job].status = jobs[c.job].status
         \/ jobs'[c.job].status = "retryable_failed"
<1>1. CASE UNCHANGED store
  BY <1>1 DEF store, queue
<1>2. CASE UNCHANGED calls
  BY <1>2
<1>3. ASSUME NEW d \in calls, d # c, calls' = calls \ {d} PROVE FALSE
  BY <1>3
<1>4. CASE Outside \/ Enable \/ UNCHANGED vars
  BY <1>2, <1>4 DEF Outside, Enable, vars
<1>5. CASE \E r \in Runtimes : RunOnce(r) \/ Heartbeat(r) \/ Admin(r)
  BY <1>1, <1>2, <1>5
     DEF RunOnce, BeginRun, ClaimJob, ClaimNothing, CreateTask, BeginTask, Extracted, NotExtracted,
         Heartbeat, StartFail, Goto,
         Admin, Disable, DisableCancels, RequestReset, ResetCancels, Reset, Shutdown, Crash
<1>6. ASSUME NEW d \in calls, Answer(d)
      PROVE  \/ jobs'[c.job].status = jobs[c.job].status
             \/ jobs'[c.job].status = "retryable_failed"
  <2>1. CASE Published(d)
    <3>1. d # c
      BY <2>1 DEF Published
    <3>2. PICK why : AfterPublish(d, why)
      BY <2>1 DEF Published
    <3>3. c \in calls'
      BY <3>1, <3>2 DEF AfterPublish, StartFail
    <3>4. QED
      BY <3>3
  <2>2. CASE PublishRejected(d) \/ PublishAborted(d) \/ NotRenewed(d)
    BY <1>1, <2>2 DEF PublishRejected, PublishAborted, NotRenewed
  <2>3. CASE Failed(d)
    <3>1. d = c
      BY <1>3, <2>3 DEF Failed
    <3>2. CASE Fail(c.owner, c.job, TRUE)
      <4>1. jobs'[c.job] = [Release(jobs[c.job], "retryable_failed")
                              EXCEPT !.available = now + RetryDelay(jobs[c.job].attempts)]
        BY <3>2 DEF Fail
      <4>2. jobs[c.job] \in Job
        BY DEF TypeOK
      <4>3. QED
        BY <4>1, <4>2 DEF Release, Job
    <3>3. (c.why \notin {"invalid", "rejected"}) = TRUE
      OBVIOUS
    <3>4. QED
      BY <1>1, <2>3, <3>1, <3>2, <3>3 DEF Failed
  <2>4. CASE Renewed(d)
    BY <1>3, <2>4 DEF Renewed
  <2>5. QED
    BY <1>6, <2>1, <2>2, <2>3, <2>4 DEF Answer
<1>7. QED
  BY <1>4, <1>5, <1>6 DEF RuntimeNext

-----------------------------------------------------------------------------
(***************************************************************************)
(* The theorems.                                                           *)
(***************************************************************************)

RuntimeInv ==
  TypeOK /\ QueueInv /\ WorkerOK /\ ClaimInv /\ LeaseKept /\ GrantMatches /\ RejectedLost

\* The invariant of the workers over the queue.
THEOREM RuntimeSafe == RuntimeSpec => []RuntimeInv
<1>1. RuntimeInit => RuntimeInv
  <2> SUFFICES ASSUME RuntimeInit PROVE RuntimeInv
    OBVIOUS
  <2>1. TypeOK /\ QueueInv /\ WorkerOK
    BY RuntimeInitially, InitTypeOK, InitQueueInv
  <2>2. ClaimInv /\ LeaseKept /\ GrantMatches /\ RejectedLost
    BY GraphJobsAssumption
       DEF RuntimeInit, ClaimInv, OwnersDiffer, CallsOfClaims, LeaseKept, GrantMatches,
           RejectedLost, Working, AtWork
  <2>3. QED
    BY <2>1, <2>2 DEF RuntimeInv
<1>2. RuntimeInv /\ [RuntimeNext]_vars => RuntimeInv'
  <2> SUFFICES ASSUME RuntimeInv, [RuntimeNext]_vars PROVE RuntimeInv'
    OBVIOUS
  <2>1. [Next]_store
    BY StoreStep DEF RuntimeInv
  <2>2. QED
    BY <2>1, TypeStep, QueueStep, WorkerStep, ClaimStep, LeaseStep, GrantStep, RejectedStep
       DEF RuntimeInv
<1>3. QED
  BY <1>1, <1>2, PTL DEF RuntimeSpec

\* The workers' state is well typed.
THEOREM RuntimeTypeCorrect == RuntimeSpec => []RuntimeTypeOK
<1>1. RuntimeInv => RuntimeTypeOK
  BY DEF RuntimeInv, WorkerOK, RuntimeTypeOK
<1>2. QED
  BY <1>1, RuntimeSafe, PTL

\* Any number of processes: no two work under leases on jobs the store still has.
THEOREM HoldersAlone == RuntimeSpec => []HoldersWorkAlone
<1>1. RuntimeInv => HoldersWorkAlone
  <2> SUFFICES ASSUME RuntimeInv, NEW q \in Runtimes, NEW r \in Runtimes,
                      WorksUnderLease(q), job[q] \in DOMAIN jobs,
                      WorksUnderLease(r), job[r] \in DOMAIN jobs
               PROVE  q = r
    BY DEF HoldersWorkAlone
  <2>1. ASSUME NEW p \in Runtimes, WorksUnderLease(p), job[p] \in DOMAIN jobs
        PROVE  Live(job[p]) /\ jobs[job[p]].owner = owner[p] /\ owner[p] \in Owners
    <3>1. Running(job[p]) /\ jobs[job[p]].owner = owner[p] /\ jobs[job[p]].lease >= granted[p]
      BY <2>1 DEF RuntimeInv, LeaseKept, WorksUnderLease, Working
    <3>2. now \in Nat /\ granted[p] \in Nat /\ granted[p] > now /\ jobs[job[p]].lease \in Nat
      BY <2>1 DEF RuntimeInv, TypeOK, Job, WorkerOK, WorksUnderLease
    <3>3. owner[p] \in Owners
      BY <2>1 DEF RuntimeInv, WorkerOK, WorksUnderLease, AtWork, Stages
    <3>4. QED
      BY <3>1, <3>2, <3>3 DEF Live
  <2>2. job[q] = job[r]
    BY <2>1 DEF RuntimeInv, QueueInv, AtMostOneLive
  <2>3. QED
    BY <2>1, <2>2 DEF RuntimeInv, ClaimInv, OwnersDiffer
<1>2. QED
  BY <1>1, RuntimeSafe, PTL

\* A publication that was refused is never reported to anybody's harm.
THEOREM RejectedReportsHarmless == RuntimeSpec => RejectedReportIsHarmless
<1>1. RuntimeInv /\ [RuntimeNext]_vars =>
        [\A c \in calls \ calls' : c.op = "fail" /\ c.why = "rejected" => jobs' = jobs]_vars
  BY RejectedReportStep DEF RuntimeInv
<1>2. QED
  BY <1>1, RuntimeSafe, PTL DEF RuntimeSpec, RejectedReportIsHarmless

\* The report of a worker that was stopped or cancelled never costs a job the attempts it
\* has left (_process_job and run_once of app/graph_runtime.py, fail_graph_job).
THEOREM InterruptionsRetried == RuntimeSpec => InterruptionIsRetried
<1>1. RuntimeInv /\ [RuntimeNext]_vars =>
        [\A c \in calls \ calls', j \in DOMAIN jobs \cap DOMAIN jobs' :
           /\ c.op = "fail" /\ c.why = "interrupted" /\ c.job = j
           /\ jobs[j].attempts < MaxAttempts
           => jobs'[j].status = jobs[j].status \/ jobs'[j].status = "retryable_failed"]_vars
  BY InterruptedReportStep DEF RuntimeInv
<1>2. QED
  BY <1>1, RuntimeSafe, PTL DEF RuntimeSpec, InterruptionIsRetried

\* Any number of processes, however the switch is turned and whatever calls outlive their
\* tasks: nothing enters the graph while it is off, or under a claim that was taken back.
THEOREM NothingEntersWhileOff == RuntimeSpec => OffKeepsOut
<1>1. RuntimeInv /\ [RuntimeNext]_vars =>
        [\A j \in DOMAIN extractions' \ DOMAIN extractions :
           /\ enabled
           /\ \A c \in calls \ calls' : Awaited(c) => granted[c.by] > now]_vars
  BY EntersByHolder DEF RuntimeInv
<1>2. QED
  BY <1>1, RuntimeSafe, PTL DEF RuntimeSpec, OffKeepsOut
=============================================================================
