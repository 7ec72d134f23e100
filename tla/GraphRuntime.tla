---------------------------- MODULE GraphRuntime ----------------------------
(***************************************************************************)
(* The Graph worker of app/graph_runtime.py, over the queue of GraphJobs.  *)
(*                                                                         *)
(* A runtime is one GraphRuntime object in one process; two of them share  *)
(* the database when a restarted service overlaps the old one.  Every      *)
(* asyncio.to_thread call is a message: it is put in calls when the        *)
(* coroutine starts it and takes effect on the store later, on its own.    *)
(* Cancelling the coroutine does not recall it, so calls may outlive the   *)
(* task that made them.                                                    *)
(*                                                                         *)
(* Where one runtime stands in run_once (pc):                              *)
(*   idle        _run_lock is free                                         *)
(*   claiming    enqueue is done, the claim is about to run                *)
(*   claimed     the job is ours in the store, no task exists yet          *)
(*   releasing   cancelled while claimed: the job is being given back      *)
(*   scheduled   _active_task is created, its first step has not run       *)
(*   extracting  context, prompt and the Codex turn                        *)
(*   publishing  the publish call is awaited                               *)
(*   failing     a fail call is awaited                                    *)
(***************************************************************************)
EXTENDS GraphJobs

CONSTANTS
  Runtimes,        \* GraphRuntime objects
  NoJob,           \* no job at hand
  MaxDisturbances  \* bound: times Graph is turned off, a rescan is requested,
                   \* or a process is stopped or dies

ASSUME GraphRuntimeAssumption ==
  /\ NoJob \notin Nat
  /\ MaxDisturbances \in Nat

VARIABLES
  pc,         \* runtime -> where its run_once stands
  job,        \* runtime -> the job it processes
  owner,      \* runtime -> the lease owner of this claim
  calls,      \* store calls running in threads
  disabling,  \* runtimes whose set_enabled(False) has yet to cancel the task
  resetting,  \* runtime -> state of reset_all: no, waiting, cancelled (the task)
  granted,    \* ghost: runtime -> end of the lease its process knows it has
  disturbances \* ghost: counts towards MaxDisturbances

worker == <<pc, job, owner>>
admin  == <<disabling, resetting>>
vars   == <<store, worker, calls, admin, granted, disturbances>>

Stages == {"idle", "claiming", "claimed", "releasing", "scheduled",
           "extracting", "publishing", "failing"}

\* Why a fail call is made; only "rejected" and "invalid" are not retryable.
Reasons == {"interrupted", "transient", "invalid", "rejected"}

Call == [op : {"publish", "fail", "renew"}, by : Runtimes, job : Nat, owner : Owners,
         why : Reasons \cup {"none"}]

RuntimeTypeOK ==
  /\ TypeOK
  /\ pc \in [Runtimes -> Stages]
  /\ job \in [Runtimes -> Nat \cup {NoJob}]
  /\ owner \in [Runtimes -> Owners \cup {NoOwner}]
  /\ calls \subseteq Call
  /\ disabling \subseteq Runtimes
  /\ resetting \in [Runtimes -> {"no", "waiting", "cancelled"}]
  /\ granted \in [Runtimes -> Nat]
  /\ disturbances \in Nat

RuntimeInit ==
  /\ Init
  /\ pc = [r \in Runtimes |-> "idle"]
  /\ job = [r \in Runtimes |-> NoJob]
  /\ owner = [r \in Runtimes |-> NoOwner]
  /\ calls = {}
  /\ disabling = {}
  /\ resetting = [r \in Runtimes |-> "no"]
  /\ granted = [r \in Runtimes |-> 0]
  /\ disturbances = 0

-----------------------------------------------------------------------------

\* Mutant of Active: the lock is taken for the task.
Locked(r) == pc[r] # "idle"

\* _active_task exists and is not done.
Active(r) == pc[r] \in {"scheduled", "extracting", "publishing", "failing"}

\* A store call of this runtime's present claim.
MyCall(r, op, why) == [op |-> op, by |-> r, job |-> job[r], owner |-> owner[r], why |-> why]

\* The call is made by the claim its runtime still works on.
Awaited(c) == owner[c.by] = c.owner /\ pc[c.by] # "idle"

\* uuid4: a lease owner that nothing in the system mentions.
Fresh(o) ==
  /\ \A j \in DOMAIN jobs : jobs[j].owner # o
  /\ \A c \in calls : c.owner # o
  /\ \A r \in Runtimes : owner[r] # o

\* Mutant of Finish: the reset that awaited the task is not woken.
FinishSilently(r) ==
  /\ pc' = [pc EXCEPT ![r] = "idle"]
  /\ job' = [job EXCEPT ![r] = NoJob]
  /\ owner' = [owner EXCEPT ![r] = NoOwner]
  /\ granted' = [granted EXCEPT ![r] = 0]
  /\ UNCHANGED resetting

\* run_once returns and releases _run_lock; a reset that awaited the task looks again.
Finish(r) ==
  /\ pc' = [pc EXCEPT ![r] = "idle"]
  /\ job' = [job EXCEPT ![r] = NoJob]
  /\ owner' = [owner EXCEPT ![r] = NoOwner]
  /\ granted' = [granted EXCEPT ![r] = 0]
  /\ resetting' = [resetting EXCEPT ![r] = IF @ = "cancelled" THEN "waiting" ELSE @]

Goto(r, stage) ==
  /\ pc' = [pc EXCEPT ![r] = stage]
  /\ UNCHANGED <<job, owner, granted>>

\* The coroutine starts a fail call in a thread and waits for it.
StartFail(r, C, why, reset) ==
  /\ Goto(r, "failing")
  /\ calls' = C \cup {MyCall(r, "fail", why)}
  /\ resetting' = reset

\* task.cancel(), seen by the task.  A task whose first step has not run ends
\* without entering its try block; one that awaits a thread leaves the call
\* behind and gives the job back; one already giving it back just ends.
CancelTask(r, C, reset) ==
  \/ /\ pc[r] \in {"extracting", "publishing"}
     /\ StartFail(r, C, "interrupted", reset)
  \/ /\ pc[r] \in {"scheduled", "failing"}
     /\ Finish(r)
     /\ calls' = C

Disturb ==
  /\ disturbances < MaxDisturbances
  /\ disturbances' = disturbances + 1

(***************************************************************************)
(* run_once                                                                *)
(***************************************************************************)

\* The enqueue transaction of run_once, which does nothing while Graph is off.
BeginRun(r) ==
  /\ pc[r] = "idle"
  /\ \/ Enqueue
     \/ ~enabled /\ UNCHANGED store
  /\ Goto(r, "claiming")
  /\ UNCHANGED <<calls, admin, disturbances>>

ClaimJob(r) ==
  /\ pc[r] = "claiming"
  /\ \E o \in Owners, j \in DOMAIN jobs :
       /\ Fresh(o)
       /\ Claim(o, j)
       /\ job' = [job EXCEPT ![r] = j]
       /\ owner' = [owner EXCEPT ![r] = o]
  /\ pc' = [pc EXCEPT ![r] = "claimed"]
  /\ granted' = [granted EXCEPT ![r] = now + LeaseSeconds]
  /\ UNCHANGED <<calls, admin, disturbances>>

ClaimNothing(r) ==
  /\ pc[r] = "claiming"
  /\ \/ ClaimNone
     \/ ~enabled /\ UNCHANGED store
  /\ Finish(r)
  /\ UNCHANGED <<calls, disabling, disturbances>>

\* run_once resumes with the job: from here on _active_task can be cancelled.
CreateTask(r) ==
  /\ pc[r] = "claimed"
  /\ Goto(r, "scheduled")
  /\ UNCHANGED <<store, calls, admin, disturbances>>

BeginTask(r) ==
  /\ pc[r] = "scheduled"
  /\ Goto(r, "extracting")
  /\ UNCHANGED <<store, calls, admin, disturbances>>

\* Codex answered and the answer is valid.
Extracted(r) ==
  /\ pc[r] = "extracting"
  /\ Goto(r, "publishing")
  /\ calls' = calls \cup {MyCall(r, "publish", "none")}
  /\ UNCHANGED <<store, admin, disturbances>>

\* The context is gone, Codex failed, or the answer is invalid.
NotExtracted(r) ==
  /\ pc[r] = "extracting"
  /\ \E why \in {"transient", "invalid"} : StartFail(r, calls, why, resetting)
  /\ UNCHANGED <<store, disabling, disturbances>>

(***************************************************************************)
(* The store calls take effect, in any order.                              *)
(***************************************************************************)

\* What the task does with the outcome of its publish call, if it still waits.
AfterPublish(c, why) ==
  IF Awaited(c) /\ pc[c.by] = "publishing"
  THEN IF why = "none"
       THEN Finish(c.by) /\ calls' = calls \ {c}
       ELSE StartFail(c.by, calls \ {c}, why, resetting)
  ELSE calls' = calls \ {c} /\ UNCHANGED <<worker, granted, resetting>>

\* The rows are committed; reading the analysis back may still raise.
Published(c) ==
  /\ c.op = "publish"
  /\ Publish(c.owner, c.job)
  /\ \E why \in {"none", "transient"} : AfterPublish(c, why)
  /\ UNCHANGED <<disabling, disturbances>>

\* ValueError: the job is no longer publishable.
PublishRejected(c) ==
  /\ c.op = "publish"
  /\ ~Holds(c.owner, c.job)
  /\ AfterPublish(c, "rejected")
  /\ UNCHANGED <<store, disabling, disturbances>>

\* The transaction rolls back (database locked, UNIQUE violated).
PublishAborted(c) ==
  /\ c.op = "publish"
  /\ AfterPublish(c, "transient")
  /\ UNCHANGED <<store, disabling, disturbances>>

Failed(c) ==
  /\ c.op = "fail"
  /\ \/ Fail(c.owner, c.job, c.why \notin {"invalid", "rejected"})
     \/ ~Holds(c.owner, c.job) /\ UNCHANGED store
     \/ UNCHANGED store            \* the transaction rolls back
  /\ calls' = calls \ {c}
  /\ IF Awaited(c) THEN Finish(c.by) ELSE UNCHANGED <<worker, granted, resetting>>
  /\ UNCHANGED <<disabling, disturbances>>

\* _heartbeat: one renewal at a time while the task is not done.
Heartbeat(r) ==
  /\ Active(r)
  /\ \A c \in calls : ~(c.op = "renew" /\ c.owner = owner[r])
  /\ calls' = calls \cup {MyCall(r, "renew", "none")}
  /\ UNCHANGED <<store, worker, admin, granted, disturbances>>

Renewed(c) ==
  /\ c.op = "renew"
  /\ Renew(c.owner, c.job)
  /\ calls' = calls \ {c}
  /\ granted' = IF Awaited(c) THEN [granted EXCEPT ![c.by] = now + LeaseSeconds]
                ELSE granted
  /\ UNCHANGED <<worker, admin, disturbances>>

\* The renewal is refused or raises: the heartbeat cancels the task.
NotRenewed(c) ==
  /\ c.op = "renew"
  /\ IF Awaited(c) /\ Active(c.by)
     THEN CancelTask(c.by, calls \ {c}, resetting)
     ELSE calls' = calls \ {c} /\ UNCHANGED <<worker, granted, resetting>>
  /\ UNCHANGED <<store, disabling, disturbances>>

(***************************************************************************)
(* The administrator, the service manager, the machine.                    *)
(***************************************************************************)

Enable ==
  /\ SetEnabled(TRUE)
  /\ UNCHANGED <<worker, calls, admin, granted, disturbances>>

\* set_enabled(False): the store first ...
Disable(r) ==
  /\ Disturb
  /\ SetEnabled(FALSE)
  /\ disabling' = disabling \cup {r}
  /\ granted' = [q \in Runtimes |-> 0]      \* every lease is revoked
  /\ UNCHANGED <<worker, calls, resetting>>

\* ... then the task, if there is one.
DisableCancels(r) ==
  /\ r \in disabling
  /\ disabling' = disabling \ {r}
  /\ IF Active(r) THEN CancelTask(r, calls, resetting)
     ELSE UNCHANGED <<worker, granted, calls, resetting>>
  /\ UNCHANGED <<store, disturbances>>

\* reset_all waits for _run_lock, cancelling the task that holds it.
RequestReset(r) ==
  /\ Disturb
  /\ resetting[r] = "no"
  /\ resetting' = [resetting EXCEPT ![r] = "waiting"]
  /\ UNCHANGED <<store, worker, calls, disabling, granted>>

ResetCancels(r) ==
  /\ resetting[r] = "waiting"
  /\ Active(r)
  /\ CancelTask(r, calls, [resetting EXCEPT ![r] = "cancelled"])
  /\ UNCHANGED <<store, disabling, disturbances>>

\* _run_lock is free: the rescan runs under it, or is refused.
Reset(r) ==
  /\ resetting[r] = "waiting"
  /\ pc[r] = "idle"
  /\ \/ ResetScan
     \/ ~enabled /\ UNCHANGED store
  /\ resetting' = [resetting EXCEPT ![r] = "no"]
  /\ UNCHANGED <<worker, calls, disabling, granted, disturbances>>

\* The service stops in an orderly way: the monitor task is cancelled.
Shutdown(r) ==
  /\ Disturb
  /\ \/ /\ Active(r)
        /\ CancelTask(r, calls, resetting)
     \/ /\ pc[r] = "claimed"
        /\ Goto(r, "releasing")
        /\ calls' = calls \cup {MyCall(r, "fail", "interrupted")}
        /\ UNCHANGED resetting
  /\ UNCHANGED <<store, disabling>>

\* The process dies with everything it has in memory, and is started again.
Crash(r) ==
  /\ Disturb
  /\ pc' = [pc EXCEPT ![r] = "idle"]
  /\ job' = [job EXCEPT ![r] = NoJob]
  /\ owner' = [owner EXCEPT ![r] = NoOwner]
  /\ calls' = {c \in calls : c.by # r}
  /\ disabling' = disabling \ {r}
  /\ resetting' = [resetting EXCEPT ![r] = "no"]
  /\ granted' = [granted EXCEPT ![r] = 0]
  /\ UNCHANGED store

-----------------------------------------------------------------------------

Outside ==
  /\ Tick \/ ContentNext
  /\ UNCHANGED <<worker, calls, admin, granted, disturbances>>

RunOnce(r) ==
  \/ BeginRun(r) \/ ClaimJob(r) \/ ClaimNothing(r) \/ CreateTask(r) \/ BeginTask(r)
  \/ Extracted(r) \/ NotExtracted(r)

Answer(c) ==
  \/ Published(c) \/ PublishRejected(c) \/ PublishAborted(c)
  \/ Failed(c) \/ Renewed(c) \/ NotRenewed(c)

Admin(r) ==
  \/ Disable(r) \/ DisableCancels(r)
  \/ RequestReset(r) \/ ResetCancels(r) \/ Reset(r)
  \/ Shutdown(r) \/ Crash(r)

RuntimeNext ==
  \/ Outside
  \/ Enable
  \/ \E r \in Runtimes : RunOnce(r) \/ Heartbeat(r) \/ Admin(r)
  \/ \E c \in calls : Answer(c)

RuntimeSpec == RuntimeInit /\ [][RuntimeNext]_vars

-----------------------------------------------------------------------------
(***************************************************************************)
(* What the workers promise.                                               *)
(***************************************************************************)

\* The runtime works on a job under a lease that, as far as it knows, is good.
WorksUnderLease(r) ==
  /\ pc[r] \in {"claimed", "scheduled", "extracting", "publishing"}
  /\ granted[r] > now

\* Two processes never work at the same time on jobs the store still has, under
\* leases they may both believe in: not across claims, lapsed leases, late
\* renewals or crashes.  Turning Graph off revokes the leases; a job that a rescan has
\* deleted is another matter: its worker goes on, and after a second rescan, which finds
\* no running row to wait for, another one may start.
HoldersWorkAlone ==
  \A q, r \in Runtimes :
    /\ WorksUnderLease(q) /\ job[q] \in DOMAIN jobs
    /\ WorksUnderLease(r) /\ job[r] \in DOMAIN jobs
    => q = r

\* A worker whose publish was refused then reports the job as failed for good;
\* that report must never reach a job that somebody else may still finish.
RejectedReportIsHarmless ==
  [][\A c \in calls \ calls' : c.op = "fail" /\ c.why = "rejected" => jobs' = jobs]_vars

\* No work is thrown away by an interruption alone: a worker that is cancelled
\* leaves its job failed for good only on its last attempt.
InterruptionIsRetried ==
  [][\A c \in calls \ calls', j \in DOMAIN jobs \cap DOMAIN jobs' :
       /\ c.op = "fail" /\ c.why = "interrupted" /\ c.job = j
       /\ jobs[j].attempts < MaxAttempts
       => jobs'[j].status = jobs[j].status \/ jobs'[j].status = "retryable_failed"]_vars

\* No analysis enters the graph while Graph is off; nor, once it is on again, by a worker
\* whose claim the switch took back while its publication was on its way, or whose lease
\* has run out as far as its process knows.
OffKeepsOut ==
  [][\A j \in DOMAIN extractions' \ DOMAIN extractions :
       /\ enabled
       /\ \A c \in calls \ calls' : Awaited(c) => granted[c.by] > now]_vars

(***************************************************************************)
(* What the documentation promises and the code does not keep.             *)
(***************************************************************************)

\* "No automatic work runs while Graph is off" (web/graph-viewer.js): once the call that
\* turned it off has returned, no Codex turn is under way.
IdleWhileOff ==
  ~enabled /\ disabling = {} => \A r \in Runtimes : pc[r] # "extracting"
=============================================================================
