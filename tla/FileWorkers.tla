---------------------------- MODULE FileWorkers ----------------------------
(***************************************************************************)
(* The bounded workers that check an uploaded PDF (app/pdf_files.py) or    *)
(* image (app/image_files.py, the same code) and save it: at most          *)
(* MaxAdmitted uploads are admitted, at most WorkerLimit of them are in a  *)
(* thread, and the request only waits for a task that is shielded from its *)
(* own cancellation.                                                       *)
(***************************************************************************)
EXTENDS Naturals, FiniteSets

CONSTANTS
  Uploads,      \* requests with a file
  MaxAdmitted,  \* _PDF_WORKER_MAX_ADMITTED
  WorkerLimit   \* _PDF_WORKER_LIMIT

ASSUME WorkersAssumption == MaxAdmitted \in Nat /\ WorkerLimit \in Nat

VARIABLES
  admitted,  \* _pdf_worker_admitted
  task,      \* upload -> its task: "none", "queued", "running", "done"
  inThread,  \* uploads whose function runs in a thread
  waiting    \* uploads whose request is still there

workerVars == <<admitted, task, inThread, waiting>>

WorkersInit ==
  /\ admitted = 0
  /\ task = [u \in Uploads |-> "none"]
  /\ inThread = {} /\ waiting = {}

Admit(u) ==
  /\ task[u] = "none" /\ u \notin waiting /\ u \notin inThread
  /\ admitted < MaxAdmitted
  /\ admitted' = admitted + 1
  /\ task' = [task EXCEPT ![u] = "queued"]
  /\ waiting' = waiting \cup {u}
  /\ UNCHANGED inThread

\* Past the semaphore, into a thread.
Start(u) ==
  /\ task[u] = "queued"
  /\ Cardinality({v \in Uploads : task[v] = "running"}) < WorkerLimit
  /\ task' = [task EXCEPT ![u] = "running"]
  /\ inThread' = inThread \cup {u}
  /\ UNCHANGED <<admitted, waiting>>

\* The function has saved the file, or raised.
ThreadEnds(u) ==
  /\ u \in inThread
  /\ inThread' = inThread \ {u}
  /\ task' = [task EXCEPT ![u] = IF @ = "running" THEN "done" ELSE @]
  /\ UNCHANGED <<admitted, waiting>>

\* The done callback gives the slot back; a request that is still there gets its answer.
ReleaseSlot(u) ==
  /\ task[u] = "done"
  /\ admitted' = admitted - 1
  /\ task' = [task EXCEPT ![u] = "none"]
  /\ waiting' = waiting \ {u}
  /\ UNCHANGED inThread

\* Mutant: the request takes its task along.
LeaveUnshielded(u) ==
  /\ u \in waiting
  /\ waiting' = waiting \ {u}
  /\ task' = [task EXCEPT ![u] = "done"]
  /\ UNCHANGED <<admitted, inThread>>

\* The request is cancelled: the task goes on, and saves the file.
Leave(u) ==
  /\ u \in waiting
  /\ waiting' = waiting \ {u}
  /\ UNCHANGED <<admitted, task, inThread>>

WorkersNext ==
  \E u \in Uploads : Admit(u) \/ Start(u) \/ ThreadEnds(u) \/ ReleaseSlot(u) \/ Leave(u)

WorkersSpec == WorkersInit /\ [][WorkersNext]_workerVars

\* However many requests go away while their files are being checked, no more than
\* WorkerLimit threads ever work at once and no more than MaxAdmitted uploads are held;
\* and the slots that are taken are those of tasks that have not ended, so none is lost
\* (run_pdf_worker, run_image_worker).
WorkersBounded ==
  /\ Cardinality(inThread) <= WorkerLimit
  /\ Cardinality({u \in Uploads : task[u] # "none"} \cup inThread) <= MaxAdmitted
  /\ admitted = Cardinality({u \in Uploads : task[u] # "none"})
=============================================================================
