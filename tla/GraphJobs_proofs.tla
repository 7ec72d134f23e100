--------------------------- MODULE GraphJobs_proofs ---------------------------
(* Theorems about the durable Graph queue, for every value of its constants. *)
EXTENDS GraphJobs, FiniteSetTheorems, TLAPS

(***************************************************************************)
(* Helpers.                                                                *)
(***************************************************************************)

\* A set of exchanges has a size.
LEMMA ExchangesFinite ==
  ASSUME TypeOK, NEW E \in SUBSET DOMAIN exchanges
  PROVE  IsFiniteSet(E) /\ Cardinality(E) \in Nat
<1>1. IsFiniteSet(1..MaxExchanges)
  BY FS_Interval, GraphJobsAssumption
<1>2. IsFiniteSet(E)
  BY <1>1, FS_Subset DEF TypeOK
<1>3. QED
  BY <1>2, FS_CardinalityType

\* Giving up a lease changes status, owner and lease only.
LEMMA ReleaseType ==
  ASSUME NEW row \in Job, NEW status \in Status
  PROVE  /\ Release(row, status) \in Job
         /\ Release(row, status).status = status
         /\ Release(row, status).attempts = row.attempts
BY DEF Release, Job

-----------------------------------------------------------------------------
(***************************************************************************)
(* Types.                                                                  *)
(***************************************************************************)

\* Inserting queued rows keeps the tables well typed.
LEMMA InsertQueuedType ==
  ASSUME TypeOK, NEW kept, NEW E \in SUBSET DOMAIN exchanges, NEW at \in Nat,
         DOMAIN kept \subseteq DOMAIN jobs,
         kept \in [DOMAIN kept -> Job],
         InsertQueued(kept, E, at)
  PROVE  /\ nextJob' \in Nat \ {0}
         /\ DOMAIN jobs' \subseteq 1..(nextJob' - 1)
         /\ jobs' \in [DOMAIN jobs' -> Job]
         /\ DOMAIN kept \subseteq DOMAIN jobs'
<1>1. Cardinality(E) \in Nat
  BY ExchangesFinite
<1>2. nextJob' = nextJob + Cardinality(E)
  BY DEF InsertQueued
<1>3. PICK num \in Numberings(E) :
        jobs' = [j \in DOMAIN kept \cup DOMAIN num |->
                   IF j \in DOMAIN num THEN QueuedJob(num[j], at) ELSE kept[j]]
  BY DEF InsertQueued
<1>4. num \in [nextJob .. (nextJob + Cardinality(E) - 1) -> E]
  BY DEF Numberings
<1>5. ASSUME NEW e \in E PROVE QueuedJob(e, at) \in Job
  <2>1. exchanges[e].session \in Sessions /\ e \in Nat
    BY DEF TypeOK, Exchange
  <2>2. QED
    BY <2>1 DEF TypeOK, QueuedJob, Job, Status
<1>6. DOMAIN num \subseteq 1..(nextJob' - 1) /\ DOMAIN kept \subseteq 1..(nextJob' - 1)
  BY <1>1, <1>2, <1>4 DEF TypeOK
<1>7. DOMAIN jobs' = DOMAIN kept \cup DOMAIN num
  BY <1>3
<1>8. ASSUME NEW j \in DOMAIN jobs' PROVE jobs'[j] \in Job
  <2>1. CASE j \in DOMAIN num
    BY <1>3, <1>4, <1>5, <1>7, <2>1
  <2>2. CASE j \notin DOMAIN num
    BY <1>3, <1>7, <2>2
  <2>3. QED
    BY <2>1, <2>2
<1>9. nextJob' \in Nat \ {0}
  BY <1>1, <1>2 DEF TypeOK
<1>10. jobs' \in [DOMAIN jobs' -> Job]
  BY <1>3, <1>8
<1>11. QED
  BY <1>6, <1>7, <1>9, <1>10

\* Every step of the queue keeps the tables well typed.
LEMMA TypeStep == TypeOK /\ [Next]_store => TypeOK'
<1> SUFFICES ASSUME TypeOK, [Next]_store PROVE TypeOK'
  OBVIOUS
<1> USE GraphJobsAssumption
<1>1. CASE Tick
  BY <1>1 DEF Tick, TypeOK, content, queue
<1>2. ASSUME NEW s \in Sessions, SaveExchange(s) PROVE TypeOK'
  <2> DEFINE e == Cardinality(DOMAIN exchanges) + 1
             row == [session |-> s, at |-> now, deleted |-> FALSE]
  <2>1. e \in 1..MaxExchanges
    BY <1>2, ExchangesFinite DEF SaveExchange
  <2>2. row \in Exchange
    BY DEF TypeOK, Exchange
  <2>3. exchanges' = [f \in DOMAIN exchanges \cup {e} |-> IF f = e THEN row ELSE exchanges[f]]
    BY <1>2 DEF SaveExchange
  <2>4. /\ DOMAIN exchanges' \subseteq 1..MaxExchanges
        /\ exchanges' \in [DOMAIN exchanges' -> Exchange]
    <3> HIDE DEF e, row
    <3> QED BY <2>1, <2>2, <2>3 DEF TypeOK
  <2>5. UNCHANGED <<now, enabled, profile, excluded, queue>>
    BY <1>2 DEF SaveExchange
  <2>6. QED
    BY <2>4, <2>5 DEF TypeOK, queue
<1>3. ASSUME NEW e \in DOMAIN exchanges, NEW deleted \in BOOLEAN, MarkExchange(e, deleted)
      PROVE TypeOK'
  <2>1. [exchanges[e] EXCEPT !.deleted = deleted] \in Exchange
    BY DEF TypeOK, Exchange
  <2>2. exchanges' = [exchanges EXCEPT ![e] = [exchanges[e] EXCEPT !.deleted = deleted]]
    BY <1>3 DEF MarkExchange
  <2>3. /\ DOMAIN exchanges' = DOMAIN exchanges
        /\ exchanges' \in [DOMAIN exchanges' -> Exchange]
    BY <2>1, <2>2 DEF TypeOK
  <2>4. QED
    BY <1>3, <2>3 DEF MarkExchange, TypeOK, queue
<1>4. ASSUME NEW S \in SUBSET Movable, SetExcluded(S) PROVE TypeOK'
  BY <1>4 DEF SetExcluded, TypeOK, queue
<1>5. CASE ActivateProfile
  BY <1>5 DEF ActivateProfile, TypeOK, queue
<1>6. ASSUME NEW value \in BOOLEAN, SetEnabled(value) PROVE TypeOK'
  <2>1. /\ DOMAIN jobs' = DOMAIN jobs
        /\ jobs' \in [DOMAIN jobs' -> Job]
    BY <1>6, ReleaseType DEF SetEnabled, TypeOK, Status
  <2>2. QED
    BY <1>6, <2>1 DEF SetEnabled, TypeOK, content
<1>7. CASE Enqueue
  <2>1. {e \in Candidates : Inactive(e) /\ ~HasJob(e)} \in SUBSET DOMAIN exchanges
    BY DEF Candidates, LiveExchanges
  <2>2. /\ nextJob' \in Nat \ {0}
        /\ DOMAIN jobs' \subseteq 1..(nextJob' - 1)
        /\ jobs' \in [DOMAIN jobs' -> Job]
        /\ DOMAIN jobs \subseteq DOMAIN jobs'
    BY <1>7, <2>1, InsertQueuedType DEF Enqueue, TypeOK
  <2>3. UNCHANGED <<now, enabled, content, extractions, current>>
    BY <1>7 DEF Enqueue
  <2>4. QED
    BY <2>2, <2>3 DEF TypeOK, content
<1>8. CASE ResetScan
  <2>1. PICK fresh \in {now} \cup {jobs[j].lease : j \in {k \in DOMAIN jobs : Running(k)}} :
          InsertQueued(<< >>, Candidates, fresh)
    BY <1>8 DEF ResetScan
  <2>2. fresh \in Nat
    BY DEF TypeOK, Job
  <2>3. Candidates \in SUBSET DOMAIN exchanges
    BY DEF Candidates, LiveExchanges
  <2>4. DOMAIN << >> \subseteq DOMAIN jobs /\ << >> \in [DOMAIN << >> -> Job]
    OBVIOUS
  <2>5. /\ nextJob' \in Nat \ {0}
        /\ DOMAIN jobs' \subseteq 1..(nextJob' - 1)
        /\ jobs' \in [DOMAIN jobs' -> Job]
    BY <2>1, <2>2, <2>3, <2>4, InsertQueuedType
  <2>6. /\ DOMAIN extractions' = {} /\ DOMAIN current' = {}
        /\ extractions' \in [DOMAIN extractions' -> Extraction]
        /\ current' \in [DOMAIN current' -> DOMAIN extractions']
    BY <1>8 DEF ResetScan
  <2>7. UNCHANGED <<now, enabled, content>>
    BY <1>8 DEF ResetScan
  <2>8. QED
    BY <2>5, <2>6, <2>7 DEF TypeOK, content
<1>9. /\ DOMAIN SweepExhausted = DOMAIN jobs
      /\ SweepExhausted \in [DOMAIN jobs -> Job]
  BY ReleaseType DEF SweepExhausted, TypeOK, Status
<1>10. CASE ClaimNone
  BY <1>9, <1>10 DEF ClaimNone, TypeOK, content
<1>11. ASSUME NEW o \in Owners, NEW j \in DOMAIN jobs, Claim(o, j) PROVE TypeOK'
  <2> DEFINE row == [jobs[j] EXCEPT !.status = "running", !.attempts = @ + 1,
                                    !.owner = o, !.lease = now + LeaseSeconds]
  <2>1. row \in Job
    <3>1. jobs[j] \in Job /\ now + LeaseSeconds \in Nat
      BY DEF TypeOK
    <3>2. jobs[j].attempts + 1 \in Nat /\ jobs[j].owner \in Owners \cup {NoOwner}
      BY <3>1 DEF Job
    <3>3. QED
      BY <3>1, <3>2 DEF Job, Status
  <2>2. jobs' = [SweepExhausted EXCEPT ![j] = row]
    BY <1>11 DEF Claim
  <2>3. /\ DOMAIN jobs' = DOMAIN jobs
        /\ jobs' \in [DOMAIN jobs' -> Job]
    <3> HIDE DEF row
    <3> QED BY <1>9, <2>1, <2>2
  <2>4. QED
    BY <1>11, <2>3 DEF Claim, TypeOK, content
<1>12. ASSUME NEW o \in Owners, NEW j \in DOMAIN jobs, Renew(o, j) PROVE TypeOK'
  <2>1. [jobs[j] EXCEPT !.lease = now + LeaseSeconds] \in Job
    BY DEF TypeOK, Job
  <2>2. /\ DOMAIN jobs' = DOMAIN jobs
        /\ jobs' \in [DOMAIN jobs' -> Job]
    BY <1>12, <2>1 DEF Renew, TypeOK
  <2>3. QED
    BY <1>12, <2>2 DEF Renew, TypeOK, content
<1>13. ASSUME NEW o \in Owners, NEW j \in DOMAIN jobs, Publish(o, j) PROVE TypeOK'
  <2>1. jobs[j] \in Job
    BY DEF TypeOK
  <2>2. /\ DOMAIN jobs' = DOMAIN jobs
        /\ jobs' \in [DOMAIN jobs' -> Job]
    BY <1>13, <2>1, ReleaseType DEF Publish, TypeOK, Status
  <2>3. [session |-> jobs[j].session, source |-> jobs[j].source,
         profile |-> jobs[j].profile] \in Extraction
    BY <2>1 DEF Job, Extraction
  <2>4. /\ DOMAIN extractions' = DOMAIN extractions \cup {j}
        /\ extractions' \in [DOMAIN extractions' -> Extraction]
    BY <1>13, <2>3 DEF Publish, TypeOK
  <2>5. /\ DOMAIN current' \subseteq Sessions
        /\ current' \in [DOMAIN current' -> DOMAIN extractions']
    BY <1>13, <2>1, <2>4 DEF Publish, TypeOK, Job
  <2>6. QED
    BY <1>13, <2>2, <2>4, <2>5 DEF Publish, TypeOK, content
<1>14. ASSUME NEW o \in Owners, NEW j \in DOMAIN jobs, NEW retryable \in BOOLEAN,
              Fail(o, j, retryable)
       PROVE TypeOK'
  <2>1. jobs[j] \in Job
    BY DEF TypeOK
  <2> DEFINE status == IF retryable /\ jobs[j].attempts < MaxAttempts
                       THEN "retryable_failed" ELSE "terminal_failed"
             at == now + RetryDelay(jobs[j].attempts)
  <2>2. RetryDelay(jobs[j].attempts) \in Nat
    BY DEF RetryDelay
  <2>3. at \in Nat
    BY <2>2 DEF TypeOK
  <2>4. Release(jobs[j], status) \in Job
    BY <2>1, ReleaseType DEF Status
  <2>5. [Release(jobs[j], status) EXCEPT !.available = at] \in Job
    <3> HIDE DEF at, status
    <3> QED BY <2>3, <2>4 DEF Job
  <2>6. jobs' = [jobs EXCEPT ![j] = [Release(jobs[j], status) EXCEPT !.available = at]]
    BY <1>14 DEF Fail
  <2>7. /\ DOMAIN jobs' = DOMAIN jobs
        /\ jobs' \in [DOMAIN jobs' -> Job]
    <3> HIDE DEF at, status
    <3> QED BY <2>5, <2>6 DEF TypeOK
  <2>8. QED
    BY <1>14, <2>7 DEF Fail, TypeOK, content
<1>15. CASE UNCHANGED store
  BY <1>15 DEF store, content, queue, TypeOK
<1>16. QED
  BY <1>1, <1>2, <1>3, <1>4, <1>5, <1>6, <1>7, <1>8, <1>10, <1>11, <1>12, <1>13,
     <1>14, <1>15 DEF Next, ContentNext, QueueNext

\* The empty tables are well typed.
LEMMA InitTypeOK ==
  ASSUME Init
  PROVE  TypeOK
<1>1. /\ DOMAIN exchanges = {} /\ DOMAIN jobs = {}
      /\ DOMAIN extractions = {} /\ DOMAIN current = {}
  BY DEF Init
<1>2. /\ exchanges \in [DOMAIN exchanges -> Exchange]
      /\ jobs \in [DOMAIN jobs -> Job]
      /\ extractions \in [DOMAIN extractions -> Extraction]
      /\ current \in [DOMAIN current -> DOMAIN extractions]
  <2> DEFINE empty == << >>
  <2>1. ASSUME NEW T PROVE empty \in [DOMAIN empty -> T]
    OBVIOUS
  <2>2. exchanges = empty /\ jobs = empty /\ extractions = empty /\ current = empty
    BY DEF Init
  <2> HIDE DEF empty
  <2>3. QED
    BY <2>1, <2>2
<1>3. now \in Nat /\ profile \in Nat /\ nextJob \in Nat \ {0}
  BY DEF Init
<1>4. enabled \in BOOLEAN /\ excluded \subseteq Sessions
  BY DEF Init
<1>5. /\ DOMAIN exchanges \subseteq 1..MaxExchanges
      /\ DOMAIN jobs \subseteq 1..(nextJob - 1)
      /\ DOMAIN extractions \subseteq DOMAIN jobs
      /\ DOMAIN current \subseteq Sessions
  BY <1>1
<1>6. QED
  BY <1>2, <1>3, <1>4, <1>5 DEF TypeOK

\* The tables stay well typed whatever the callers do.
THEOREM TypeCorrect == Spec => []TypeOK
BY InitTypeOK, TypeStep, PTL DEF Spec

-----------------------------------------------------------------------------
(***************************************************************************)
(* Safety.  The four conditions are inductive together with the types.     *)
(***************************************************************************)

QueueInv ==
  /\ AtMostOneLive
  /\ AttemptsBounded
  /\ CompletedIffExtracted
  /\ OffMeansIdle

\* The rows after an insertion are the rows kept and new rows that are queued.
LEMMA InsertedRows ==
  ASSUME TypeOK, NEW kept, NEW E \in SUBSET DOMAIN exchanges, NEW at \in Nat,
         DOMAIN kept \subseteq DOMAIN jobs,
         InsertQueued(kept, E, at)
  PROVE  /\ nextJob' \in Nat /\ nextJob' >= nextJob
         /\ DOMAIN jobs' = DOMAIN kept \cup (nextJob .. nextJob' - 1)
         /\ \A j \in DOMAIN kept : jobs'[j] = kept[j]
         /\ \A j \in nextJob .. nextJob' - 1 :
              /\ jobs'[j].status = "queued"
              /\ jobs'[j].attempts = 0
              /\ jobs'[j].available = at
<1>1. Cardinality(E) \in Nat
  BY ExchangesFinite
<1>2. nextJob' = nextJob + Cardinality(E)
  BY DEF InsertQueued
<1>3. PICK num \in Numberings(E) :
        jobs' = [j \in DOMAIN kept \cup DOMAIN num |->
                   IF j \in DOMAIN num THEN QueuedJob(num[j], at) ELSE kept[j]]
  BY DEF InsertQueued
<1>4. DOMAIN num = nextJob .. nextJob' - 1
  <2>1. num \in [nextJob .. (nextJob + Cardinality(E) - 1) -> E]
    BY DEF Numberings
  <2>2. nextJob + Cardinality(E) - 1 = nextJob' - 1
    BY <1>1, <1>2 DEF TypeOK
  <2>3. QED
    BY <2>1, <2>2
<1>5. \A j \in DOMAIN kept : j \notin DOMAIN num
  BY <1>1, <1>2, <1>4 DEF TypeOK
<1>6. \A j \in DOMAIN num : /\ jobs'[j].status = "queued"
                            /\ jobs'[j].attempts = 0
                            /\ jobs'[j].available = at
  BY <1>3 DEF QueuedJob
<1>7. DOMAIN jobs' = DOMAIN kept \cup DOMAIN num
  BY <1>3
<1>8. \A j \in DOMAIN kept : jobs'[j] = kept[j]
  BY <1>3, <1>5
<1>9. nextJob' \in Nat /\ nextJob' >= nextJob
  BY <1>1, <1>2 DEF TypeOK
<1>10. QED
  BY <1>4, <1>6, <1>7, <1>8, <1>9

\* The first statement of a claim only turns lapsed rows into failed ones.
LEMMA SweptRows ==
  ASSUME TypeOK, NEW j \in DOMAIN jobs
  PROVE  /\ SweepExhausted[j].attempts = jobs[j].attempts
         /\ \/ SweepExhausted[j] = jobs[j]
            \/ Lapsed(j) /\ SweepExhausted[j].status = "terminal_failed"
BY ReleaseType DEF SweepExhausted, TypeOK, Status

\* What each operation does to the rows it does not create or delete.
LEMMA FailedRow ==
  ASSUME TypeOK, NEW o \in Owners, NEW j \in DOMAIN jobs, NEW retryable \in BOOLEAN,
         Fail(o, j, retryable)
  PROVE  /\ DOMAIN jobs' = DOMAIN jobs
         /\ \A k \in DOMAIN jobs \ {j} : jobs'[k] = jobs[k]
         /\ jobs'[j].attempts = jobs[j].attempts
         /\ \/ jobs'[j].status = "retryable_failed" /\ jobs[j].attempts < MaxAttempts
            \/ jobs'[j].status = "terminal_failed"
<1> DEFINE status == IF retryable /\ jobs[j].attempts < MaxAttempts
                     THEN "retryable_failed" ELSE "terminal_failed"
           at == now + RetryDelay(jobs[j].attempts)
<1>1. jobs' = [jobs EXCEPT ![j] = [Release(jobs[j], status) EXCEPT !.available = at]]
  BY DEF Fail
<1>2. jobs[j] \in Job /\ status \in Status
  BY DEF TypeOK, Status
<1>3. /\ Release(jobs[j], status) \in Job
      /\ Release(jobs[j], status).status = status
      /\ Release(jobs[j], status).attempts = jobs[j].attempts
  BY <1>2, ReleaseType
<1>4. /\ jobs'[j].status = status
      /\ jobs'[j].attempts = jobs[j].attempts
  <2> HIDE DEF status, at
  <2> QED BY <1>1, <1>3 DEF TypeOK, Job
<1>5. QED
  BY <1>1, <1>4 DEF TypeOK

\* A row keeps its history when its status is not touched by the step.
LEMMA QueueStep == TypeOK /\ QueueInv /\ [Next]_store => QueueInv'
<1> SUFFICES ASSUME TypeOK, QueueInv, [Next]_store PROVE QueueInv'
  OBVIOUS
<1> USE GraphJobsAssumption
<1>0. /\ now \in Nat
      /\ \A j \in DOMAIN jobs : jobs[j].lease \in Nat /\ jobs[j].attempts \in Nat
  BY DEF TypeOK, Job
<1>t. TypeOK'
  BY TypeStep
<1>1. CASE UNCHANGED queue /\ UNCHANGED enabled /\ now' \in Nat /\ now' >= now
  BY <1>0, <1>1 DEF queue, QueueInv, AtMostOneLive, AttemptsBounded, CompletedIffExtracted,
     OffMeansIdle, Live, Running
<1>2. CASE Tick \/ ContentNext
  <2>1. UNCHANGED queue /\ UNCHANGED enabled /\ now' \in Nat /\ now' >= now
    BY <1>0, <1>2 DEF Tick, ContentNext, SaveExchange, MarkExchange, SetExcluded, ActivateProfile
  <2>2. QED
    BY <1>1, <2>1
<1>3. ASSUME NEW value \in BOOLEAN, SetEnabled(value) PROVE QueueInv'
  <2>1. /\ DOMAIN jobs' = DOMAIN jobs
        /\ UNCHANGED <<now, extractions>>
        /\ enabled' = value
    BY <1>3 DEF SetEnabled
  <2>2. ASSUME NEW j \in DOMAIN jobs
        PROVE  \/ jobs'[j] = jobs[j] /\ (value \/ ~Running(j))
               \/ /\ Running(j)
                  /\ jobs'[j].status = "interrupted"
                  /\ jobs'[j].attempts = jobs[j].attempts
    <3>1. jobs[j] \in Job
      BY DEF TypeOK
    <3>2. /\ Release(jobs[j], "interrupted").status = "interrupted"
          /\ Release(jobs[j], "interrupted").attempts = jobs[j].attempts
      BY <3>1, ReleaseType DEF Status
    <3>3. QED
      BY <1>3, <3>2 DEF SetEnabled
  <2>3. AtMostOneLive'
    BY <2>1, <2>2 DEF QueueInv, AtMostOneLive, Live, Running
  <2>4. AttemptsBounded'
    BY <2>1, <2>2 DEF QueueInv, AttemptsBounded, Running
  <2>5. CompletedIffExtracted'
    <3>1. ASSUME NEW j \in DOMAIN jobs
          PROVE /\ jobs'[j].session = jobs[j].session
                /\ jobs'[j].source = jobs[j].source
                /\ jobs'[j].profile = jobs[j].profile
      BY <1>3, ReleaseType DEF SetEnabled, Release, TypeOK, Job
    <3>2. QED
      BY <2>1, <2>2, <3>1 DEF QueueInv, CompletedIffExtracted, Running
  <2>6. OffMeansIdle'
    BY <2>1, <2>2 DEF OffMeansIdle, Running
  <2>7. QED
    BY <2>3, <2>4, <2>5, <2>6 DEF QueueInv
<1>4. CASE Enqueue
  <2>1. {e \in Candidates : Inactive(e) /\ ~HasJob(e)} \in SUBSET DOMAIN exchanges
    BY DEF Candidates, LiveExchanges
  <2>2. /\ nextJob' \in Nat /\ nextJob' >= nextJob
        /\ DOMAIN jobs' = DOMAIN jobs \cup (nextJob .. nextJob' - 1)
        /\ \A j \in DOMAIN jobs : jobs'[j] = jobs[j]
        /\ \A j \in nextJob .. nextJob' - 1 :
              /\ jobs'[j].status = "queued"
              /\ jobs'[j].attempts = 0
    BY <1>0, <1>4, <2>1, InsertedRows DEF Enqueue
  <2>3. UNCHANGED <<now, enabled, extractions>> /\ enabled
    BY <1>4 DEF Enqueue
  <2>4. AtMostOneLive'
    BY <2>2, <2>3 DEF QueueInv, AtMostOneLive, Live, Running
  <2>5. AttemptsBounded'
    <3>1. ASSUME NEW j \in DOMAIN jobs
          PROVE  /\ jobs'[j] = jobs[j]
                 /\ jobs[j].attempts <= MaxAttempts
                 /\ jobs[j].status = "running" => jobs[j].attempts > 0
                 /\ jobs[j].status = "queued" => jobs[j].attempts = 0
                 /\ jobs[j].status = "retryable_failed" => jobs[j].attempts < MaxAttempts
      BY <2>2 DEF QueueInv, AttemptsBounded, Running
    <3>2. ASSUME NEW j \in nextJob .. nextJob' - 1
          PROVE  jobs'[j].attempts = 0 /\ jobs'[j].status = "queued" /\ 0 <= MaxAttempts
      BY <2>2
    <3>3. DOMAIN jobs' = DOMAIN jobs \cup (nextJob .. nextJob' - 1)
      BY <2>2
    <3>4. QED
      BY <3>1, <3>2, <3>3 DEF AttemptsBounded, Running
  <2>6. \A j \in nextJob .. nextJob' - 1 : j \notin DOMAIN extractions
    BY DEF TypeOK
  <2>7. CompletedIffExtracted'
    BY <2>2, <2>3, <2>6 DEF QueueInv, CompletedIffExtracted
  <2>8. QED
    BY <2>3, <2>4, <2>5, <2>7 DEF QueueInv, OffMeansIdle
<1>5. CASE ResetScan
  <2>1. PICK fresh \in {now} \cup {jobs[j].lease : j \in {k \in DOMAIN jobs : Running(k)}} :
          InsertQueued(<< >>, Candidates, fresh)
    BY <1>5 DEF ResetScan
  <2>2. fresh \in Nat
    BY <1>0
  <2>3. Candidates \in SUBSET DOMAIN exchanges
    BY DEF Candidates, LiveExchanges
  <2>4. DOMAIN << >> = {}
    OBVIOUS
  <2>5. /\ DOMAIN jobs' = nextJob .. nextJob' - 1
        /\ \A j \in nextJob .. nextJob' - 1 :
              /\ jobs'[j].status = "queued"
              /\ jobs'[j].attempts = 0
    BY <2>1, <2>2, <2>3, <2>4, InsertedRows
  <2>6. DOMAIN extractions' = {} /\ UNCHANGED <<now, enabled>> /\ enabled
    BY <1>5 DEF ResetScan
  <2>7. AtMostOneLive' /\ AttemptsBounded' /\ CompletedIffExtracted' /\ OffMeansIdle'
    BY <2>5, <2>6 DEF AtMostOneLive, AttemptsBounded, CompletedIffExtracted, OffMeansIdle,
       Live, Running
  <2>8. QED
    BY <2>7 DEF QueueInv
<1>6. ASSUME NEW j \in DOMAIN jobs
      PROVE  /\ SweepExhausted[j].session = jobs[j].session
             /\ SweepExhausted[j].source = jobs[j].source
             /\ SweepExhausted[j].profile = jobs[j].profile
  BY ReleaseType DEF SweepExhausted, Release, TypeOK, Job
<1>7. CASE ClaimNone
  <2>1. /\ DOMAIN jobs' = DOMAIN jobs /\ jobs' = SweepExhausted
        /\ UNCHANGED <<now, enabled, extractions>>
    BY <1>7 DEF ClaimNone, SweepExhausted
  <2>2. AtMostOneLive'
    BY <2>1, SweptRows DEF QueueInv, AtMostOneLive, Live, Running
  <2>3. AttemptsBounded'
    BY <2>1, SweptRows DEF QueueInv, AttemptsBounded, Running
  <2>4. CompletedIffExtracted'
    BY <1>6, <2>1, SweptRows DEF QueueInv, CompletedIffExtracted, Lapsed, Running
  <2>5. OffMeansIdle'
    BY <1>7, <2>1 DEF ClaimNone, OffMeansIdle
  <2>6. QED
    BY <2>2, <2>3, <2>4, <2>5 DEF QueueInv
<1>8. ASSUME NEW o \in Owners, NEW j \in DOMAIN jobs, Claim(o, j) PROVE QueueInv'
  <2>1. /\ DOMAIN jobs' = DOMAIN jobs
        /\ \A k \in DOMAIN jobs \ {j} : jobs'[k] = SweepExhausted[k]
        /\ UNCHANGED <<now, enabled, extractions>> /\ enabled
    BY <1>8 DEF Claim, SweepExhausted
  <2>2. /\ jobs'[j].status = "running"
        /\ jobs'[j].attempts = jobs[j].attempts + 1
        /\ jobs'[j].session = jobs[j].session
        /\ jobs'[j].source = jobs[j].source
        /\ jobs'[j].profile = jobs[j].profile
    <3>1. jobs[j] \in Job /\ j \in DOMAIN SweepExhausted
      BY DEF TypeOK, SweepExhausted
    <3>2. jobs'[j] = [jobs[j] EXCEPT !.status = "running", !.attempts = @ + 1,
                                     !.owner = o, !.lease = now + LeaseSeconds]
      BY <1>8, <3>1 DEF Claim
    <3>3. QED
      BY <3>1, <3>2 DEF Job
  <2>3. \A k \in DOMAIN jobs : ~Live(k)
    BY <1>8 DEF Claim
  <2>4. jobs[j].attempts < MaxAttempts /\ jobs[j].status # "completed"
    BY <1>0, <1>8 DEF Claim, Claimable, Lapsed, Running, QueueInv, AttemptsBounded
  <2>5. AtMostOneLive'
    BY <2>1, <2>3, SweptRows DEF AtMostOneLive, Live, Running
  <2>6. AttemptsBounded'
    <3>1. /\ jobs'[j].attempts <= MaxAttempts
          /\ jobs'[j].attempts > 0
      BY <1>0, <2>2, <2>4
    <3>2. ASSUME NEW k \in DOMAIN jobs \ {j}
          PROVE  /\ jobs'[k].attempts = jobs[k].attempts
                 /\ jobs'[k].status = jobs[k].status \/ jobs'[k].status = "terminal_failed"
      BY <2>1, SweptRows
    <3>3. QED
      BY <2>1, <2>2, <3>1, <3>2 DEF QueueInv, AttemptsBounded, Running
  <2>7. CompletedIffExtracted'
    BY <1>6, <2>1, <2>2, <2>4, SweptRows DEF QueueInv, CompletedIffExtracted, Lapsed, Running
  <2>8. OffMeansIdle'
    BY <2>1 DEF OffMeansIdle
  <2>9. QED
    BY <2>5, <2>6, <2>7, <2>8 DEF QueueInv
<1>9. ASSUME NEW o \in Owners, NEW j \in DOMAIN jobs, Renew(o, j) PROVE QueueInv'
  <2>1. jobs[j] \in Job
    BY DEF TypeOK
  <2>2. /\ DOMAIN jobs' = DOMAIN jobs
        /\ \A k \in DOMAIN jobs \ {j} : jobs'[k] = jobs[k]
        /\ jobs'[j] = [jobs[j] EXCEPT !.lease = now + LeaseSeconds]
        /\ UNCHANGED <<now, enabled, extractions>>
    BY <1>9 DEF Renew, TypeOK
  <2>3. /\ jobs'[j].status = jobs[j].status
        /\ jobs'[j].attempts = jobs[j].attempts
        /\ jobs'[j].session = jobs[j].session
        /\ jobs'[j].source = jobs[j].source
        /\ jobs'[j].profile = jobs[j].profile
    BY <2>1, <2>2 DEF Job
  <2>4. Live(j)
    BY <1>9 DEF Renew, Holds
  <2>5. AtMostOneLive'
    BY <2>2, <2>3, <2>4 DEF QueueInv, AtMostOneLive, Live, Running
  <2>6. AttemptsBounded'
    BY <2>2, <2>3 DEF QueueInv, AttemptsBounded, Running
  <2>7. CompletedIffExtracted'
    <3>1. ASSUME NEW k \in DOMAIN jobs
          PROVE  /\ jobs'[k].status = jobs[k].status
                 /\ jobs'[k].session = jobs[k].session
                 /\ jobs'[k].source = jobs[k].source
                 /\ jobs'[k].profile = jobs[k].profile
      <4>1. CASE k = j
        BY <2>3, <4>1
      <4>2. CASE k # j
        BY <2>2, <4>2
      <4>3. QED
        BY <4>1, <4>2
    <3>2. DOMAIN jobs' = DOMAIN jobs /\ extractions' = extractions
      BY <2>2
    <3>3. QED
      BY <3>1, <3>2 DEF QueueInv, CompletedIffExtracted
  <2>8. OffMeansIdle'
    BY <2>2, <2>3 DEF QueueInv, OffMeansIdle, Running
  <2>9. QED
    BY <2>5, <2>6, <2>7, <2>8 DEF QueueInv
<1>10. ASSUME NEW o \in Owners, NEW j \in DOMAIN jobs, Publish(o, j) PROVE QueueInv'
  <2>1. jobs[j] \in Job
    BY DEF TypeOK
  <2>2. /\ DOMAIN jobs' = DOMAIN jobs
        /\ \A k \in DOMAIN jobs \ {j} : jobs'[k] = jobs[k]
        /\ jobs'[j] = Release(jobs[j], "completed")
        /\ UNCHANGED <<now, enabled>>
    BY <1>10 DEF Publish, TypeOK
  <2>3. /\ jobs'[j].status = "completed"
        /\ jobs'[j].attempts = jobs[j].attempts
        /\ jobs'[j].session = jobs[j].session
        /\ jobs'[j].source = jobs[j].source
        /\ jobs'[j].profile = jobs[j].profile
    BY <2>1, <2>2 DEF Release, Job
  <2>4. /\ DOMAIN extractions' = DOMAIN extractions \cup {j}
        /\ \A k \in DOMAIN extractions \ {j} : extractions'[k] = extractions[k]
        /\ extractions'[j] = [session |-> jobs[j].session, source |-> jobs[j].source,
                              profile |-> jobs[j].profile]
    BY <1>10 DEF Publish
  <2>5. AtMostOneLive' /\ AttemptsBounded' /\ OffMeansIdle'
    BY <2>2, <2>3 DEF QueueInv, AtMostOneLive, AttemptsBounded, OffMeansIdle, Live, Running
  <2>6. CompletedIffExtracted'
    BY <2>2, <2>3, <2>4 DEF QueueInv, CompletedIffExtracted
  <2>7. QED
    BY <2>5, <2>6 DEF QueueInv
<1>11. ASSUME NEW o \in Owners, NEW j \in DOMAIN jobs, NEW retryable \in BOOLEAN,
              Fail(o, j, retryable)
       PROVE QueueInv'
  <2>1. /\ DOMAIN jobs' = DOMAIN jobs
        /\ \A k \in DOMAIN jobs \ {j} : jobs'[k] = jobs[k]
        /\ jobs'[j].attempts = jobs[j].attempts
        /\ \/ jobs'[j].status = "retryable_failed" /\ jobs[j].attempts < MaxAttempts
           \/ jobs'[j].status = "terminal_failed"
    BY <1>11, FailedRow
  <2>2. /\ jobs'[j].session = jobs[j].session
        /\ jobs'[j].source = jobs[j].source
        /\ jobs'[j].profile = jobs[j].profile
    BY <1>11 DEF Fail, Release, TypeOK, Job
  <2>3. UNCHANGED <<now, enabled, extractions>> /\ Running(j)
    BY <1>11 DEF Fail, Holds, Live
  <2>4. AtMostOneLive' /\ AttemptsBounded' /\ OffMeansIdle'
    BY <2>1, <2>3 DEF QueueInv, AtMostOneLive, AttemptsBounded, OffMeansIdle, Live, Running
  <2>5. CompletedIffExtracted'
    BY <2>1, <2>2, <2>3 DEF QueueInv, CompletedIffExtracted, Running
  <2>6. QED
    BY <2>4, <2>5 DEF QueueInv
<1>12. CASE UNCHANGED store
  BY <1>0, <1>1, <1>12 DEF store, queue
<1>13. QED
  BY <1>2, <1>3, <1>4, <1>5, <1>7, <1>8, <1>9, <1>10, <1>11, <1>12
     DEF Next, QueueNext

\* Empty tables are safe.
LEMMA InitQueueInv ==
  ASSUME Init
  PROVE  QueueInv
<1>1. DOMAIN jobs = {} /\ DOMAIN extractions = {}
  BY DEF Init
<1>2. QED
  BY <1>1 DEF QueueInv, AtMostOneLive, AttemptsBounded, CompletedIffExtracted, OffMeansIdle

\* Types and safety together, the invariant everything below rests on.
THEOREM QueueSafe == Spec => [](TypeOK /\ QueueInv)
BY InitQueueInv, QueueStep, TypeCorrect, PTL DEF Spec

\* Claims, renewals, failures and rescans never leave two leases running.
THEOREM OneLiveLease == Spec => []AtMostOneLive
BY QueueSafe, PTL DEF QueueInv

\* No job is handed out more often than MaxAttempts.
THEOREM AttemptsNeverExceeded == Spec => []AttemptsBounded
BY QueueSafe, PTL DEF QueueInv

\* A job is completed exactly when its extraction is stored.
THEOREM ExtractionMatchesJob == Spec => []CompletedIffExtracted
BY QueueSafe, PTL DEF QueueInv

-----------------------------------------------------------------------------
(***************************************************************************)
(* What a step never does.                                                 *)
(***************************************************************************)

\* No operation touches a row that has reached its end.
LEMMA FinalStep ==
  ASSUME TypeOK, [Next]_store, NEW j \in DOMAIN jobs, j \in DOMAIN jobs',
         jobs[j].status \in Final
  PROVE  jobs'[j] = jobs[j]
<1>1. ~Running(j) /\ ~Claimable(j)
  BY DEF Final, Running, Claimable, Lapsed
<1>2. CASE Tick \/ ContentNext \/ UNCHANGED store
  BY <1>2 DEF Tick, ContentNext, SaveExchange, MarkExchange, SetExcluded, ActivateProfile,
     store, queue
<1>3. ASSUME NEW value \in BOOLEAN, SetEnabled(value) PROVE jobs'[j] = jobs[j]
  BY <1>1, <1>3 DEF SetEnabled
<1>4. CASE Enqueue
  <2>1. {e \in Candidates : Inactive(e) /\ ~HasJob(e)} \in SUBSET DOMAIN exchanges
    BY DEF Candidates, LiveExchanges
  <2>2. now \in Nat
    BY DEF TypeOK
  <2>3. QED
    BY <1>4, <2>1, <2>2, InsertedRows DEF Enqueue
<1>5. CASE ResetScan
  <2>1. PICK fresh \in {now} \cup {jobs[k].lease : k \in {l \in DOMAIN jobs : Running(l)}} :
          InsertQueued(<< >>, Candidates, fresh)
    BY <1>5 DEF ResetScan
  <2>2. fresh \in Nat
    BY DEF TypeOK, Job
  <2>3. Candidates \in SUBSET DOMAIN exchanges /\ DOMAIN << >> = {}
    BY DEF Candidates, LiveExchanges
  <2>4. DOMAIN jobs' = nextJob .. nextJob' - 1
    BY <2>1, <2>2, <2>3, InsertedRows
  <2>5. QED   \* the old row is gone
    BY <2>4 DEF TypeOK
<1>6. SweepExhausted[j] = jobs[j]
  BY <1>1 DEF SweepExhausted, Lapsed
<1>7. CASE ClaimNone
  BY <1>6, <1>7 DEF ClaimNone
<1>8. ASSUME NEW o \in Owners, NEW k \in DOMAIN jobs, Claim(o, k) PROVE jobs'[j] = jobs[j]
  <2>1. k # j
    BY <1>1, <1>8 DEF Claim
  <2>2. j \in DOMAIN SweepExhausted
    BY DEF SweepExhausted
  <2>3. QED
    BY <1>6, <1>8, <2>1, <2>2 DEF Claim
<1>9. ASSUME NEW o \in Owners, NEW k \in DOMAIN jobs,
             Renew(o, k) \/ Publish(o, k) \/ \E retryable \in BOOLEAN : Fail(o, k, retryable)
      PROVE jobs'[j] = jobs[j]
  <2>1. k # j
    BY <1>1, <1>9 DEF Renew, Publish, Fail, Holds, Live
  <2>2. QED
    BY <1>9, <2>1 DEF Renew, Publish, Fail
<1>10. QED
  BY <1>2, <1>3, <1>4, <1>5, <1>7, <1>8, <1>9 DEF Next, QueueNext

\* A job that reached its end never changes again.
THEOREM FinalForGood == Spec => FinalStays
<1>1. TypeOK /\ [Next]_store =>
        [\A j \in DOMAIN jobs \cap DOMAIN jobs' :
           jobs[j].status \in Final => jobs'[j] = jobs[j]]_store
  BY FinalStep
<1>2. QED
  BY <1>1, TypeCorrect, PTL DEF Spec, FinalStays

\* The rows handed out or completed, and what they leave behind: a row due before one of
\* them is not still waiting for its first claim, nor held by it.
Taken(j) == jobs[j].status \in {"running", "completed"}

Overtaken(j) == jobs[j].status # "queued" /\ (Live(j) => jobs[j].attempts > 1)

OrderInv ==
  /\ \A k \in DOMAIN jobs : Taken(k) => jobs[k].available <= now
  /\ \A j \in DOMAIN jobs : jobs[j].status = "retryable_failed" => jobs[j].attempts > 0
  /\ \A j, k \in DOMAIN jobs : j # k /\ Taken(k) /\ Before(j, k) => Overtaken(j)

\* A step that takes no row and queues none keeps the order.
LEMMA OrderKept ==
  ASSUME TypeOK, TypeOK', OrderInv, DOMAIN jobs' = DOMAIN jobs, now' >= now,
         \A j \in DOMAIN jobs :
           /\ Taken(j)' => Taken(j) /\ jobs'[j].available = jobs[j].available
           /\ jobs'[j].status = "queued" => jobs'[j] = jobs[j]
           /\ Live(j)' => /\ Live(j)
                          /\ jobs'[j].available = jobs[j].available
                          /\ jobs'[j].attempts = jobs[j].attempts
           /\ jobs'[j].status = "retryable_failed" => jobs'[j].attempts > 0
  PROVE  OrderInv'
<1>0. /\ now \in Nat /\ now' \in Nat
      /\ \A j \in DOMAIN jobs : jobs[j].available \in Nat /\ jobs'[j].available \in Nat
  BY DEF TypeOK, Job
<1>1. ASSUME NEW k \in DOMAIN jobs, Taken(k)' PROVE jobs'[k].available <= now'
  BY <1>0, <1>1 DEF OrderInv
<1>2. ASSUME NEW j \in DOMAIN jobs, NEW k \in DOMAIN jobs, j # k, Taken(k)', Before(j, k)'
      PROVE  Overtaken(j)'
  <2>1. Taken(k) /\ jobs'[k].available = jobs[k].available
    BY <1>2
  <2>2. CASE jobs'[j].status = "queued"
    BY <1>2, <2>1, <2>2 DEF OrderInv, Overtaken, Before
  <2>3. CASE jobs'[j].status # "queued" /\ Live(j)'
    <3>1. jobs'[j].available = jobs[j].available /\ jobs'[j].attempts = jobs[j].attempts /\ Live(j)
      BY <2>3
    <3> QED BY <1>2, <2>1, <2>3, <3>1 DEF OrderInv, Overtaken, Before
  <2>4. CASE jobs'[j].status # "queued" /\ ~Live(j)'
    BY <2>4 DEF Overtaken
  <2> QED BY <2>2, <2>3, <2>4
<1> QED BY <1>1, <1>2 DEF OrderInv

\* A row the sweep of a claim ends keeps everything a claim goes by.
LEMMA SweptOrder ==
  ASSUME TypeOK, NEW j \in DOMAIN jobs
  PROVE  /\ SweepExhausted[j].available = jobs[j].available
         /\ SweepExhausted[j].attempts = jobs[j].attempts
         /\ \/ SweepExhausted[j] = jobs[j]
            \/ SweepExhausted[j].status = "terminal_failed"
BY DEF SweepExhausted, Release, TypeOK, Job

\* The claim takes the row that is due first, and a row passed over was tried before.
LEMMA ClaimOrder ==
  ASSUME TypeOK, QueueInv, OrderInv, NEW o \in Owners, NEW i \in DOMAIN jobs, Claim(o, i)
  PROVE  OrderInv'
<1>0. /\ now \in Nat
      /\ \A j \in DOMAIN jobs : /\ jobs[j] \in Job
                                /\ j \in Nat /\ jobs[j].available \in Nat /\ jobs[j].attempts \in Nat
  BY DEF TypeOK, Job
<1>1. /\ DOMAIN jobs' = DOMAIN jobs /\ now' = now
      /\ \A j \in DOMAIN jobs \ {i} : jobs'[j] = SweepExhausted[j]
      /\ \A j \in DOMAIN jobs : ~Live(j)
      /\ Claimable(i)
      /\ \A j \in DOMAIN jobs : Claimable(j) => Before(i, j)
  BY DEF Claim, SweepExhausted
<1>2. /\ jobs'[i].status = "running" /\ jobs'[i].attempts = jobs[i].attempts + 1
      /\ jobs'[i].available = jobs[i].available
  <2>1. jobs'[i] = [jobs[i] EXCEPT !.status = "running", !.attempts = @ + 1, !.owner = o,
                                   !.lease = now + LeaseSeconds]
    BY DEF Claim, SweepExhausted
  <2> QED BY <1>0, <2>1 DEF Job
<1>3. jobs[i].available <= now
  BY <1>1 DEF Claimable, OrderInv, Taken, Lapsed, Running
<1>4. \A j \in DOMAIN jobs \ {i} :
        /\ jobs'[j].available = jobs[j].available /\ jobs'[j].attempts = jobs[j].attempts
        /\ jobs'[j] = jobs[j] \/ jobs'[j].status = "terminal_failed"
  BY <1>1, SweptOrder
<1>5. \A j \in DOMAIN jobs \ {i} : ~Live(j)'
  BY <1>1, <1>4 DEF Live, Running
<1>6. ASSUME NEW j \in DOMAIN jobs, NEW k \in DOMAIN jobs, j # k, Taken(k)', Before(j, k)'
      PROVE  Overtaken(j)'
  <2>0. Before(j, k)
    BY <1>2, <1>4, <1>6 DEF Before
  <2>1. CASE k = i
    <3>1. ~Before(i, j)
      BY <1>0, <1>6, <2>0, <2>1 DEF Before
    <3>2. jobs[j].available <= now
      BY <1>0, <1>3, <2>0, <2>1 DEF Before
    <3>3. jobs[j].status # "queued"
      BY <1>1, <3>1, <3>2 DEF Claimable
    <3> QED BY <1>4, <1>5, <1>6, <2>1, <3>3 DEF Overtaken
  <2>2. CASE k # i /\ j = i
    <3>1. Taken(k)
      BY <1>4, <1>6, <2>2 DEF Taken
    <3>2. jobs[i].status # "queued"
      BY <1>6, <2>0, <2>2, <3>1 DEF OrderInv, Overtaken
    <3>3. jobs[i].attempts > 0
      BY <1>1, <3>2 DEF Claimable, Lapsed, Running, OrderInv, QueueInv, AttemptsBounded
    <3> QED BY <1>0, <1>2, <2>2, <3>3 DEF Overtaken
  <2>3. CASE k # i /\ j # i
    <3>1. Taken(k)
      BY <1>4, <1>6, <2>3 DEF Taken
    <3>2. jobs[j].status # "queued"
      BY <1>6, <2>0, <3>1 DEF OrderInv, Overtaken
    <3> QED BY <1>4, <1>5, <2>3, <3>2 DEF Overtaken
  <2> QED BY <2>1, <2>2, <2>3
<1>7. ASSUME NEW k \in DOMAIN jobs, Taken(k)' PROVE jobs'[k].available <= now'
  BY <1>1, <1>2, <1>3, <1>4, <1>7 DEF OrderInv, Taken
<1>8. ASSUME NEW j \in DOMAIN jobs, jobs'[j].status = "retryable_failed"
      PROVE  jobs'[j].attempts > 0
  BY <1>2, <1>4, <1>8 DEF OrderInv
<1> QED BY <1>1, <1>6, <1>7, <1>8 DEF OrderInv

\* Every step keeps the order.
LEMMA OrderStep ==
  ASSUME TypeOK, QueueInv, OrderInv, [Next]_store
  PROVE  OrderInv'
<1>t. TypeOK'
  BY TypeStep
<1>0. /\ now \in Nat
      /\ \A j \in DOMAIN jobs : /\ jobs[j] \in Job
                                /\ j \in Nat /\ jobs[j].available \in Nat /\ jobs[j].lease \in Nat
                                /\ j < nextJob
      /\ nextJob \in Nat
  BY DEF TypeOK, Job
<1>1. CASE Tick \/ ContentNext \/ UNCHANGED store
  <2>1. jobs' = jobs /\ now' \in Nat /\ now' >= now
    BY <1>0, <1>1 DEF Tick, ContentNext, SaveExchange, MarkExchange, SetExcluded, ActivateProfile,
       store, queue
  <2>2. \A j \in DOMAIN jobs : Live(j)' => Live(j)
    BY <1>0, <2>1 DEF Live, Running
  <2> QED BY <1>t, <2>1, <2>2, OrderKept DEF OrderInv, Taken
<1>2. ASSUME NEW value \in BOOLEAN, SetEnabled(value) PROVE OrderInv'
  <2>1. DOMAIN jobs' = DOMAIN jobs /\ now' = now
    BY <1>2 DEF SetEnabled
  <2>2. ASSUME NEW j \in DOMAIN jobs
        PROVE  jobs'[j] = jobs[j] \/ jobs'[j].status = "interrupted"
    BY <1>0, <1>2, ReleaseType DEF SetEnabled, Status
  <2> QED BY <1>0, <1>t, <2>1, <2>2, OrderKept DEF OrderInv, Taken, Live, Running
<1>3. CASE Enqueue
  <2>1. {e \in Candidates : Inactive(e) /\ ~HasJob(e)} \in SUBSET DOMAIN exchanges
    BY DEF Candidates, LiveExchanges
  <2>2. /\ DOMAIN jobs' = DOMAIN jobs \cup (nextJob .. nextJob' - 1)
        /\ \A j \in DOMAIN jobs : jobs'[j] = jobs[j]
        /\ \A j \in nextJob .. nextJob' - 1 :
             jobs'[j].status = "queued" /\ jobs'[j].available = now
        /\ now' = now
    BY <1>0, <1>3, <2>1, InsertedRows DEF Enqueue
  <2>3. \A j \in DOMAIN jobs' : Taken(j)' => j \in DOMAIN jobs /\ Taken(j)
    BY <2>2 DEF Taken
  <2>4. ASSUME NEW j \in DOMAIN jobs', NEW k \in DOMAIN jobs', j # k, Taken(k)', Before(j, k)'
        PROVE  Overtaken(j)'
    <3>1. k \in DOMAIN jobs /\ Taken(k) /\ jobs'[k] = jobs[k] /\ jobs[k].available <= now
      BY <2>2, <2>3, <2>4 DEF OrderInv
    <3>2. CASE j \in DOMAIN jobs
      BY <2>2, <2>4, <3>1, <3>2 DEF OrderInv, Overtaken, Before, Live, Running
    <3>3. CASE j \in nextJob .. nextJob' - 1
      BY <1>0, <2>2, <2>4, <3>1, <3>3 DEF Before
    <3> QED BY <2>2, <3>2, <3>3
  <2> QED BY <2>2, <2>3, <2>4 DEF OrderInv
<1>4. CASE ResetScan
  <2>1. PICK fresh \in {now} \cup {jobs[j].lease : j \in {k \in DOMAIN jobs : Running(k)}} :
          InsertQueued(<< >>, Candidates, fresh)
    BY <1>4 DEF ResetScan
  <2>2. fresh \in Nat /\ Candidates \in SUBSET DOMAIN exchanges /\ DOMAIN << >> = {}
    BY <1>0 DEF Candidates, LiveExchanges
  <2>3. \A j \in DOMAIN jobs' : jobs'[j].status = "queued"
    BY <2>1, <2>2, InsertedRows
  <2> QED BY <2>3 DEF OrderInv, Taken
<1>5. CASE ClaimNone
  <2>1. DOMAIN jobs' = DOMAIN jobs /\ now' = now /\ jobs' = SweepExhausted
    BY <1>5 DEF ClaimNone, SweepExhausted
  <2> QED BY <1>0, <1>t, <2>1, SweptOrder, OrderKept DEF OrderInv, Taken, Live, Running
<1>6. ASSUME NEW o \in Owners, NEW i \in DOMAIN jobs, Renew(o, i) PROVE OrderInv'
  <2>1. /\ DOMAIN jobs' = DOMAIN jobs /\ now' = now
        /\ \A j \in DOMAIN jobs \ {i} : jobs'[j] = jobs[j]
        /\ jobs'[i] = [jobs[i] EXCEPT !.lease = now + LeaseSeconds]
        /\ Live(i)
    BY <1>6 DEF Renew, Holds
  <2>2. /\ jobs'[i].status = "running" /\ Taken(i)
        /\ jobs'[i].available = jobs[i].available /\ jobs'[i].attempts = jobs[i].attempts
    BY <1>0, <2>1 DEF Job, Live, Running, Taken
  <2>3. ASSUME NEW j \in DOMAIN jobs
        PROVE  /\ Taken(j)' => Taken(j) /\ jobs'[j].available = jobs[j].available
               /\ jobs'[j].status = "queued" => jobs'[j] = jobs[j]
               /\ Live(j)' => /\ Live(j)
                              /\ jobs'[j].available = jobs[j].available
                              /\ jobs'[j].attempts = jobs[j].attempts
               /\ jobs'[j].status = "retryable_failed" => jobs'[j].attempts > 0
    <3>1. CASE j = i
      BY <2>1, <2>2, <3>1
    <3>2. CASE j # i
      BY <2>1, <3>2 DEF OrderInv, Taken, Live, Running
    <3> QED BY <3>1, <3>2
  <2> QED BY <1>0, <1>t, <2>1, <2>3, OrderKept
<1>7. ASSUME NEW o \in Owners, NEW i \in DOMAIN jobs, Publish(o, i) PROVE OrderInv'
  <2>1. /\ DOMAIN jobs' = DOMAIN jobs /\ now' = now
        /\ \A j \in DOMAIN jobs \ {i} : jobs'[j] = jobs[j]
        /\ jobs'[i] = Release(jobs[i], "completed")
        /\ Live(i)
    BY <1>7 DEF Publish, Holds
  <2>2. /\ jobs'[i].status = "completed" /\ Taken(i)
        /\ jobs'[i].available = jobs[i].available
    BY <1>0, <2>1 DEF Job, Live, Running, Taken, Release
  <2> QED BY <1>0, <1>t, <2>1, <2>2, OrderKept DEF OrderInv, Taken, Live, Running
<1>8. ASSUME NEW o \in Owners, NEW i \in DOMAIN jobs, NEW retryable \in BOOLEAN,
             Fail(o, i, retryable)
      PROVE  OrderInv'
  <2>1. /\ DOMAIN jobs' = DOMAIN jobs /\ now' = now
        /\ \A j \in DOMAIN jobs \ {i} : jobs'[j] = jobs[j]
        /\ jobs'[i].status \in {"retryable_failed", "terminal_failed"}
        /\ jobs'[i].attempts = jobs[i].attempts
    BY <1>8, FailedRow DEF Fail
  <2>2. jobs'[i].attempts > 0
    BY <1>8, <2>1 DEF Fail, Holds, Live, QueueInv, AttemptsBounded
  <2> QED BY <1>0, <1>t, <2>1, <2>2, OrderKept DEF OrderInv, Taken, Live, Running
<1> QED BY <1>1, <1>2, <1>3, <1>4, <1>5, <1>6, <1>7, <1>8, ClaimOrder DEF Next, QueueNext

\* Only a publication shows another analysis, and what it overtakes was due earlier.
LEMMA LaterStep ==
  ASSUME TypeOK, QueueInv, OrderInv, [Next]_store,
         NEW s \in DOMAIN current \cap DOMAIN current', current'[s] # current[s]
  PROVE  Before(current[s], current'[s]) \/ jobs[current'[s]].attempts > 1
<1>1. PICK o \in Owners, i \in DOMAIN jobs : Publish(o, i)
  <2>1. current' # current
    OBVIOUS
  <2>2. ~ResetScan
    BY DEF ResetScan
  <2> QED BY <2>1, <2>2 DEF Next, Tick, ContentNext, SaveExchange, MarkExchange, SetExcluded,
             ActivateProfile, QueueNext, SetEnabled, Enqueue, ClaimNone, Claim, Renew, Fail,
             store, queue
<1>2. current'[s] = i /\ Live(i)
  BY <1>1 DEF Publish, Holds
<1> DEFINE k == current[s]
<1>3. k \in DOMAIN extractions /\ k \in DOMAIN jobs /\ k # i
  BY <1>2 DEF TypeOK
<1>4. Taken(k)
  BY <1>3 DEF QueueInv, CompletedIffExtracted, Taken
<1>5. Before(k, i) \/ Before(i, k)
  <2>1. i \in Nat /\ k \in Nat /\ jobs[i].available \in Nat /\ jobs[k].available \in Nat
    BY <1>3 DEF TypeOK, Job
  <2> HIDE DEF k
  <2> QED BY <2>1 DEF Before
<1>6. Before(i, k) => jobs[i].attempts > 1
  BY <1>2, <1>3, <1>4 DEF OrderInv, Overtaken
<1> QED BY <1>2, <1>5, <1>6

\* For any number of sessions, exchanges, profiles and owners: no first attempt replaces the
\* analysis of a job that came due after it.
THEOREM LaterAnalysesStay == Spec => LaterAnalysisStays
<1>1. Init => OrderInv
  BY DEF Init, OrderInv
<1>2. TypeOK /\ QueueInv /\ OrderInv /\ [Next]_store =>
        [\A s \in DOMAIN current \cap DOMAIN current' :
           LET j == current'[s]
           IN  j # current[s] => Before(current[s], j) \/ jobs[j].attempts > 1]_store
  BY LaterStep
<1> QED BY <1>1, <1>2, OrderStep, QueueSafe, PTL DEF Spec, LaterAnalysisStays

-----------------------------------------------------------------------------
(***************************************************************************)
(* The queue implements the ledger.                                        *)
(***************************************************************************)

\* A step that keeps the rows may end leases (time passes) and nothing else.
LEMMA KeepsRows ==
  ASSUME TypeOK, QueueInv, UNCHANGED <<jobs, nextJob, extractions>>,
         now' \in Nat, now' >= now
  PROVE  [Ledger!Next]_(Ledger!ledger)
<1>1. OpenJobs' = OpenJobs
  BY DEF OpenJobs
<1>2. \A j \in DOMAIN jobs : Live(j)' => Live(j)
  BY DEF Live, Running, TypeOK, Job
<1>3. Holders' = Holders \/ Holders' = {}
  BY <1>2 DEF Holders, Live, Running, QueueInv, AtMostOneLive
<1>4. QED
  BY <1>1, <1>3 DEF Ledger!Next, Ledger!Lose, Ledger!ledger

\* Rows inserted next to the old ones are jobs added to the ledger.
LEMMA EnqueueAdds ==
  ASSUME TypeOK, Enqueue
  PROVE  [Ledger!Next]_(Ledger!ledger)
<1>1. {e \in Candidates : Inactive(e) /\ ~HasJob(e)} \in SUBSET DOMAIN exchanges
  BY DEF Candidates, LiveExchanges
<1>2. now \in Nat
  BY DEF TypeOK
<1>3. /\ nextJob' \in Nat /\ nextJob' >= nextJob
      /\ DOMAIN jobs' = DOMAIN jobs \cup (nextJob .. nextJob' - 1)
      /\ \A j \in DOMAIN jobs : jobs'[j] = jobs[j]
      /\ \A j \in nextJob .. nextJob' - 1 : jobs'[j].status = "queued"
  BY <1>1, <1>2, InsertedRows DEF Enqueue
<1>4. UNCHANGED <<now, extractions>>
  BY DEF Enqueue
<1>5. OpenJobs' = OpenJobs \cup (nextJob .. nextJob' - 1)
  BY <1>3 DEF OpenJobs, Final
<1>6. Holders' = Holders
  BY <1>3, <1>4 DEF Holders, Live, Running
<1>7. CASE nextJob' = nextJob
  <2>1. nextJob .. nextJob' - 1 = {}
    BY <1>7 DEF TypeOK
  <2>2. OpenJobs' = OpenJobs
    BY <1>5, <2>1
  <2>3. QED
    BY <1>4, <1>6, <1>7, <2>2 DEF Ledger!ledger
<1>8. CASE nextJob' > nextJob
  BY <1>4, <1>5, <1>6, <1>8 DEF Ledger!Next, Ledger!Add
<1>9. QED
  BY <1>3, <1>7, <1>8 DEF TypeOK

\* A rescan starts the ledger over.
LEMMA RescanStartsOver ==
  ASSUME TypeOK, ResetScan
  PROVE  [Ledger!Next]_(Ledger!ledger)
<1>1. PICK fresh \in {now} \cup {jobs[j].lease : j \in {k \in DOMAIN jobs : Running(k)}} :
        InsertQueued(<< >>, Candidates, fresh)
  BY DEF ResetScan
<1>2. fresh \in Nat
  BY DEF TypeOK, Job
<1>3. Candidates \in SUBSET DOMAIN exchanges /\ DOMAIN << >> = {}
  BY DEF Candidates, LiveExchanges
<1>4. /\ nextJob' >= nextJob
      /\ DOMAIN jobs' = nextJob .. nextJob' - 1
      /\ \A j \in DOMAIN jobs' : jobs'[j].status = "queued"
  BY <1>1, <1>2, <1>3, InsertedRows
<1>5. OpenJobs' = nextJob .. nextJob' - 1
  BY <1>4 DEF OpenJobs, Final
<1>6. Holders' = {}
  BY <1>4 DEF Holders, Live, Running
<1>7. (DOMAIN extractions)' = {}
  BY DEF ResetScan
<1>8. QED
  BY <1>4, <1>5, <1>6, <1>7 DEF Ledger!Next, Ledger!StartOver

\* Turning Graph off, and sweeping exhausted rows, gives jobs up.
LEMMA GivesUp ==
  ASSUME TypeOK, QueueInv,
         DOMAIN jobs' = DOMAIN jobs, UNCHANGED <<now, nextJob, extractions>>,
         \A j \in DOMAIN jobs :
           \/ jobs'[j] = jobs[j]
           \/ Running(j) /\ jobs'[j].status \in {"interrupted", "terminal_failed"}
  PROVE  [Ledger!Next]_(Ledger!ledger)
<1>1. OpenJobs' \subseteq OpenJobs
  BY DEF OpenJobs, Final, Running
<1>2. \A j \in DOMAIN jobs : Live(j)' <=> Live(j) /\ j \in OpenJobs'
  BY DEF Live, Running, OpenJobs, Final
<1>3. \A j \in DOMAIN jobs : Live(j)' => jobs'[j] = jobs[j]
  BY DEF Live, Running
<1>4. Holders' = {h \in Holders : h[1] \in OpenJobs'}
  BY <1>2, <1>3 DEF Holders
<1>5. QED
  BY <1>1, <1>4 DEF Ledger!Next, Ledger!GiveUp

\* A claim grants the job to the owner; the rows it sweeps are given up.
LEMMA ClaimGrants ==
  ASSUME TypeOK, QueueInv, NEW o \in Owners, NEW j \in DOMAIN jobs, Claim(o, j)
  PROVE  [Ledger!Next]_(Ledger!ledger)
<1>1. /\ DOMAIN jobs' = DOMAIN jobs
      /\ \A k \in DOMAIN jobs \ {j} : jobs'[k] = SweepExhausted[k]
      /\ UNCHANGED <<now, nextJob, extractions>>
  BY DEF Claim, SweepExhausted
<1>2. /\ jobs'[j].status = "running"
      /\ jobs'[j].owner = o
      /\ jobs'[j].lease = now + LeaseSeconds
  <2>1. jobs[j] \in Job /\ j \in DOMAIN SweepExhausted
    BY DEF TypeOK, SweepExhausted
  <2>2. jobs'[j] = [jobs[j] EXCEPT !.status = "running", !.attempts = @ + 1,
                                   !.owner = o, !.lease = now + LeaseSeconds]
    BY <2>1 DEF Claim
  <2>3. QED
    BY <2>1, <2>2 DEF Job
<1>3. jobs[j].status \notin Final
  BY DEF Claim, Claimable, Lapsed, Running, Final
<1>4. Holders = {}
  BY DEF Claim, Holders
<1>5. ASSUME NEW k \in DOMAIN jobs \ {j} PROVE ~Live(k)'
  BY <1>1, SweptRows DEF Claim, Live, Running
<1>6. Live(j)'
  BY <1>1, <1>2, GraphJobsAssumption DEF Live, Running, TypeOK
<1>7. Holders' = {<<j, o>>}
  BY <1>1, <1>2, <1>5, <1>6 DEF Holders
<1>8. OpenJobs' \subseteq OpenJobs /\ j \in OpenJobs'
  <2>1. \A k \in DOMAIN jobs \ {j} :
          jobs'[k].status = jobs[k].status \/ jobs'[k].status = "terminal_failed"
    BY <1>1, SweptRows
  <2>2. QED
    BY <1>1, <1>2, <1>3, <2>1 DEF OpenJobs, Final
<1>9. QED
  BY <1>1, <1>4, <1>7, <1>8 DEF Ledger!Next, Ledger!Grant

\* A renewal changes nothing the ledger sees.
LEMMA RenewStutters ==
  ASSUME TypeOK, QueueInv, NEW o \in Owners, NEW j \in DOMAIN jobs, Renew(o, j)
  PROVE  [Ledger!Next]_(Ledger!ledger)
<1>1. jobs[j] \in Job /\ Live(j) /\ now \in Nat
  BY DEF TypeOK, Renew, Holds
<1>2. /\ DOMAIN jobs' = DOMAIN jobs
      /\ \A k \in DOMAIN jobs \ {j} : jobs'[k] = jobs[k]
      /\ jobs'[j] = [jobs[j] EXCEPT !.lease = now + LeaseSeconds]
      /\ UNCHANGED <<now, nextJob, extractions>>
  BY DEF Renew, TypeOK
<1>3. /\ jobs'[j].status = jobs[j].status
      /\ jobs'[j].owner = jobs[j].owner
      /\ jobs'[j].lease = now + LeaseSeconds
  BY <1>1, <1>2 DEF Job
<1>4. Live(j)'
  BY <1>1, <1>2, <1>3, GraphJobsAssumption DEF Live, Running
<1>5. \A k \in DOMAIN jobs : /\ Live(k)' <=> Live(k)
                            /\ jobs'[k].owner = jobs[k].owner
                            /\ jobs'[k].status = jobs[k].status
  <2>1. ASSUME NEW k \in DOMAIN jobs \ {j} PROVE Live(k)' <=> Live(k)
    BY <1>2 DEF Live, Running
  <2>2. QED
    BY <1>1, <1>2, <1>3, <1>4, <2>1
<1>6. Holders' = Holders /\ OpenJobs' = OpenJobs
  BY <1>2, <1>5 DEF Holders, OpenJobs
<1>7. QED
  BY <1>2, <1>6 DEF Ledger!ledger

\* With a single live lease, its end leaves nobody holding anything.
LEMMA HolderAlone ==
  ASSUME TypeOK, QueueInv, NEW o \in Owners, NEW j \in DOMAIN jobs, Holds(o, j),
         DOMAIN jobs' = DOMAIN jobs, UNCHANGED now,
         \A k \in DOMAIN jobs \ {j} : jobs'[k] = jobs[k],
         jobs'[j].status # "running"
  PROVE  Holders = {<<j, o>>} /\ Holders' = {}
<1>1. Live(j) /\ jobs[j].owner = o
  BY DEF Holds
<1>2. \A k \in DOMAIN jobs \ {j} : ~Live(k) /\ ~Live(k)'
  BY <1>1 DEF QueueInv, AtMostOneLive, Live, Running
<1>3. QED
  BY <1>1, <1>2 DEF Holders, Live, Running

\* Publishing is the holder completing its job.
LEMMA PublishCompletes ==
  ASSUME TypeOK, QueueInv, NEW o \in Owners, NEW j \in DOMAIN jobs, Publish(o, j)
  PROVE  [Ledger!Next]_(Ledger!ledger)
<1>1. Holds(o, j) /\ jobs[j] \in Job
  BY DEF Publish, TypeOK
<1>2. /\ DOMAIN jobs' = DOMAIN jobs
      /\ \A k \in DOMAIN jobs \ {j} : jobs'[k] = jobs[k]
      /\ jobs'[j] = Release(jobs[j], "completed")
      /\ UNCHANGED <<now, nextJob>>
      /\ (DOMAIN extractions)' = DOMAIN extractions \cup {j}
  BY DEF Publish, TypeOK
<1>3. jobs'[j].status = "completed"
  BY <1>1, <1>2 DEF Release, Job
<1>4. Holders = {<<j, o>>} /\ Holders' = {}
  BY <1>1, <1>2, <1>3, HolderAlone
<1>5. OpenJobs' = OpenJobs \ {j}
  BY <1>2, <1>3 DEF OpenJobs, Final
<1>6. QED
  BY <1>2, <1>4, <1>5 DEF Ledger!Next, Ledger!Complete

\* A failure loses the job or gives it up.
LEMMA FailLosesOrGivesUp ==
  ASSUME TypeOK, QueueInv, NEW o \in Owners, NEW j \in DOMAIN jobs,
         NEW retryable \in BOOLEAN, Fail(o, j, retryable)
  PROVE  [Ledger!Next]_(Ledger!ledger)
<1>1. /\ DOMAIN jobs' = DOMAIN jobs
      /\ \A k \in DOMAIN jobs \ {j} : jobs'[k] = jobs[k]
      /\ \/ jobs'[j].status = "retryable_failed"
         \/ jobs'[j].status = "terminal_failed"
  BY FailedRow
<1>2. Holds(o, j) /\ UNCHANGED <<now, nextJob, extractions>>
  BY DEF Fail
<1>3. Holders = {<<j, o>>} /\ Holders' = {}
  BY <1>1, <1>2, HolderAlone
<1>4. jobs[j].status = "running"
  BY <1>2 DEF Holds, Live, Running
<1>5. CASE jobs'[j].status = "retryable_failed"
  <2>1. OpenJobs' = OpenJobs
    BY <1>1, <1>4, <1>5 DEF OpenJobs, Final
  <2>2. QED
    BY <1>2, <1>3, <2>1 DEF Ledger!Next, Ledger!Lose
<1>6. CASE jobs'[j].status = "terminal_failed"
  <2>1. OpenJobs' = OpenJobs \ {j}
    BY <1>1, <1>6 DEF OpenJobs, Final
  <2>2. Holders' = {h \in Holders : h[1] \in OpenJobs'}
    BY <1>3, <2>1
  <2>3. QED
    BY <1>2, <2>1, <2>2 DEF Ledger!Next, Ledger!GiveUp
<1>7. QED
  BY <1>1, <1>5, <1>6

\* Whatever its callers do, the queue is a ledger with one holder at a time.
THEOREM QueueImplementsLedger == Spec => ImplementsLedger
<1>1. Init => Ledger!Init
  <2> SUFFICES ASSUME Init PROVE Ledger!Init
    OBVIOUS
  <2>1. DOMAIN jobs = {} /\ DOMAIN extractions = {} /\ nextJob = 1
    BY DEF Init
  <2>2. QED
    BY <2>1 DEF Ledger!Init, OpenJobs, Holders
<1>2. TypeOK /\ QueueInv /\ [Next]_store => [Ledger!Next]_(Ledger!ledger)
  <2> SUFFICES ASSUME TypeOK, QueueInv, [Next]_store PROVE [Ledger!Next]_(Ledger!ledger)
    OBVIOUS
  <2>1. CASE Tick \/ ContentNext \/ UNCHANGED store
    <3>1. UNCHANGED <<jobs, nextJob, extractions>> /\ now' \in Nat /\ now' >= now
      BY <2>1 DEF Tick, ContentNext, SaveExchange, MarkExchange, SetExcluded,
         ActivateProfile, store, queue, TypeOK
    <3>2. QED
      BY <3>1, KeepsRows
  <2>2. ASSUME NEW value \in BOOLEAN, SetEnabled(value)
        PROVE [Ledger!Next]_(Ledger!ledger)
    <3>1. \A j \in DOMAIN jobs :
            \/ jobs'[j] = jobs[j]
            \/ Running(j) /\ jobs'[j].status = "interrupted"
      BY <2>2, ReleaseType DEF SetEnabled, TypeOK, Status
    <3>2. DOMAIN jobs' = DOMAIN jobs /\ UNCHANGED <<now, nextJob, extractions>>
      BY <2>2 DEF SetEnabled
    <3>3. QED
      BY <3>1, <3>2, GivesUp
  <2>3. CASE ClaimNone
    <3>1. \A j \in DOMAIN jobs :
            \/ jobs'[j] = jobs[j]
            \/ Running(j) /\ jobs'[j].status = "terminal_failed"
      BY <2>3, SweptRows DEF ClaimNone, Lapsed
    <3>2. DOMAIN jobs' = DOMAIN jobs /\ UNCHANGED <<now, nextJob, extractions>>
      BY <2>3 DEF ClaimNone, SweepExhausted
    <3>3. QED
      BY <3>1, <3>2, GivesUp
  <2>4. QED
    BY <2>1, <2>2, <2>3, EnqueueAdds, RescanStartsOver, ClaimGrants, RenewStutters,
       PublishCompletes, FailLosesOrGivesUp DEF Next, QueueNext
<1>3. QED
  BY <1>1, <1>2, QueueSafe, PTL DEF Spec, ImplementsLedger, Ledger!Spec
=============================================================================
