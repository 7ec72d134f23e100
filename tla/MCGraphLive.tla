---------------------------- MODULE MCGraphLive ----------------------------
(***************************************************************************)
(* GraphRuntime with a clock that never stops: at MaxTime the origin of    *)
(* time moves instead, and every timestamp grows older by one.  The code   *)
(* compares timestamps with now and with each other only, so what it does  *)
(* depends on the differences alone.                                       *)
(***************************************************************************)
EXTENDS GraphRuntime

Older(t) == IF t > 0 THEN t - 1 ELSE 0

Slide ==
  /\ now = MaxTime
  /\ jobs' = [j \in DOMAIN jobs |->
                [jobs[j] EXCEPT !.available = Older(@), !.lease = Older(@)]]
  /\ exchanges' = [e \in DOMAIN exchanges |-> [exchanges[e] EXCEPT !.at = Older(@)]]
  /\ granted' = [r \in Runtimes |-> Older(granted[r])]
  /\ UNCHANGED <<now, enabled, profile, excluded, nextJob, extractions, current,
                 worker, calls, admin, disturbances>>

LiveNext == RuntimeNext \/ Slide

\* Time passes, the event loop runs what is ready (a Codex turn ends by its
\* timeout at the latest, the monitor calls run_once again), threads finish.
\* reset_all polls _run_lock every 10 ms and the monitor leaves it free for 30 s
\* between two runs: a lock that is free again and again is found free.
Fairness ==
  /\ WF_vars(Slide \/ (Tick /\ UNCHANGED <<worker, calls, admin, granted, disturbances>>))
  /\ \A r \in Runtimes :
       /\ WF_vars(RunOnce(r))
       /\ WF_vars(DisableCancels(r))
       /\ WF_vars(ResetCancels(r))
       /\ SF_vars(Reset(r))
  /\ \A op \in {"publish", "fail", "renew"} :
       WF_vars(\E c \in calls : c.op = op /\ Answer(c))

LiveSpec == RuntimeInit /\ [][LiveNext]_vars /\ Fairness

Settled(j) == j \notin DOMAIN jobs \/ jobs[j].status \in Final

\* Once Graph stays on, every job reaches its end, whatever failed before: a
\* process that died, a thread that could not report, an answer never used.
EveryJobSettles ==
  <>[]enabled => \A j \in 1..MaxJobs : (j \in DOMAIN jobs) ~> Settled(j)

\* A requested rescan is carried out or refused: waiting for the lock that the
\* cancelled task holds never becomes waiting for good.
EveryResetEnds ==
  \A r \in Runtimes : (resetting[r] # "no") ~> (resetting[r] = "no")

\* web/graph-viewer.js:60, "Automatic processing is enabled for eligible sessions":
\* once Graph stays on, an eligible exchange is analysed or is found to fail.
EligibleIsProcessed ==
  <>[]enabled =>
    \A e \in 1..MaxExchanges :
      []<>(e \in Candidates =>
             \E j \in DOMAIN jobs : /\ jobs[j].source = e
                                    /\ jobs[j].status \in {"completed", "terminal_failed"})
=============================================================================
