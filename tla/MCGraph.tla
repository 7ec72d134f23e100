------------------------------ MODULE MCGraph ------------------------------
(***************************************************************************)
(* Three scenarios of the Graph queue, one of which is chosen at the       *)
(* start: arbitrary callers with the jobs of two sessions; arbitrary       *)
(* callers with one session whose exchanges, group and profile change; two *)
(* worker processes, that stop, die, or are disturbed, as the only callers.*)
(***************************************************************************)
EXTENDS GraphRuntime, TLC

VARIABLE scenario

\* The sessions in use, the bounds, and whether what feeds the queue changes.
Scenario ==
  [claims  |-> [sessions |-> Sessions, time |-> 4, exchanges |-> 2, jobs |-> 3, moves |-> FALSE],
   content |-> [sessions |-> Movable, time |-> 2, exchanges |-> 2, jobs |-> 3, moves |-> TRUE],
   workers |-> [sessions |-> Movable, time |-> 4, exchanges |-> 1, jobs |-> 2, moves |-> FALSE]]

InScenario ==
  LET bound == Scenario[scenario]
  IN  /\ now' <= bound.time
      /\ nextJob' <= bound.jobs + 1
      /\ Cardinality(DOMAIN exchanges') <= bound.exchanges
      /\ \A e \in DOMAIN exchanges' : exchanges'[e].session \in bound.sessions
      /\ ~bound.moves => /\ profile' = profile
                         /\ excluded' = excluded
                         /\ \A e \in DOMAIN exchanges : exchanges'[e] = exchanges[e]

MCInit == RuntimeInit /\ scenario \in DOMAIN Scenario

MCNext ==
  /\ IF scenario = "workers" THEN RuntimeNext
     ELSE Next /\ UNCHANGED <<worker, calls, admin, granted, disturbances>>
  /\ InScenario
  /\ UNCHANGED scenario

MCSpec == MCInit /\ [][MCNext]_<<vars, scenario>>

Symmetry == Permutations(Owners) \cup Permutations(Runtimes)
=============================================================================
